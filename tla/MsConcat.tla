------------------------------ MODULE MsConcat ------------------------------
(***************************************************************************)
(* ms_concat (src/src/ms_concat.cpp): two MeasurementSets become a third.   *)
(* Table by table, the rows of the first are copied to an MsWriter and the *)
(* rows of the second are added or, where the first has a row of the same  *)
(* name, identified with it; the main rows of the second then refer to the *)
(* rows of the merged tables through the id maps built on the way.         *)
(*                                                                         *)
(* The rows of ANTENNA, FIELD and SPECTRAL_WINDOW are their names, those of *)
(* OBSERVATION, STATE and POLARIZATION values that are only copied; the     *)
(* ids of a main row that lead to none of these tables (FEED1, PROCESSOR_ID *)
(* and so on) are copied and left out, and so are the other cells.  Rows   *)
(* count from 1 here and from 0 in the code, so -1, "none", is 0 here.     *)
(***************************************************************************)
EXTENDS Naturals, Sequences, FiniteSets

CONSTANTS Inputs    \* the pairs of MeasurementSets that may be concatenated

Named == {"antenna", "field", "spw"}
Order == <<"antenna", "field", "spw", "dd", "pol", "obs", "state", "main">>
MsTables == {Order[i] : i \in DOMAIN Order}

MainFields == {"ant1", "ant2", "field", "dd", "obs", "state"}

\* The table each field of a main row refers to.
RefersTo == [ant1 |-> "antenna", ant2 |-> "antenna", field |-> "field",
             dd |-> "dd", obs |-> "obs", state |-> "state"]

\* The rows of a table, whatever they are.
IsRows(rows) == rows \in Seq({rows[i] : i \in DOMAIN rows})

\* A MeasurementSet as MsWriter and other fillers leave it: a reference finds
\* a row or, in STATE_ID only, is none.
IsMeasurementSet(ms) ==
    /\ DOMAIN ms = MsTables
    /\ \A t \in MsTables : IsRows(ms[t])
    /\ \A i \in DOMAIN ms["dd"] :
        ms["dd"][i] \in [spw : DOMAIN ms["spw"], pol : DOMAIN ms["pol"]]
    /\ \A i \in DOMAIN ms["main"] : \A f \in MainFields :
        \/ ms["main"][i][f] \in DOMAIN ms[RefersTo[f]]
        \/ f = "state" /\ ms["main"][i][f] = 0

ASSUME ConcatAssumption ==
    \A pair \in Inputs : IsMeasurementSet(pair.one) /\ IsMeasurementSet(pair.two)

VARIABLES
    inputs,     \* the two MeasurementSets
    out,        \* the rows added to the MsWriter of the output
    remap,      \* per table: the output row of each row of the second so far
    step,       \* the table being merged, or how the call ended
    nextRow     \* the row of the second to merge next, 0 before the first is copied

concatVars == <<inputs, out, remap, step, nextRow>>

NoRows == [t \in MsTables |-> <<>>]

ConcatTypeOK ==
    /\ IsMeasurementSet(inputs.one) /\ IsMeasurementSet(inputs.two)
    /\ DOMAIN out = MsTables
    /\ \A t \in MsTables : Len(out[t]) <= Len(inputs.one[t]) + Len(inputs.two[t])
    /\ DOMAIN remap = MsTables
    /\ \A t \in MsTables : \A i \in DOMAIN remap[t] : remap[t][i] \in DOMAIN out[t]
    /\ step \in MsTables \cup {"idle", "flush", "done", "failed"}
    /\ nextRow \in Nat

ConcatInit ==
    /\ inputs = [one |-> NoRows, two |-> NoRows]
    /\ out = NoRows
    /\ remap = NoRows
    /\ step = "idle"
    /\ nextRow = 0

\* The output MeasurementSet and the MsWriter are created.
StartConcat ==
    /\ step = "idle"
    /\ inputs' \in Inputs
    /\ step' = "antenna"
    /\ UNCHANGED <<out, remap, nextRow>>

CopyFirst(t) ==
    /\ step = t
    /\ nextRow = 0
    /\ out' = [out EXCEPT ![t] = inputs.one[t]]
    /\ nextRow' = 1
    /\ UNCHANGED <<inputs, remap, step>>

\* Mutant: the row count after the row is added is taken for its number.
AddRowToCounted(t, x) ==
    /\ out' = [out EXCEPT ![t] = Append(@, x)]
    /\ remap' = [remap EXCEPT ![t] = Append(@, Len(out'[t]) + 1)]

AddRowTo(t, x) ==
    /\ out' = [out EXCEPT ![t] = Append(@, x)]
    /\ remap' = [remap EXCEPT ![t] = Append(@, Len(out[t]) + 1)]

Identify(t, id) ==
    /\ remap' = [remap EXCEPT ![t] = Append(@, id)]
    /\ UNCHANGED out

MergesRow(t) ==
    /\ step = t
    /\ nextRow \in 1..Len(inputs.two[t])
    /\ nextRow' = nextRow + 1
    /\ UNCHANGED <<inputs, step>>

\* The name maps: of several rows of one name, the last.
NameMap(t) ==
    [n \in {inputs.one[t][i] : i \in DOMAIN inputs.one[t]} |->
        CHOOSE i \in DOMAIN inputs.one[t] :
            /\ inputs.one[t][i] = n
            /\ \A j \in DOMAIN inputs.one[t] : inputs.one[t][j] = n => j <= i]

\* Mutant: a new row gets the id it had in the second MeasurementSet.
MergeByNameOldId(t) ==
    /\ MergesRow(t)
    /\ LET n == inputs.two[t][nextRow]
       IN  IF n \in DOMAIN NameMap(t) THEN Identify(t, NameMap(t)[n])
           ELSE /\ out' = [out EXCEPT ![t] = Append(@, n)]
                /\ remap' = [remap EXCEPT ![t] = Append(@, nextRow)]

MergeByName(t) ==
    /\ MergesRow(t)
    /\ LET n == inputs.two[t][nextRow]
       IN  IF n \in DOMAIN NameMap(t) THEN Identify(t, NameMap(t)[n])
           ELSE AddRowTo(t, n)

\* An id without an entry in the map stays as it is.
Remapped(t, id) == IF id \in DOMAIN remap[t] THEN remap[t][id] ELSE id

\* DATA_DESCRIPTION: a row of the first with the same window, by its new id,
\* and the same POLARIZATION_ID is taken for the same.
MergeDataDescription ==
    /\ MergesRow("dd")
    /\ LET dd == [inputs.two["dd"][nextRow] EXCEPT !.spw = Remapped("spw", @)]
           same == {i \in DOMAIN inputs.one["dd"] : inputs.one["dd"][i] = dd}
       IN  IF same # {} THEN Identify("dd", CHOOSE i \in same : \A j \in same : i <= j)
           ELSE AddRowTo("dd", dd)

\* OBSERVATION: the rows are added and the new ids are not kept.
AddObservation ==
    /\ MergesRow("obs")
    /\ out' = [out EXCEPT !["obs"] = Append(@, inputs.two["obs"][nextRow])]
    /\ UNCHANGED remap

AddState ==
    /\ MergesRow("state")
    /\ AddRowTo("state", inputs.two["state"][nextRow])

AddMainRow ==
    /\ MergesRow("main")
    /\ out' = [out EXCEPT !["main"] = Append(@,
                [f \in MainFields |-> Remapped(RefersTo[f], inputs.two["main"][nextRow][f])])]
    /\ UNCHANGED remap

NextOf(t) ==
    LET i == CHOOSE k \in DOMAIN Order : Order[k] = t
    IN  IF i = Len(Order) THEN "flush" ELSE Order[i + 1]

\* POLARIZATION: only the rows of the first are copied.
TableDone(t) ==
    /\ step = t
    /\ nextRow > IF t = "pol" THEN 0 ELSE Len(inputs.two[t])
    /\ step' = NextOf(t)
    /\ nextRow' = 0
    /\ UNCHANGED <<inputs, out, remap>>

\* MsWriter::validate_foreign_keys, on the rows added to this writer.
KeysAreValid ==
    \A i \in DOMAIN out["main"] : \A f \in MainFields :
        out["main"][i][f] \in DOMAIN out[RefersTo[f]]

\* writer.flush() throws before it has written any table; the output
\* MeasurementSet that was created stays behind, empty.
FlushConcat ==
    /\ step = "flush"
    /\ step' = IF KeysAreValid THEN "done" ELSE "failed"
    /\ UNCHANGED <<inputs, out, remap, nextRow>>

ConcatNext ==
    \/ StartConcat
    \/ \E t \in MsTables : CopyFirst(t) \/ TableDone(t)
    \/ \E t \in Named : MergeByName(t)
    \/ MergeDataDescription
    \/ AddObservation
    \/ AddState
    \/ AddMainRow
    \/ FlushConcat

ConcatSpec == ConcatInit /\ [][ConcatNext]_concatVars

----------------------------------------------------------------------------
(* Properties.                                                             *)

\* The row a number leads to, and the row of table t that the data description
\* of that number names in its field f.
RowAt(m, t, id) == IF id \in DOMAIN m[t] THEN m[t][id] ELSE "nothing"
DescribedAt(m, t, id, f) ==
    IF id \in DOMAIN m["dd"] THEN RowAt(m, t, m["dd"][id][f]) ELSE "nothing"

\* What a main row says of its data, whatever the numbers: the rows its ids lead
\* to, directly and through DATA_DESCRIPTION.
Meaning(m, i) ==
    LET r == m["main"][i]
    IN  [ant1 |-> RowAt(m, "antenna", r["ant1"]), ant2 |-> RowAt(m, "antenna", r["ant2"]),
         field |-> RowAt(m, "field", r["field"]), state |-> RowAt(m, "state", r["state"]),
         obs |-> RowAt(m, "obs", r["obs"]), spw |-> DescribedAt(m, "spw", r["dd"], "spw"),
         pol |-> DescribedAt(m, "pol", r["dd"], "pol")]

\* The two ids that are not remapped.  OBSERVATION_ID counts the rows of both,
\* those of the first before those of the second; POLARIZATION_ID counts the
\* rows of the first alone.
ObservationTaken(id) ==
    LET n == Len(inputs.one["obs"])
    IN  IF id \in 1..n THEN inputs.one["obs"][id] ELSE RowAt(inputs.two, "obs", id - n)

PolarizationTaken(dd) == RowAt(inputs.one, "pol", inputs.two["dd"][dd].pol)

\* What is said in the output by a main row of the second MeasurementSet.
TakenFor(i) ==
    LET r == inputs.two["main"][i]
    IN  [Meaning(inputs.two, i) EXCEPT !.obs = ObservationTaken(r["obs"]),
                                       !.pol = PolarizationTaken(r["dd"])]

\* "All ID columns in the ms2 main-table rows (ANTENNA1, ANTENNA2, FIELD_ID,
\* DATA_DESC_ID, OBSERVATION_ID, etc.) are remapped to the new indices in the
\* merged subtables" (ms_concat.hpp:44-46): when the call is done, each main row of
\* the second MeasurementSet still says what it said.
IdsAreRemapped ==
    step = "done" =>
        \A i \in DOMAIN inputs.two["main"] :
            Meaning(out, Len(inputs.one["main"]) + i) = Meaning(inputs.two, i)

\* The output has the rows of the first MeasurementSet and then those of the
\* second, and each still says what it said, but for the observation and the
\* polarization of the rows of the second, which are those that the old numbers
\* happen to lead to (ms_concat.cpp:168-291): names may repeat in either input,
\* rows may have been added or identified, and a window is found through two maps.
RowsKeepTheirMeaning ==
    step \in {"flush", "done"} =>
        LET n1 == Len(inputs.one["main"])
            n2 == Len(inputs.two["main"])
        IN  /\ Len(out["main"]) = n1 + n2
            /\ \A i \in 1..n1 : Meaning(out, i) = Meaning(inputs.one, i)
            /\ \A i \in 1..n2 : Meaning(out, n1 + i) = TakenFor(i)

\* No name of the first is added a second time, and every name of the second
\* is there (ms_concat.cpp:68-156).
NamesAreMerged ==
    step = "done" =>
        \A t \in Named :
            LET count(s, n) == Cardinality({i \in DOMAIN s : s[i] = n})
            IN  \A i \in DOMAIN out[t] :
                    LET n == out[t][i]
                    IN  count(out[t], n) = IF count(inputs.one[t], n) > 0 THEN count(inputs.one[t], n)
                                           ELSE count(inputs.two[t], n)

\* The call fails only for an input that has a main row without a state: no
\* map sends a reference that found a row to where there is none, after both
\* MeasurementSets have been read (ms_concat.cpp:293, ms_writer.cpp:66-109).
FailsOnlyForNoState ==
    step = "failed" =>
        \E m \in {inputs.one, inputs.two} : \E i \in DOMAIN m["main"] : m["main"][i].state = 0

\* However ms_concat ends: the references it remaps lead to the rows they led to,
\* those it does not remap lead where the old numbers do, names are merged, and it
\* throws only for a main row without a state.
ConcatKeepsReferences == RowsKeepTheirMeaning /\ NamesAreMerged /\ FailsOnlyForNoState
=============================================================================
