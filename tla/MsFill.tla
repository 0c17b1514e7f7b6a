------------------------------- MODULE MsFill -------------------------------
(***************************************************************************)
(* Filling a MeasurementSet: MsWriter (src/src/ms_writer.cpp) collects rows *)
(* and writes them, subtable by subtable and the main table last, into the *)
(* directory tree of a MeasurementSet (src/src/measurement_set.cpp), while *)
(* MeasurementSet objects of other processes open it, cache what they open *)
(* and may flush() their own copy of the main table's table.dat.           *)
(*                                                                         *)
(* A table on disk is its table.dat, with a row count, and its data file.  *)
(* A subtable row is a name; a main row holds one reference into each      *)
(* subtable (ANTENNA1, FIELD_ID and so on).  Rows count from 1 here and    *)
(* from 0 in the code.                                                     *)
(***************************************************************************)
EXTENDS Naturals, SequencesExt

CONSTANTS
    Filler,     \* the process with the MsWriter; it created the MeasurementSet
    Openers,    \* other processes that open the MeasurementSet
    Subtables,  \* the subtables main rows refer to, in the order of flush()
    Main,       \* the main table
    Name,       \* what identifies a subtable row
    Blank,      \* the cell of a subtable row before it is written
    MaxRows,    \* bound on the rows of a table
    MaxPending  \* and of all tables

Sub == Range(Subtables)
Tables == Sub \cup {Main}
Process == Openers \cup {Filler}

ASSUME MsFillAssumption ==
    /\ Filler \notin Openers
    /\ Subtables \in Seq(Sub) /\ IsInjective(Subtables)
    /\ Main \notin Sub
    /\ Blank \notin Name
    /\ MaxRows \in Nat /\ MaxPending \in Nat

VARIABLES
    dat,        \* table.dat of each table: its state and row count
    data,       \* data file of each table: its state and rows
    ms,         \* per process and table: the Table in its MeasurementSet object
    pending,    \* the rows added to the MsWriter, per table
    pc          \* per process: the table and step its flush has reached

vars == <<dat, data, ms, pending, pc>>

MainRow == [Sub -> 0..MaxRows]
RowOf(t) == IF t = Main THEN MainRow ELSE Name \cup {Blank}
Room(t) ==
    /\ Len(pending[t]) < MaxRows
    /\ FoldFunctionOnSet(+, 0, [u \in Tables |-> Len(pending[u])], Tables) < MaxPending
UpTo(S) == {s \in Seq(S) : Len(s) <= MaxRows}

Idle == [step |-> "idle", table |-> Main]

State == {"ok", "torn", "gone"}
DataFile(t) == [state : State, rows : UpTo(RowOf(t))]
TableObject(t) == [open : BOOLEAN, nrow : 0..MaxRows, reader : {"unread", "failed", "open"},
                   rows : UpTo(RowOf(t))]

TypeOK ==
    /\ dat \in [Tables -> [state : State, rows : 0..MaxRows]]
    /\ DOMAIN data = Tables
    /\ \A t \in Tables : data[t] \in DataFile(t)
    /\ DOMAIN ms = Process
    /\ \A p \in Process : DOMAIN ms[p] = Tables /\ \A t \in Tables : ms[p][t] \in TableObject(t)
    /\ DOMAIN pending = Tables
    /\ \A t \in Tables : pending[t] \in UpTo(RowOf(t))
    /\ pc \in [Process -> [step : {"idle", "remove", "createDat", "createData", "begin",
                                   "data", "header", "dat", "rewrite"},
                           table : Tables]]

----------------------------------------------------------------------------
Closed == [open |-> FALSE, nrow |-> 0, reader |-> "unread", rows |-> <<>>]
Opened(n) == [Closed EXCEPT !.open = TRUE, !.nrow = n]

\* MeasurementSet::create has written an empty main table, then the empty
\* subtables, and opened the result.
Init ==
    /\ dat = [t \in Tables |-> [state |-> "ok", rows |-> 0]]
    /\ data = [t \in Tables |-> [state |-> "ok", rows |-> <<>>]]
    /\ ms = [p \in Process |-> [t \in Tables |->
                IF p = Filler /\ t = Main THEN Opened(0) ELSE Closed]]
    /\ pending = [t \in Tables |-> <<>>]
    /\ pc = [p \in Process |-> Idle]

\* add_antenna, add_field and the others: the row waits in memory.
AddSubRow(t, name) ==
    /\ pc[Filler] = Idle
    /\ Room(t)
    /\ pending' = [pending EXCEPT ![t] = Append(@, name)]
    /\ UNCHANGED <<dat, data, ms, pc>>

\* add_row: nothing is checked yet.
AddRow(row) ==
    /\ pc[Filler] = Idle
    /\ Room(Main)
    /\ pending' = [pending EXCEPT ![Main] = Append(@, row)]
    /\ UNCHANGED <<dat, data, ms, pc>>

----------------------------------------------------------------------------
(* The MeasurementSet object.                                              *)

\* MeasurementSet::open reads the main table's table.dat.
OpenMs(p) ==
    /\ ~ms[p][Main].open
    /\ dat[Main].state = "ok"
    /\ ms' = [ms EXCEPT ![p][Main] = Opened(dat[Main].rows)]
    /\ UNCHANGED <<dat, data, pending, pc>>

\* subtable(): the first use opens the subtable and keeps it for good.
OpenSubtable(p, s) ==
    /\ ms[p][Main].open
    /\ ~ms[p][s].open
    /\ pc[p] = Idle
    /\ dat[s].state = "ok"
    /\ ms' = [ms EXCEPT ![p][s] = Opened(dat[s].rows)]
    /\ UNCHANGED <<dat, data, pending, pc>>

\* The first cell read takes the data file into memory as it is now; a failure
\* to open it is remembered, too.
LoadReader(p, t) ==
    /\ ms[p][t].open
    /\ ms[p][t].reader = "unread"
    /\ pc[p] = Idle
    /\ ms' = [ms EXCEPT ![p][t] =
                IF data[t].state = "ok" THEN [@ EXCEPT !.reader = "open", !.rows = data[t].rows]
                ELSE [@ EXCEPT !.reader = "failed"]]
    /\ UNCHANGED <<dat, data, pending, pc>>

\* MeasurementSet::flush writes the main table's table.dat as it was opened.
FlushMs(p) ==
    /\ ms[p][Main].open
    /\ pc[p] = Idle
    /\ pc' = [pc EXCEPT ![p] = [step |-> "rewrite", table |-> Main]]
    /\ dat' = [dat EXCEPT ![Main].state = "torn"]
    /\ UNCHANGED <<data, ms, pending>>

RewriteDat(p) ==
    /\ pc[p].step = "rewrite"
    /\ dat' = [dat EXCEPT ![Main] = [state |-> "ok", rows |-> ms[p][Main].nrow]]
    /\ pc' = [pc EXCEPT ![p] = Idle]
    /\ UNCHANGED <<data, ms, pending>>

----------------------------------------------------------------------------
(* MsWriter::flush.                                                        *)

\* validate_foreign_keys looks at the pending rows only.
ForeignKeysValid ==
    \A i \in DOMAIN pending[Main] : \A s \in Sub :
        pending[Main][i][s] \in 1..Len(pending[s])

\* Mutant: the main table first.
MainFirst == <<Main>> \o Subtables

\* Subtables first, they are what main rows refer to.
FlushOrder == Subtables \o <<Main>>

\* Mutant: the last table is forgotten.
ToFlushButLast(i) == {k \in i..(Len(FlushOrder) - 1) : pending[FlushOrder[k]] # <<>>}

\* Where in FlushOrder, from the i-th place on, tables have pending rows.
ToFlush(i) == {k \in i..Len(FlushOrder) : pending[FlushOrder[k]] # <<>>}

\* A subtable is removed and created again, the main table is overwritten.
StepsFor(todo) ==
    IF todo = {} THEN Idle
    ELSE LET t == FlushOrder[Min(todo)]
         IN  [step |-> IF t = Main THEN "begin" ELSE "remove", table |-> t]

Place(t) == CHOOSE k \in DOMAIN FlushOrder : FlushOrder[k] = t

NextTable(t) == StepsFor(ToFlush(Place(t) + 1))

Flush ==
    /\ pc[Filler] = Idle
    /\ ForeignKeysValid
    /\ pc' = [pc EXCEPT ![Filler] = StepsFor(ToFlush(1))]
    /\ UNCHANGED <<dat, data, ms, pending>>

\* flush_subtable: the subtable is opened, if it was not, and its directory
\* removed.
RemoveTable(t) ==
    /\ pc[Filler] = [step |-> "remove", table |-> t]
    /\ ms[Filler][t].open \/ dat[t].state = "ok"
    /\ ms' = [ms EXCEPT ![Filler][t] = IF @.open THEN @ ELSE Opened(dat[t].rows)]
    /\ dat' = [dat EXCEPT ![t] = [state |-> "gone", rows |-> 0]]
    /\ data' = [data EXCEPT ![t] = [state |-> "gone", rows |-> <<>>]]
    /\ pc' = [pc EXCEPT ![Filler].step = "createDat"]
    /\ UNCHANGED pending

\* Table::create for as many rows as will be written, all blank.
CreateDat(t) ==
    /\ pc[Filler] = [step |-> "createDat", table |-> t]
    /\ dat' = [dat EXCEPT ![t] = [state |-> "ok", rows |-> Len(pending[t])]]
    /\ pc' = [pc EXCEPT ![Filler].step = "createData"]
    /\ UNCHANGED <<data, ms, pending>>

CreateData(t) ==
    /\ pc[Filler] = [step |-> "createData", table |-> t]
    /\ data' = [data EXCEPT ![t] = [state |-> "ok",
                                    rows |-> [i \in DOMAIN pending[t] |-> Blank]]]
    /\ pc' = [pc EXCEPT ![Filler].step = "begin"]
    /\ UNCHANGED <<dat, ms, pending>>

\* The cells are written in memory; Table::flush and flush_main_table write the
\* data file and then table.dat, each truncated first.
FlushBegin(t) ==
    /\ pc[Filler] = [step |-> "begin", table |-> t]
    /\ data' = [data EXCEPT ![t].state = "torn"]
    /\ pc' = [pc EXCEPT ![Filler].step = "data"]
    /\ UNCHANGED <<dat, ms, pending>>

FlushData(t) ==
    /\ pc[Filler] = [step |-> "data", table |-> t]
    /\ data' = [data EXCEPT ![t] = [state |-> "ok", rows |-> pending[t]]]
    /\ pc' = [pc EXCEPT ![Filler].step = "header"]
    /\ UNCHANGED <<dat, ms, pending>>

FlushHeader(t) ==
    /\ pc[Filler] = [step |-> "header", table |-> t]
    /\ dat' = [dat EXCEPT ![t].state = "torn"]
    /\ pc' = [pc EXCEPT ![Filler].step = "dat"]
    /\ UNCHANGED <<data, ms, pending>>

FlushDat(t) ==
    /\ pc[Filler] = [step |-> "dat", table |-> t]
    /\ dat' = [dat EXCEPT ![t] = [state |-> "ok", rows |-> Len(pending[t])]]
    /\ pc' = [pc EXCEPT ![Filler] = NextTable(t)]
    /\ UNCHANGED <<data, ms, pending>>

FlushStep(t) ==
    \/ RemoveTable(t) \/ CreateDat(t) \/ CreateData(t)
    \/ FlushBegin(t) \/ FlushData(t) \/ FlushHeader(t) \/ FlushDat(t)

\* The MeasurementSet object goes away; the writer's lives as long as it.
Close(p) ==
    /\ p \in Openers
    /\ ms[p][Main].open
    /\ pc[p] = Idle
    /\ ms' = [ms EXCEPT ![p] = [t \in Tables |-> Closed]]
    /\ UNCHANGED <<dat, data, pending, pc>>

Next ==
    \/ \E t \in Sub, name \in Name : AddSubRow(t, name)
    \/ \E row \in MainRow : AddRow(row)
    \/ Flush
    \/ \E t \in Tables : FlushStep(t)
    \/ \E p \in Process :
        \/ OpenMs(p)
        \/ \E s \in Sub : OpenSubtable(p, s)
        \/ \E t \in Tables : LoadReader(p, t)
        \/ FlushMs(p)
        \/ RewriteDat(p)
        \/ Close(p)

\* The filler may die at any step: no step is ever obliged to happen.
Spec == Init /\ [][Next]_vars

----------------------------------------------------------------------------
(* Properties.                                                             *)

\* Whoever opens the MeasurementSet, at whatever step of whichever flush, and
\* opens each subtable and reads each file at whatever later moment, finds for
\* every main row it can see the rows it refers to: they exist in the subtable
\* it has, and hold the name the filler gave them or are still blank.
References ==
    \A p \in Process, s \in Sub :
        ms[p][Main].reader = "open" /\ ms[p][s].open =>
            \A i \in 1..ms[p][Main].nrow :
                LET id == ms[p][Main].rows[i][s]
                IN  /\ id \in 1..ms[p][s].nrow
                    /\ ms[p][s].reader = "open" =>
                        ms[p][s].rows[id] \in {Blank, pending[s][id]}

\* When MsWriter::flush returns, every table that has pending rows holds them
\* all, in its data file and by its row count, whatever the other processes did
\* meanwhile.
FillIsComplete ==
    [][ pc[Filler].step = "dat" /\ pc'[Filler] = Idle =>
            \A t \in Tables : pending[t] # <<>> =>
                /\ data'[t] = [state |-> "ok", rows |-> pending[t]]
                /\ dat'[t] = [state |-> "ok", rows |-> Len(pending[t])] ]_vars

\* "Flush pending writes" and "Write all pending rows to disk and update the
\* MS": the rows of the main table on disk never become fewer.
RowsStay == [][dat'[Main].rows >= dat[Main].rows]_vars
=============================================================================
