----------------------------- MODULE TableStore -----------------------------
(***************************************************************************)
(* casacore_mini::Table over its directory (src/src/table.cpp): table.dat  *)
(* with the row count, one data file per storage manager, and the Table    *)
(* objects of several processes, each with its copy of table.dat, its lazy *)
(* readers and, when it may write, its writers.                            *)
(*                                                                         *)
(* One column stands for all columns of a storage manager.  Rows count     *)
(* from 1 here and from 0 in the code.  Files are written by opening with  *)
(* truncation and then writing, so every file is "torn" in between; other  *)
(* processes, and the death of this one, may come between any two steps.   *)
(***************************************************************************)
EXTENDS Naturals, Sequences

CONSTANTS
    Writers,    \* processes that use Table::create and Table::open_rw
    Readers,    \* processes that use Table::open
    Managers,   \* the kind of each storage manager of the table
    Val,        \* cell values
    Default,    \* the value of a cell nobody wrote
    MaxRows     \* bound on the rows of the table

Kinds == {"ssm", "ism", "tsm"}

ASSUME TableStoreAssumption ==
    /\ Writers \cap Readers = {}
    /\ Managers \in Seq(Kinds) \ {<<>>}
    /\ \A i, j \in DOMAIN Managers : Managers[i] = Managers[j] => i = j
    /\ Default \in Val
    /\ MaxRows \in Nat

VARIABLES
    dat,        \* table.dat: its state and row count
    file,       \* the data file of each storage manager
    mode,       \* per process: no Table object, read-only or read-write
    dirRows,    \* Impl::dir.table_dat.row_count
    cache,      \* the lazy reader of each storage manager
    writer,     \* Impl::ssm_writer, ism_writer, tsm_writer
    pc,         \* the step a create, flush or row mutation has reached
    op          \* the row mutation that called flush()

vars == <<dat, file, mode, dirRows, cache, writer, pc, op>>
handleVars == <<mode, dirRows, cache, writer, pc, op>>

Process == Writers \cup Readers
Manager == DOMAIN Managers
Rows == {s \in Seq(Val) : Len(s) <= MaxRows}

Step == {"idle", "createDat", "createData", "createRead",
         "data", "header", "dat", "rebuild"}
NoOp == [add |-> 0, remove |-> 0]

TypeOK ==
    /\ dat \in [state : {"none", "torn", "ok"}, rows : 0..MaxRows]
    /\ file \in [Manager -> [kind : Kinds \cup {"none", "torn"}, cells : Rows]]
    /\ mode \in [Process -> {"closed", "ro", "rw"}]
    /\ dirRows \in [Process -> 0..MaxRows]
    /\ cache \in [Process ->
                    [Manager -> [state : {"unread", "failed", "open"}, cells : Rows]]]
    /\ writer \in [Process -> [Manager -> [on : BOOLEAN, cells : Rows]]]
    /\ pc \in [Process -> Step]
    /\ op \in [Process -> [add : 0..MaxRows, remove : 0..MaxRows]]

----------------------------------------------------------------------------
(* Files, readers and writers.                                             *)

Defaults(n) == [r \in 1..n |-> Default]

Torn == [kind |-> "torn", cells |-> <<>>]
Unread == [m \in Manager |-> [state |-> "unread", cells |-> <<>>]]
NoWriter == [on |-> FALSE, cells |-> <<>>]
NoWriters == [m \in Manager |-> NoWriter]
WriterOf(rows) == [on |-> TRUE, cells |-> rows]

\* ensure_*_readers(): the reader takes the whole file into memory; a failure
\* to open is swallowed, remembered, and the column has no reader from then on.
OpenReader(m) ==
    IF file[m].kind = Managers[m]
        THEN [state |-> "open", cells |-> file[m].cells]
        ELSE [state |-> "failed", cells |-> <<>>]

\* read_cell for rows 1..n does not throw.  SSM looks the row up in its index;
\* ISM serves any row below the row count from the last entry before it; a
\* column without a reader is skipped by every copy loop.
Readable(m, reader, n) ==
    \/ reader.state = "failed"
    \/ n <= Len(reader.cells)
    \/ Managers[m] = "ism" /\ reader.cells # <<>>

CellAt(reader, r) ==
    IF reader.state = "failed" THEN Default
    ELSE IF r <= Len(reader.cells) THEN reader.cells[r]
    ELSE reader.cells[Len(reader.cells)]

\* The writer Table::flush writes from: SSM, else ISM, else TSM, and always
\* into sequence number 0, the first storage manager's file.
FlushManagers(h) ==
    {m \in Manager :
        /\ writer[h][m].on
        /\ Managers[m] = "ism" => ~\E k \in Manager : writer[h][k].on /\ Managers[k] = "ssm"
        /\ Managers[m] = "tsm" => ~\E k \in Manager : writer[h][k].on /\ Managers[k] # "tsm"}

HasWriter(h) == \E m \in Manager : writer[h][m].on

----------------------------------------------------------------------------
(* Initially there is no table; a table with several storage managers was  *)
(* made by casacore, since Table::create makes only one.                   *)

Init ==
    /\ \/ /\ dat = [state |-> "none", rows |-> 0]
          /\ file = [m \in Manager |-> [kind |-> "none", cells |-> <<>>]]
       \/ /\ Len(Managers) > 1
          /\ \E n \in 0..MaxRows :
                /\ dat = [state |-> "ok", rows |-> n]
                /\ file = [m \in Manager |-> [kind |-> Managers[m], cells |-> Defaults(n)]]
    /\ mode = [h \in Process |-> "closed"]
    /\ dirRows = [h \in Process |-> 0]
    /\ cache = [h \in Process |-> Unread]
    /\ writer = [h \in Process |-> NoWriters]
    /\ pc = [h \in Process |-> "idle"]
    /\ op = [h \in Process |-> NoOp]

----------------------------------------------------------------------------
(* Table::create: table.dat first, then the data file, and at last it reads *)
(* table.dat back.  It does not look whether the directory holds a table    *)
(* already, nor whether what it reads back is what it wrote.               *)

CreateBegin(h) ==
    /\ mode[h] = "closed"
    /\ Len(Managers) = 1
    /\ \E n \in 0..MaxRows :
        /\ dirRows' = [dirRows EXCEPT ![h] = n]
        /\ writer' = [writer EXCEPT ![h] = [m \in Manager |-> WriterOf(Defaults(n))]]
    /\ mode' = [mode EXCEPT ![h] = "rw"]
    /\ pc' = [pc EXCEPT ![h] = "createDat"]
    /\ dat' = [dat EXCEPT !.state = "torn"]
    /\ UNCHANGED <<file, cache, op>>

CreateDat(h) ==
    /\ pc[h] = "createDat"
    /\ dat' = [state |-> "ok", rows |-> dirRows[h]]
    /\ file' = [file EXCEPT ![1] = Torn]
    /\ pc' = [pc EXCEPT ![h] = "createData"]
    /\ UNCHANGED <<mode, dirRows, cache, writer, op>>

CreateData(h) ==
    /\ pc[h] = "createData"
    /\ file' = [file EXCEPT ![1] = [kind |-> Managers[1], cells |-> writer[h][1].cells]]
    /\ pc' = [pc EXCEPT ![h] = "createRead"]
    /\ UNCHANGED <<dat, mode, dirRows, cache, writer, op>>

\* The Table takes the row count that it finds, which may be another process's,
\* and keeps the writer that it set up.
CreateRead(h) ==
    /\ pc[h] = "createRead"
    /\ dat.state = "ok"
    /\ dirRows' = [dirRows EXCEPT ![h] = dat.rows]
    /\ pc' = [pc EXCEPT ![h] = "idle"]
    /\ UNCHANGED <<dat, file, mode, cache, writer, op>>

\* Another process is writing table.dat: create throws and there is no Table.
CreateThrows(h) ==
    /\ pc[h] = "createRead"
    /\ dat.state # "ok"
    /\ mode' = [mode EXCEPT ![h] = "closed"]
    /\ dirRows' = [dirRows EXCEPT ![h] = 0]
    /\ writer' = [writer EXCEPT ![h] = NoWriters]
    /\ pc' = [pc EXCEPT ![h] = "idle"]
    /\ UNCHANGED <<dat, file, cache, op>>

\* Table::open reads table.dat now and the data files when a cell is read.
Open(h) ==
    /\ mode[h] = "closed"
    /\ dat.state = "ok"
    /\ mode' = [mode EXCEPT ![h] = "ro"]
    /\ dirRows' = [dirRows EXCEPT ![h] = dat.rows]
    /\ UNCHANGED <<dat, file, cache, writer, pc, op>>

\* Table::open_rw copies the SSM and TSM cells into fresh writers; an ISM
\* column gets none.  A cell that cannot be read makes it throw.
OpenRw(h) ==
    LET copied == {m \in Manager : Managers[m] # "ism"}
        n == dat.rows
        readers == [m \in Manager |-> IF m \in copied THEN OpenReader(m) ELSE Unread[m]]
    IN  /\ mode[h] = "closed"
        /\ dat.state = "ok"
        /\ \A m \in copied : Readable(m, readers[m], n)
        /\ mode' = [mode EXCEPT ![h] = "rw"]
        /\ dirRows' = [dirRows EXCEPT ![h] = n]
        /\ cache' = [cache EXCEPT ![h] = readers]
        /\ writer' = [writer EXCEPT ![h] = [m \in Manager |->
                        IF m \in copied
                            THEN WriterOf([r \in 1..n |-> CellAt(readers[m], r)])
                            ELSE NoWriter]]
        /\ UNCHANGED <<dat, file, pc, op>>

\* A cell read opens the reader of the column's storage manager on first use.
LoadReader(h, m) ==
    /\ mode[h] # "closed"
    /\ pc[h] = "idle"
    /\ cache[h][m].state = "unread"
    /\ cache' = [cache EXCEPT ![h][m] = OpenReader(m)]
    /\ UNCHANGED <<dat, file, mode, dirRows, writer, pc, op>>

\* write_*_cell: the column's position in writer_columns goes to the writer
\* that flush would use, so columns of any other manager are out of range.
WriteCell(h, m, r, v) ==
    /\ mode[h] = "rw"
    /\ pc[h] = "idle"
    /\ m \in FlushManagers(h)
    /\ r <= Len(writer[h][m].cells)
    /\ writer' = [writer EXCEPT ![h][m].cells[r] = v]
    /\ UNCHANGED <<dat, file, mode, dirRows, cache, pc, op>>

----------------------------------------------------------------------------
(* Table::flush, alone or at the start of add_row and remove_row.          *)

\* Mutant: table.dat is written before the data file.
StartFlushDatFirst(h, o) ==
    /\ mode[h] = "rw"
    /\ pc[h] = "idle"
    /\ HasWriter(h)
    /\ op' = [op EXCEPT ![h] = o]
    /\ dat' = [state |-> "ok", rows |-> dirRows[h]]
    /\ pc' = [pc EXCEPT ![h] = "data"]
    /\ UNCHANGED <<file, mode, dirRows, cache, writer>>

StartFlush(h, o) ==
    /\ mode[h] = "rw"
    /\ pc[h] = "idle"
    /\ op' = [op EXCEPT ![h] = o]
    /\ IF HasWriter(h)
           THEN /\ file' = [file EXCEPT ![1] = Torn]
                /\ pc' = [pc EXCEPT ![h] = "data"]
           ELSE /\ UNCHANGED file
                /\ pc' = [pc EXCEPT ![h] = "rebuild"]
    /\ UNCHANGED <<dat, mode, dirRows, cache, writer>>

Flush(h) == HasWriter(h) /\ StartFlush(h, NoOp)

AddRow(h, n) ==
    /\ dirRows[h] + n <= MaxRows
    /\ StartFlush(h, [NoOp EXCEPT !.add = n])

RemoveRow(h, r) ==
    /\ r <= dirRows[h]
    /\ StartFlush(h, [NoOp EXCEPT !.remove = r])

FlushData(h) ==
    /\ pc[h] = "data"
    /\ \E m \in FlushManagers(h) :
        file' = [file EXCEPT ![1] = [kind |-> Managers[m], cells |-> writer[h][m].cells]]
    /\ pc' = [pc EXCEPT ![h] = "header"]
    /\ UNCHANGED <<dat, mode, dirRows, cache, writer, op>>

FlushHeader(h) ==
    /\ pc[h] = "header"
    /\ dat' = [dat EXCEPT !.state = "torn"]
    /\ pc' = [pc EXCEPT ![h] = "dat"]
    /\ UNCHANGED <<file, mode, dirRows, cache, writer, op>>

\* Mutant: the readers are not reset.
FlushDatKeepsReaders(h) ==
    /\ pc[h] = "dat"
    /\ dat' = [state |-> "ok", rows |-> dirRows[h]]
    /\ pc' = [pc EXCEPT ![h] = IF op[h] = NoOp THEN "idle" ELSE "rebuild"]
    /\ UNCHANGED <<file, mode, dirRows, cache, writer, op>>

FlushDat(h) ==
    /\ pc[h] = "dat"
    /\ dat' = [state |-> "ok", rows |-> dirRows[h]]
    /\ cache' = [cache EXCEPT ![h] =
                    [m \in Manager |-> IF m \in FlushManagers(h) THEN Unread[m] ELSE @[m]]]
    /\ pc' = [pc EXCEPT ![h] = IF op[h] = NoOp THEN "idle" ELSE "rebuild"]
    /\ UNCHANGED <<file, mode, dirRows, writer, op>>

\* The second half of add_row and remove_row: drop readers and writers, read
\* table.dat again, open the readers and copy the surviving rows into writers
\* of the new size, manager kind by manager kind.  An exception leaves the
\* writers of the kinds before the one that could not be read.
Rank(kind) == CASE kind = "ssm" -> 1 [] kind = "ism" -> 2 [] kind = "tsm" -> 3

\* Mutant: one row too many.
NewRowsOneMore(h) == IF op[h].remove = 0 THEN dirRows[h] + op[h].add + 1 ELSE dirRows[h] - 1

NewRows(h) == IF op[h].remove = 0 THEN dirRows[h] + op[h].add ELSE dirRows[h] - 1

SourceRow(h, r) == IF op[h].remove = 0 \/ r < op[h].remove THEN r ELSE r + 1

\* Mutant: the writer is set up for the old number of rows.
CopiedRowsOldSize(h, reader) ==
    [r \in 1..(dirRows[h] - (IF op[h].remove = 0 THEN 0 ELSE 1)) |->
        CellAt(reader, SourceRow(h, r))]

\* Mutant: new rows are read as well, and an ISM reader extends its last value.
CopiedRowsExtended(h, reader) ==
    [r \in 1..NewRows(h) |-> IF SourceRow(h, r) <= dirRows[h] \/ reader.cells # <<>>
                                 THEN CellAt(reader, SourceRow(h, r))
                                 ELSE Default]

CopiedRows(h, reader) ==
    [r \in 1..NewRows(h) |-> IF SourceRow(h, r) <= dirRows[h]
                                 THEN CellAt(reader, SourceRow(h, r))
                                 ELSE Default]

LastSource(h) ==
    IF op[h].remove # 0 /\ op[h].remove = dirRows[h] THEN dirRows[h] - 1 ELSE dirRows[h]

Rebuild(h) ==
    LET readers == [m \in Manager |-> OpenReader(m)]
        good(m) == /\ Readable(m, readers[m], LastSource(h))
                   /\ Managers[m] # "ssm" /\ readers[m].state = "open"
                        => LastSource(h) <= dat.rows
        reached(m) == \A k \in Manager : Rank(Managers[k]) < Rank(Managers[m]) => good(k)
    IN  /\ pc[h] = "rebuild"
        /\ dat.state = "ok"
        /\ cache' = [cache EXCEPT ![h] =
                        [m \in Manager |-> IF reached(m) THEN readers[m] ELSE Unread[m]]]
        /\ writer' = [writer EXCEPT ![h] =
                        [m \in Manager |-> IF reached(m) /\ good(m)
                                               THEN WriterOf(CopiedRows(h, readers[m]))
                                               ELSE NoWriter]]
        /\ dirRows' = [dirRows EXCEPT ![h] =
                        IF \A m \in Manager : good(m) THEN NewRows(h) ELSE dat.rows]
        /\ pc' = [pc EXCEPT ![h] = "idle"]
        /\ op' = [op EXCEPT ![h] = NoOp]
        /\ UNCHANGED <<dat, file, mode>>

\* Mutant: wait until table.dat can be read.
RebuildRetries(h) ==
    /\ pc[h] = "rebuild"
    /\ dat.state # "ok"
    /\ UNCHANGED vars

\* table.dat cannot be read: the exception leaves a writable Table without
\* writers, whose flush() does nothing.
RebuildThrows(h) ==
    /\ pc[h] = "rebuild"
    /\ dat.state # "ok"
    /\ cache' = [cache EXCEPT ![h] = Unread]
    /\ writer' = [writer EXCEPT ![h] = NoWriters]
    /\ pc' = [pc EXCEPT ![h] = "idle"]
    /\ op' = [op EXCEPT ![h] = NoOp]
    /\ UNCHANGED <<dat, file, mode, dirRows>>

\* The Table object is destroyed (it flushes nothing) or its process dies.
Stop(h) ==
    /\ mode[h] # "closed"
    /\ mode' = [mode EXCEPT ![h] = "closed"]
    /\ dirRows' = [dirRows EXCEPT ![h] = 0]
    /\ cache' = [cache EXCEPT ![h] = Unread]
    /\ writer' = [writer EXCEPT ![h] = NoWriters]
    /\ pc' = [pc EXCEPT ![h] = "idle"]
    /\ op' = [op EXCEPT ![h] = NoOp]
    /\ UNCHANGED <<dat, file>>

----------------------------------------------------------------------------
\* The steps a call takes by itself once it has begun.
Continue(h) ==
    \/ CreateDat(h) \/ CreateData(h) \/ CreateRead(h) \/ CreateThrows(h)
    \/ FlushData(h) \/ FlushHeader(h) \/ FlushDat(h)
    \/ Rebuild(h) \/ RebuildThrows(h)

GrowNext ==
    \/ \E h \in Readers : Open(h)
    \/ \E h \in Writers :
        \/ dat.state = "none" /\ CreateBegin(h)
        \/ OpenRw(h)
        \/ \E m \in Manager, r \in 1..MaxRows, v \in Val : WriteCell(h, m, r, v)
        \/ Flush(h)
        \/ \E n \in 1..MaxRows : AddRow(h, n)
        \/ Continue(h)
    \/ \E h \in Process :
        \/ \E m \in Manager : LoadReader(h, m)
        \/ Stop(h)

Next ==
    \/ GrowNext
    \/ \E h \in Writers :
        \/ CreateBegin(h)
        \/ \E r \in 1..MaxRows : RemoveRow(h, r)

Spec == Init /\ [][Next]_vars

\* Programs that create the table once and then only ever add rows.
GrowSpec == Init /\ [][GrowNext]_vars

\* A call runs to its end unless its process stops: nothing in it waits.
FairSpec == Spec /\ \A h \in Writers : WF_vars(Continue(h))

----------------------------------------------------------------------------
(* Properties.                                                             *)

\* The writers of h have as many rows as the Table says it has.
RowsMatch(h) ==
    \A m \in Manager : writer[h][m].on => Len(writer[h][m].cells) = dirRows[h]

\* In a table with one storage manager, whatever the processes that write its
\* directory do to each other, a writer and the row count of its Table part at
\* one place only: at the end of a create that reads back a table.dat another
\* process wrote meanwhile.  Whoever opens the table for writing, and every
\* add_row and remove_row that comes to its end, has them agree, also when the
\* rows could not be read back or the directory changed under it.
RowsPartOnlyInCreate ==
    [][\A h \in Writers :
        /\ RowsMatch(h) /\ ~RowsMatch(h)' => pc[h] = "createRead" /\ dat.rows # dirRows[h]
        /\ pc[h] = "rebuild" /\ pc'[h] = "idle" => RowsMatch(h)'
        /\ mode[h] = "closed" /\ mode'[h] = "rw" => RowsMatch(h)']_vars

\* For the only writer of a table, a reader that has been opened and not been
\* reset shows what the file holds: flush and the row mutations reset the
\* readers of every file they rewrite.
ReadersShowFile ==
    \A h \in Writers, m \in Manager :
        pc[h] = "idle" /\ cache[h][m].state = "open" =>
            file[m] = [kind |-> Managers[m], cells |-> cache[h][m].cells]

\* With one writer that only adds rows, the data file is written before
\* table.dat, so a Table opened at any moment finds in the data file, whenever
\* it gets to read it, at least the rows table.dat promised, whatever crashes.
OpenedRowsExist ==
    \A h \in Readers, m \in Manager :
        mode[h] = "ro" =>
            /\ cache[h][m].state = "open" => dirRows[h] <= Len(cache[h][m].cells)
            /\ cache[h][m].state = "unread" /\ file[m].kind = Managers[m]
                    => dirRows[h] <= Len(file[m].cells)

\* A create, flush or row mutation that has begun comes to its end.
CallsEnd == \A h \in Writers : pc[h] # "idle" ~> pc[h] = "idle"

\* The doc of Table::flush, "Flush pending writes to disk": when no call is
\* under way and the files are whole, every storage manager's file holds all
\* the rows table.dat counts.
FlushedTableIsWhole ==
    /\ \A h \in Writers : pc[h] = "idle"
    /\ dat.state = "ok"
    /\ \A m \in Manager : file[m].kind = Managers[m]
    => \A m \in Manager : dat.rows <= Len(file[m].cells)
=============================================================================
