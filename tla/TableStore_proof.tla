-------------------------- MODULE TableStore_proof --------------------------
(***************************************************************************)
(* Proofs about TableStore for every set of processes and values, every    *)
(* bound on the rows and every list of storage managers.                   *)
(*                                                                         *)
(* The type invariant is not inductive: a row mutation keeps its arguments *)
(* across the flush it starts with, and its rebuild stays within MaxRows   *)
(* only because the row count did not move in between (OpFits).            *)
(***************************************************************************)
EXTENDS MCTableStore, SequenceTheorems, TLAPS

\* A row mutation under way fits the row count it started from, and between
\* calls there is none.
OpFits ==
    \A h \in Process :
        /\ op[h].remove = 0 => dirRows[h] + op[h].add <= MaxRows
        /\ op[h].remove <= dirRows[h]
        /\ pc[h] \in {"idle", "createDat", "createData", "createRead"} => op[h] = NoOp
        /\ mode[h] = "closed" => pc[h] = "idle"

IInv == TypeOK /\ OpFits

USE DEF Process, Manager, Step, handleVars

----------------------------------------------------------------------------
\* A function from 1..n into the values is a table of n rows.
LEMMA RowsFunction ==
    ASSUME NEW n \in 0..MaxRows, NEW f, f \in [1..n -> Val]
    PROVE  f \in Rows /\ Len(f) = n
<1>1. f \in Seq(Val) /\ Len(f) = n
  BY TableStoreAssumption
<1> QED
  BY <1>1, TableStoreAssumption DEF Rows

LEMMA EmptyRows == <<>> \in Rows /\ Len(<<>>) = 0
  BY TableStoreAssumption DEF Rows

\* Writing one cell keeps the number of rows.
LEMMA RowsExcept ==
    ASSUME NEW s \in Rows, NEW r, NEW v \in Val
    PROVE  [s EXCEPT ![r] = v] \in Rows /\ Len([s EXCEPT ![r] = v]) = Len(s)
<1>1. s \in [1..Len(s) -> Val] /\ Len(s) \in 0..MaxRows
  BY DEF Rows
<1>2. [s EXCEPT ![r] = v] \in [1..Len(s) -> Val]
  BY <1>1
<1> QED
  BY <1>1, <1>2, RowsFunction

LEMMA ManagerFacts ==
    /\ Manager = 1..Len(Managers)
    /\ 1 \in Manager
    /\ \A m \in Manager : Managers[m] \in Kinds
<1>1. Managers \in Seq(Kinds) /\ Managers # <<>>
  BY TableStoreAssumption
<1> QED
  BY <1>1, EmptySeq

\* Opening a reader yields a reader of rows.
LEMMA OpenReaderType ==
    ASSUME TypeOK, NEW m \in Manager
    PROVE  OpenReader(m) \in [state : {"failed", "open"}, cells : Rows]
  BY EmptyRows DEF TypeOK, OpenReader

\* A cell that a copy loop reaches is a value.
LEMMA CellAtType ==
    ASSUME NEW m \in Manager,
           NEW reader \in [state : {"failed", "open"}, cells : Rows],
           NEW n \in Nat, Readable(m, reader, n), NEW r \in 1..n
    PROVE  CellAt(reader, r) \in Val
<1>1. reader.cells \in Seq(Val) /\ Len(reader.cells) \in Nat
  BY DEF Rows
<1>2. CASE reader.state = "failed"
  BY <1>2, TableStoreAssumption DEF CellAt
<1>3. CASE reader.state # "failed" /\ r <= Len(reader.cells)
  BY <1>1, <1>3 DEF CellAt
<1>4. CASE reader.state # "failed" /\ ~(r <= Len(reader.cells))
  <2>1. reader.cells # <<>>
    BY <1>1, <1>4 DEF Readable
  <2>2. Len(reader.cells) \in 1..Len(reader.cells)
    BY <1>1, <2>1, EmptySeq
  <2> QED
    BY <1>1, <1>4, <2>2 DEF CellAt
<1> QED
  BY <1>2, <1>3, <1>4

\* The rows a rebuild copies are a table of the new size.
LEMMA CopiedRowsType ==
    ASSUME TypeOK, OpFits, NEW h \in Process, NEW m \in Manager,
           NEW reader \in [state : {"failed", "open"}, cells : Rows],
           Readable(m, reader, LastSource(h))
    PROVE  /\ NewRows(h) \in 0..MaxRows
           /\ CopiedRows(h, reader) \in Rows
           /\ Len(CopiedRows(h, reader)) = NewRows(h)
<1>1. /\ dirRows[h] \in 0..MaxRows /\ op[h].add \in 0..MaxRows /\ op[h].remove \in 0..MaxRows
      /\ MaxRows \in Nat
  BY TableStoreAssumption DEF TypeOK
<1>2. NewRows(h) \in 0..MaxRows
  BY <1>1 DEF NewRows, OpFits
<1>3. LastSource(h) \in Nat
  BY <1>1 DEF LastSource, OpFits
<1>4. ASSUME NEW r \in 1..NewRows(h), SourceRow(h, r) <= dirRows[h]
      PROVE  CellAt(reader, SourceRow(h, r)) \in Val
  <2>1. SourceRow(h, r) \in 1..LastSource(h)
    BY <1>1, <1>2, <1>4 DEF NewRows, SourceRow, LastSource, OpFits
  <2> QED
    BY <1>3, <2>1, CellAtType
<1>5. CopiedRows(h, reader) \in [1..NewRows(h) -> Val]
  BY <1>4, TableStoreAssumption DEF CopiedRows
<1> QED
  BY <1>2, <1>5, RowsFunction

----------------------------------------------------------------------------
LEMMA InitIInv == Init => IInv
<1> SUFFICES ASSUME Init PROVE IInv
  OBVIOUS
<1>1. /\ <<>> \in Rows /\ MaxRows \in Nat
      /\ \A n \in 0..MaxRows : Defaults(n) \in Rows
  <2>1. ASSUME NEW n \in 0..MaxRows PROVE Defaults(n) \in [1..n -> Val]
    BY TableStoreAssumption DEF Defaults
  <2> QED
    BY <2>1, EmptyRows, RowsFunction, TableStoreAssumption
<1>2. dat \in [state : {"none", "torn", "ok"}, rows : 0..MaxRows]
  BY <1>1 DEF Init
<1>3. file \in [Manager -> [kind : Kinds \cup {"none", "torn"}, cells : Rows]]
  BY <1>1, TableStoreAssumption, ManagerFacts DEF Init
<1>4. TypeOK
  BY <1>1, <1>2, <1>3 DEF Init, TypeOK, Unread, NoWriters, NoWriter, NoOp
<1>5. OpFits
  BY <1>1 DEF Init, OpFits, NoOp
<1> QED
  BY <1>4, <1>5 DEF IInv

\* create, open and open_rw.
LEMMA OpeningIInv ==
    ASSUME IInv, NEW h \in Process,
           \/ CreateBegin(h) \/ CreateDat(h) \/ CreateData(h) \/ CreateRead(h)
           \/ CreateThrows(h) \/ Open(h) \/ OpenRw(h)
    PROVE  IInv'
<1> USE DEF IInv
<1>1. CASE CreateBegin(h)
  <2>1. PICK n \in 0..MaxRows :
           /\ dirRows' = [dirRows EXCEPT ![h] = n]
           /\ writer' = [writer EXCEPT ![h] = [m \in Manager |-> WriterOf(Defaults(n))]]
    BY <1>1 DEF CreateBegin
  <2>2. Defaults(n) \in Rows
    BY <2>1, RowsFunction, TableStoreAssumption DEF Defaults
  <2>3. TypeOK'
    BY <1>1, <2>1, <2>2 DEF CreateBegin, TypeOK, WriterOf
  <2>4. OpFits'
    BY <1>1, <2>1, TableStoreAssumption DEF CreateBegin, OpFits, TypeOK, NoOp
  <2> QED
    BY <2>3, <2>4
<1>2. CASE CreateDat(h)
  <2>1. TypeOK'
    BY <1>2, EmptyRows DEF CreateDat, TypeOK, Torn
  <2>2. OpFits'
    BY <1>2 DEF CreateDat, OpFits, TypeOK
  <2> QED
    BY <2>1, <2>2
<1>3. CASE CreateData(h)
  <2> DEFINE created == [kind |-> Managers[1], cells |-> writer[h][1].cells]
  <2>1. created \in [kind : Kinds \cup {"none", "torn"}, cells : Rows]
    BY ManagerFacts, SMTT(20) DEF TypeOK
  <2>2. file' = [file EXCEPT ![1] = created]
    BY <1>3 DEF CreateData
  <2> HIDE DEF created
  <2>3. file' \in [Manager -> [kind : Kinds \cup {"none", "torn"}, cells : Rows]]
    BY <2>1, <2>2 DEF TypeOK
  <2>4. TypeOK'
    BY <1>3, <2>3 DEF CreateData, TypeOK
  <2>5. OpFits'
    BY <1>3 DEF CreateData, OpFits, TypeOK
  <2> QED
    BY <2>4, <2>5
<1>4. CASE Open(h)
  <2>1. TypeOK'
    BY <1>4 DEF Open, TypeOK
  <2>2. OpFits'
    BY <1>4, TableStoreAssumption DEF Open, OpFits, TypeOK, NoOp
  <2> QED
    BY <2>1, <2>2
<1>5. CASE OpenRw(h)
  <2> DEFINE copied == {m \in Manager : Managers[m] # "ism"}
             readers == [m \in Manager |-> IF m \in copied THEN OpenReader(m) ELSE Unread[m]]
             rows(m) == [r \in 1..dat.rows |-> CellAt(readers[m], r)]
  <2>1. dat.rows \in 0..MaxRows /\ \A m \in copied : Readable(m, readers[m], dat.rows)
    BY <1>5 DEF OpenRw, TypeOK
  <2>2. readers \in [Manager -> [state : {"unread", "failed", "open"}, cells : Rows]]
    BY OpenReaderType, EmptyRows DEF Unread
  <2>3. ASSUME NEW m \in copied PROVE rows(m) \in Rows
    <3>1. readers[m] \in [state : {"failed", "open"}, cells : Rows]
      BY <2>3, OpenReaderType
    <3>2. \A r \in 1..dat.rows : CellAt(readers[m], r) \in Val
      BY <2>1, <2>3, <3>1, CellAtType, TableStoreAssumption
    <3>3. rows(m) \in [1..dat.rows -> Val]
      BY <3>2
    <3> QED
      BY <2>1, <3>3, RowsFunction
  <2>4. /\ cache' = [cache EXCEPT ![h] = readers]
        /\ writer' = [writer EXCEPT ![h] =
                [m \in Manager |-> IF m \in copied THEN WriterOf(rows(m)) ELSE NoWriter]]
    BY <1>5 DEF OpenRw
  <2>5. [m \in Manager |-> IF m \in copied THEN WriterOf(rows(m)) ELSE NoWriter]
            \in [Manager -> [on : BOOLEAN, cells : Rows]]
    BY <2>3, EmptyRows DEF WriterOf, NoWriter
  <2>6. cache' \in [Process ->
                [Manager -> [state : {"unread", "failed", "open"}, cells : Rows]]]
    BY <2>2, <2>4 DEF TypeOK
  <2>7. writer' \in [Process -> [Manager -> [on : BOOLEAN, cells : Rows]]]
    BY <2>4, <2>5 DEF TypeOK
  <2>8. TypeOK'
    BY <1>5, <2>1, <2>6, <2>7 DEF OpenRw, TypeOK
  <2>9. OpFits'
    BY <1>5, <2>1, TableStoreAssumption DEF OpenRw, OpFits, TypeOK, NoOp
  <2> QED
    BY <2>8, <2>9
<1>6. CASE CreateRead(h)
  <2>1. TypeOK'
    BY <1>6 DEF CreateRead, TypeOK
  <2>2. OpFits'
    BY <1>6, TableStoreAssumption DEF CreateRead, OpFits, TypeOK, NoOp
  <2> QED
    BY <2>1, <2>2
<1>7. CASE CreateThrows(h)
  <2>1. TypeOK'
    BY <1>7, EmptyRows, TableStoreAssumption DEF CreateThrows, TypeOK, NoWriters, NoWriter
  <2>2. OpFits'
    BY <1>7, TableStoreAssumption DEF CreateThrows, OpFits, TypeOK, NoOp
  <2> QED
    BY <2>1, <2>2
<1> QED
  BY <1>1, <1>2, <1>3, <1>4, <1>5, <1>6, <1>7

\* Cell reads and writes, and the start of a flush.
LEMMA CellIInv ==
    ASSUME IInv, NEW h \in Process,
           \/ \E m \in Manager : LoadReader(h, m)
           \/ \E m \in Manager, r \in 1..MaxRows, v \in Val : WriteCell(h, m, r, v)
           \/ Flush(h)
           \/ \E n \in 1..MaxRows : AddRow(h, n)
           \/ \E r \in 1..MaxRows : RemoveRow(h, r)
    PROVE  IInv'
<1> USE DEF IInv
<1>1. ASSUME NEW m \in Manager, LoadReader(h, m) PROVE IInv'
  <2>1. OpenReader(m) \in [state : {"unread", "failed", "open"}, cells : Rows]
    BY OpenReaderType
  <2>2. cache' \in [Process ->
                [Manager -> [state : {"unread", "failed", "open"}, cells : Rows]]]
    BY <1>1, <2>1 DEF LoadReader, TypeOK
  <2>3. TypeOK'
    BY <1>1, <2>2 DEF LoadReader, TypeOK
  <2>4. OpFits'
    BY <1>1 DEF LoadReader, OpFits
  <2> QED
    BY <2>3, <2>4
<1>2. ASSUME NEW m \in Manager, NEW r \in 1..MaxRows, NEW v \in Val, WriteCell(h, m, r, v)
      PROVE  IInv'
  <2>1. writer[h][m] \in [on : BOOLEAN, cells : Rows]
    BY DEF TypeOK
  <2> DEFINE cells == [writer[h][m].cells EXCEPT ![r] = v]
             written == [writer[h][m] EXCEPT !.cells = cells]
  <2>2. cells \in Rows
    BY <2>1, RowsExcept
  <2>3. written \in [on : BOOLEAN, cells : Rows]
    BY <2>1, <2>2
  <2>4. writer' = [writer EXCEPT ![h] = [writer[h] EXCEPT ![m] = written]]
    BY <1>2 DEF WriteCell
  <2> HIDE DEF written
  <2>5. [writer[h] EXCEPT ![m] = written] \in [Manager -> [on : BOOLEAN, cells : Rows]]
    BY <2>3 DEF TypeOK
  <2>6. writer' \in [Process -> [Manager -> [on : BOOLEAN, cells : Rows]]]
    BY <2>4, <2>5 DEF TypeOK
  <2>7. TypeOK'
    BY <1>2, <2>6 DEF WriteCell, TypeOK
  <2>8. OpFits'
    BY <1>2 DEF WriteCell, OpFits
  <2> QED
    BY <2>7, <2>8
<1>3. ASSUME NEW o \in [add : 0..MaxRows, remove : 0..MaxRows], StartFlush(h, o),
             o.remove = 0 => dirRows[h] + o.add <= MaxRows,
             o.remove <= dirRows[h]
      PROVE  IInv'
  <2>1. Torn \in [kind : Kinds \cup {"none", "torn"}, cells : Rows]
    BY EmptyRows DEF Torn
  <2>2. file' \in [Manager -> [kind : Kinds \cup {"none", "torn"}, cells : Rows]]
    BY <1>3, <2>1 DEF StartFlush, TypeOK
  <2>3. op' \in [Process -> [add : 0..MaxRows, remove : 0..MaxRows]]
    BY <1>3 DEF StartFlush, TypeOK
  <2>4. pc' \in [Process -> Step]
    BY <1>3 DEF StartFlush, TypeOK
  <2>5. TypeOK'
    BY <1>3, <2>2, <2>3, <2>4 DEF StartFlush, TypeOK
  <2>6. OpFits'
    BY <1>3 DEF StartFlush, OpFits, TypeOK
  <2> QED
    BY <2>5, <2>6
<1>4. CASE Flush(h)
  <2>1. StartFlush(h, NoOp) /\ dirRows[h] \in 0..MaxRows
    BY <1>4 DEF Flush, TypeOK
  <2>2. NoOp \in [add : 0..MaxRows, remove : 0..MaxRows]
    BY TableStoreAssumption DEF NoOp
  <2>3. NoOp.add = 0 /\ NoOp.remove = 0
    BY DEF NoOp
  <2>4. dirRows[h] + NoOp.add <= MaxRows /\ NoOp.remove <= dirRows[h]
    BY <2>1, <2>3, TableStoreAssumption
  <2> QED
    BY <1>3, <2>1, <2>2, <2>4
<1>5. ASSUME NEW n \in 1..MaxRows, AddRow(h, n) PROVE IInv'
  <2> DEFINE o == [NoOp EXCEPT !.add = n]
  <2>1. StartFlush(h, o) /\ dirRows[h] + n <= MaxRows /\ dirRows[h] \in 0..MaxRows
    BY <1>5 DEF AddRow, TypeOK
  <2>2. o \in [add : 0..MaxRows, remove : 0..MaxRows] /\ o.add = n /\ o.remove = 0
    BY TableStoreAssumption DEF NoOp
  <2> HIDE DEF o
  <2>3. dirRows[h] + o.add <= MaxRows /\ o.remove <= dirRows[h]
    BY <2>1, <2>2, TableStoreAssumption
  <2> QED
    BY <1>3, <2>1, <2>2, <2>3
<1>6. ASSUME NEW r \in 1..MaxRows, RemoveRow(h, r) PROVE IInv'
  <2> DEFINE o == [NoOp EXCEPT !.remove = r]
  <2>1. StartFlush(h, o) /\ r <= dirRows[h] /\ dirRows[h] \in 0..MaxRows
    BY <1>6 DEF RemoveRow, TypeOK
  <2>2. o \in [add : 0..MaxRows, remove : 0..MaxRows] /\ o.add = 0 /\ o.remove = r
    BY TableStoreAssumption DEF NoOp
  <2> HIDE DEF o
  <2>3. (o.remove = 0 => dirRows[h] + o.add <= MaxRows) /\ o.remove <= dirRows[h]
    BY <2>1, <2>2, TableStoreAssumption
  <2> QED
    BY <1>3, <2>1, <2>2, <2>3
<1> QED
  BY <1>1, <1>2, <1>4, <1>5, <1>6

\* The steps of a flush, a rebuild, and the end of a process.
LEMMA ContinueIInv ==
    ASSUME IInv, NEW h \in Process,
           \/ FlushData(h) \/ FlushHeader(h) \/ FlushDat(h)
           \/ Rebuild(h) \/ RebuildThrows(h) \/ Stop(h)
    PROVE  IInv'
<1> USE DEF IInv
<1>1. CASE FlushData(h)
  <2>1. PICK m \in FlushManagers(h) :
           file' = [file EXCEPT ![1] = [kind |-> Managers[m], cells |-> writer[h][m].cells]]
    BY <1>1 DEF FlushData
  <2>2. m \in Manager /\ Managers[m] \in Kinds /\ writer[h][m].cells \in Rows
    BY <2>1, ManagerFacts DEF FlushManagers, TypeOK
  <2> DEFINE written == [kind |-> Managers[m], cells |-> writer[h][m].cells]
  <2>3. written \in [kind : Kinds \cup {"none", "torn"}, cells : Rows]
    BY <2>2
  <2>4. file' \in [Manager -> [kind : Kinds \cup {"none", "torn"}, cells : Rows]]
    BY <2>1, <2>3 DEF TypeOK
  <2>5. TypeOK'
    BY <1>1, <2>4 DEF FlushData, TypeOK
  <2>6. OpFits'
    BY <1>1 DEF FlushData, OpFits, TypeOK
  <2> QED
    BY <2>5, <2>6
<1>2. CASE FlushHeader(h)
  <2>1. TypeOK'
    BY <1>2 DEF FlushHeader, TypeOK
  <2>2. OpFits'
    BY <1>2 DEF FlushHeader, OpFits, TypeOK
  <2> QED
    BY <2>1, <2>2
<1>3. CASE FlushDat(h)
  <2>1. TypeOK'
    BY <1>3, EmptyRows DEF FlushDat, TypeOK, Unread
  <2>2. OpFits'
    BY <1>3 DEF FlushDat, OpFits, TypeOK
  <2> QED
    BY <2>1, <2>2
<1>4. CASE Rebuild(h)
  <2> DEFINE readers == [m \in Manager |-> OpenReader(m)]
             good(m) == /\ Readable(m, readers[m], LastSource(h))
                        /\ Managers[m] # "ssm" /\ readers[m].state = "open"
                             => LastSource(h) <= dat.rows
             reached(m) == \A k \in Manager :
                             Rank(Managers[k]) < Rank(Managers[m]) => good(k)
             cached == [m \in Manager |-> IF reached(m) THEN readers[m] ELSE Unread[m]]
             copies == [m \in Manager |-> IF reached(m) /\ good(m)
                                             THEN WriterOf(CopiedRows(h, readers[m]))
                                             ELSE NoWriter]
  <2>1. \A m \in Manager : readers[m] \in [state : {"failed", "open"}, cells : Rows]
    BY OpenReaderType
  <2>2. cached \in [Manager -> [state : {"unread", "failed", "open"}, cells : Rows]]
    <3>1. ASSUME NEW m \in Manager
          PROVE  cached[m] \in [state : {"unread", "failed", "open"}, cells : Rows]
      <4> HIDE DEF readers, reached
      <4> QED
        BY <2>1, EmptyRows DEF Unread
    <3> HIDE DEF readers, reached
    <3> QED
      BY <3>1
  <2>3. ASSUME NEW m \in Manager, good(m)
        PROVE  /\ NewRows(h) \in 0..MaxRows
               /\ CopiedRows(h, readers[m]) \in Rows
    BY <2>1, <2>3, CopiedRowsType
  <2>4. copies \in [Manager -> [on : BOOLEAN, cells : Rows]]
    <3> HIDE DEF readers, good, reached
    <3> QED
      BY <2>3, EmptyRows DEF WriterOf, NoWriter
  <2>5. (IF \A m \in Manager : good(m) THEN NewRows(h) ELSE dat.rows) \in 0..MaxRows
    <3>1. dat.rows \in 0..MaxRows
      BY DEF TypeOK
    <3> HIDE DEF good
    <3> QED
      BY <2>3, <3>1, ManagerFacts
  <2>6. /\ cache' = [cache EXCEPT ![h] = cached]
        /\ writer' = [writer EXCEPT ![h] = copies]
        /\ dirRows' = [dirRows EXCEPT ![h] =
                         IF \A m \in Manager : good(m) THEN NewRows(h) ELSE dat.rows]
        /\ pc' = [pc EXCEPT ![h] = "idle"]
        /\ op' = [op EXCEPT ![h] = NoOp]
        /\ UNCHANGED <<dat, file, mode>>
    BY <1>4 DEF Rebuild
  <2>7. TypeOK'
    <3> HIDE DEF good, cached, copies
    <3> QED
      BY <2>2, <2>4, <2>5, <2>6, TableStoreAssumption DEF TypeOK, NoOp
  <2>8. OpFits'
    <3> HIDE DEF good, cached, copies
    <3> QED
      BY <2>5, <2>6, TableStoreAssumption DEF TypeOK, OpFits, NoOp
  <2> QED
    BY <2>7, <2>8
<1>5. CASE RebuildThrows(h)
  <2>1. TypeOK'
    BY <1>5, EmptyRows, TableStoreAssumption
       DEF RebuildThrows, TypeOK, Unread, NoWriters, NoWriter, NoOp
  <2>2. OpFits'
    BY <1>5, TableStoreAssumption DEF RebuildThrows, OpFits, TypeOK, NoOp
  <2> QED
    BY <2>1, <2>2
<1>6. CASE Stop(h)
  <2>1. TypeOK'
    BY <1>6, EmptyRows, TableStoreAssumption
       DEF Stop, TypeOK, Unread, NoWriters, NoWriter, NoOp
  <2>2. OpFits'
    BY <1>6, TableStoreAssumption DEF Stop, OpFits, TypeOK, NoOp
  <2> QED
    BY <2>1, <2>2
<1> QED
  BY <1>1, <1>2, <1>3, <1>4, <1>5, <1>6

LEMMA NextIInv == IInv /\ [Next]_vars => IInv'
<1> SUFFICES ASSUME IInv, [Next]_vars PROVE IInv'
  OBVIOUS
<1>1. CASE UNCHANGED vars
  BY <1>1 DEF IInv, TypeOK, OpFits, vars
<1>2. CASE Next
  BY <1>2, OpeningIInv, CellIInv, ContinueIInv DEF Next, GrowNext, Continue
<1> QED
  BY <1>1, <1>2

\* Whatever several processes do to one table directory, and wherever they
\* die, every row count and every table stays within bounds and every row
\* holds cell values: no rebuild reads a cell that is not there.
THEOREM TypeCorrect == Spec => []TypeOK
<1>1. IInv => TypeOK
  BY DEF IInv
<1> QED
  BY <1>1, InitIInv, NextIInv, PTL DEF Spec

----------------------------------------------------------------------------
(* A table with one storage manager.  CopiedRowsType is what matters: the  *)
(* copy loops of a rebuild fill exactly NewRows rows, and the only manager *)
(* is the one whose failure keeps the row count from moving.               *)

ClosedHasNoWriter ==
    \A h \in Process, m \in Manager : mode[h] = "closed" => ~writer[h][m].on

LEMMA ClosedStep == ASSUME IInv, ClosedHasNoWriter, Next PROVE ClosedHasNoWriter'
<1> USE DEF IInv, TypeOK, OpFits, ClosedHasNoWriter
<1>1. ASSUME NEW h \in Process,
             \/ CreateBegin(h) \/ CreateDat(h) \/ CreateData(h) \/ CreateRead(h)
             \/ Open(h) \/ OpenRw(h)
             \/ FlushData(h) \/ FlushHeader(h) \/ FlushDat(h)
             \/ Rebuild(h) \/ RebuildThrows(h)
      PROVE  ClosedHasNoWriter'
  BY <1>1 DEF CreateBegin, CreateDat, CreateData, CreateRead, Open, OpenRw,
              FlushData, FlushHeader, FlushDat, Rebuild, RebuildThrows
<1>2. ASSUME NEW h \in Process, Stop(h) \/ CreateThrows(h) PROVE ClosedHasNoWriter'
  <2>1. /\ writer' = [writer EXCEPT ![h] = NoWriters]
        /\ \A g \in Process \ {h} : mode'[g] = mode[g]
    BY <1>2 DEF Stop, CreateThrows
  <2>2. \A m \in Manager : NoWriters[m].on = FALSE
    BY DEF NoWriters, NoWriter
  <2>3. /\ \A m \in Manager : ~writer'[h][m].on
        /\ \A g \in Process \ {h} : writer'[g] = writer[g]
    BY <2>1, <2>2
  <2> QED
    BY <2>1, <2>3
<1>3. ASSUME NEW h \in Process,
             \/ \E m \in Manager : LoadReader(h, m)
             \/ \E m \in Manager, r \in 1..MaxRows, v \in Val : WriteCell(h, m, r, v)
             \/ Flush(h)
             \/ \E n \in 1..MaxRows : AddRow(h, n)
             \/ \E r \in 1..MaxRows : RemoveRow(h, r)
      PROVE  ClosedHasNoWriter'
  BY <1>3 DEF LoadReader, WriteCell, Flush, AddRow, RemoveRow, StartFlush
<1> QED
  BY <1>1, <1>2, <1>3 DEF Next, GrowNext, Continue

\* What a step leaves of the rows of one writer.
RowsKept(h) ==
    /\ RowsMatch(h) /\ ~RowsMatch(h)' => pc[h] = "createRead" /\ dat.rows # dirRows[h]
    /\ pc[h] = "rebuild" /\ pc'[h] = "idle" => RowsMatch(h)'
    /\ mode[h] = "closed" /\ mode'[h] = "rw" => RowsMatch(h)'

LEMMA RowsKeptStep ==
    ASSUME Len(Managers) = 1, IInv, ClosedHasNoWriter, Next
    PROVE  \A h \in Writers : RowsKept(h)
<1>1. Manager = {1}
  BY ManagerFacts
<1>2. PICK h \in Process :
        \/ CreateBegin(h) \/ CreateDat(h) \/ CreateData(h) \/ CreateRead(h) \/ CreateThrows(h)
        \/ Open(h) \/ OpenRw(h)
        \/ \E m \in Manager : LoadReader(h, m)
        \/ \E m \in Manager, r \in 1..MaxRows, v \in Val : WriteCell(h, m, r, v)
        \/ Flush(h)
        \/ \E n \in 1..MaxRows : AddRow(h, n)
        \/ \E r \in 1..MaxRows : RemoveRow(h, r)
        \/ FlushData(h) \/ FlushHeader(h) \/ FlushDat(h)
        \/ Rebuild(h) \/ RebuildThrows(h) \/ Stop(h)
  BY DEF Next, GrowNext, Continue
\* Only the Table that makes the step changes.
<1>3. ASSUME NEW g \in Writers, g # h PROVE RowsKept(g)
  <2>1. /\ writer'[g] = writer[g] /\ dirRows'[g] = dirRows[g]
        /\ pc'[g] = pc[g] /\ mode'[g] = mode[g]
    BY <1>2, <1>3
       DEF IInv, TypeOK, CreateBegin, CreateDat, CreateData, CreateRead, CreateThrows, Open,
           OpenRw, LoadReader, WriteCell, Flush, AddRow, RemoveRow, StartFlush, FlushData,
           FlushHeader, FlushDat, Rebuild, RebuildThrows, Stop
  <2> QED
    BY <1>3, <2>1 DEF RowsKept, RowsMatch
<1>4. ASSUME RowsMatch(h)' PROVE RowsKept(h)
  BY <1>4 DEF RowsKept
<1>5. ASSUME CreateBegin(h) PROVE RowsKept(h)
  <2>1. PICK n \in 0..MaxRows :
          /\ dirRows' = [dirRows EXCEPT ![h] = n]
          /\ writer' = [writer EXCEPT ![h] = [m \in Manager |-> WriterOf(Defaults(n))]]
    BY <1>5 DEF CreateBegin
  <2>2. Len(Defaults(n)) = n
    BY RowsFunction, TableStoreAssumption DEF Defaults
  <2>3. RowsMatch(h)'
    BY <2>1, <2>2 DEF WriterOf, RowsMatch, IInv, TypeOK
  <2> QED
    BY <1>4, <2>3
<1>6. ASSUME OpenRw(h) PROVE RowsKept(h)
  <2> DEFINE copied == {m \in Manager : Managers[m] # "ism"}
             readers == [m \in Manager |-> IF m \in copied THEN OpenReader(m) ELSE Unread[m]]
             rows(m) == [r \in 1..dat.rows |-> CellAt(readers[m], r)]
  <2>1. \A m \in copied : Readable(m, readers[m], dat.rows)
    BY <1>6 DEF OpenRw
  <2>2. ASSUME NEW m \in copied PROVE Len(rows(m)) = dat.rows
    <3>1. readers[m] \in [state : {"failed", "open"}, cells : Rows]
      BY <2>2, OpenReaderType DEF IInv
    <3>2. rows(m) \in [1..dat.rows -> Val]
      BY <2>1, <2>2, <3>1, CellAtType, TableStoreAssumption DEF IInv, TypeOK
    <3>3. dat.rows \in 0..MaxRows
      BY DEF IInv, TypeOK
    <3> QED
      BY <3>2, <3>3, RowsFunction
  <2>3. /\ writer' = [writer EXCEPT ![h] = [m \in Manager |->
                        IF m \in copied THEN WriterOf(rows(m)) ELSE NoWriter]]
        /\ dirRows' = [dirRows EXCEPT ![h] = dat.rows]
    BY <1>6 DEF OpenRw
  <2> HIDE DEF rows, copied
  <2>4. RowsMatch(h)'
    BY <2>2, <2>3 DEF WriterOf, NoWriter, RowsMatch, IInv, TypeOK
  <2> QED
    BY <1>4, <2>4
<1>7. ASSUME NEW m \in Manager, NEW r \in 1..MaxRows, NEW v \in Val, WriteCell(h, m, r, v)
      PROVE  RowsKept(h)
  <2> DEFINE cells == [writer[h][m].cells EXCEPT ![r] = v]
  <2>1. Len(cells) = Len(writer[h][m].cells)
    BY RowsExcept DEF IInv, TypeOK
  <2>2. writer' = [writer EXCEPT ![h] = [writer[h] EXCEPT ![m] =
                     [writer[h][m] EXCEPT !.cells = cells]]]
    BY <1>7 DEF WriteCell
  <2>3. dirRows' = dirRows /\ pc' = pc /\ mode' = mode
    BY <1>7 DEF WriteCell
  <2> HIDE DEF cells
  <2>4. RowsMatch(h) => RowsMatch(h)'
    BY <2>1, <2>2, <2>3 DEF RowsMatch, IInv, TypeOK
  <2>5. pc[h] = "idle" /\ mode[h] = "rw"
    BY <1>7 DEF WriteCell
  <2> QED
    BY <2>3, <2>4, <2>5 DEF RowsKept
<1>8. ASSUME Rebuild(h) PROVE RowsKept(h)
  <2>1. Rank(Managers[1]) \in Nat
    BY ManagerFacts DEF Rank, Kinds
  <2> DEFINE reader == OpenReader(1)
             good == /\ Readable(1, reader, LastSource(h))
                     /\ Managers[1] # "ssm" /\ reader.state = "open"
                          => LastSource(h) <= dat.rows
  <2>2. /\ writer'[h][1] = IF good THEN WriterOf(CopiedRows(h, reader)) ELSE NoWriter
        /\ dirRows'[h] = IF good THEN NewRows(h) ELSE dat.rows
    BY <1>1, <1>8, <2>1 DEF Rebuild, IInv, TypeOK
  <2>3. good => Len(CopiedRows(h, reader)) = NewRows(h)
    BY <1>1, OpenReaderType, CopiedRowsType DEF IInv
  <2> HIDE DEF good, reader
  <2>4. good => writer'[h][1].cells = CopiedRows(h, reader)
    BY <2>2 DEF WriterOf
  <2>5. ~good => writer'[h][1].on = FALSE
    BY <2>2 DEF NoWriter
  <2>6. writer'[h][1].on => Len(writer'[h][1].cells) = dirRows'[h]
    BY <2>2, <2>3, <2>4, <2>5
  <2>7. RowsMatch(h)'
    BY <1>1, <2>6 DEF RowsMatch
  <2> QED
    BY <1>4, <2>7
<1>9. ASSUME Stop(h) \/ RebuildThrows(h) \/ CreateThrows(h) PROVE RowsKept(h)
  <2>1. writer' = [writer EXCEPT ![h] = NoWriters]
    BY <1>9 DEF Stop, RebuildThrows, CreateThrows
  <2>2. \A m \in Manager : NoWriters[m].on = FALSE
    BY DEF NoWriters, NoWriter
  <2>3. \A m \in Manager : writer'[h][m] = NoWriters[m]
    BY <2>1 DEF IInv, TypeOK
  <2>4. RowsMatch(h)'
    BY <2>2, <2>3 DEF RowsMatch
  <2> QED
    BY <1>4, <2>4
<1>10. ASSUME Open(h) PROVE RowsKept(h)
  <2>1. RowsMatch(h)'
    BY <1>10 DEF Open, ClosedHasNoWriter, RowsMatch
  <2> QED
    BY <1>4, <2>1
\* The only step that gives a Table a row count its writer may not have.
<1>11. ASSUME CreateRead(h) PROVE RowsKept(h)
  <2>1. /\ writer' = writer /\ mode' = mode /\ pc[h] = "createRead"
        /\ dirRows' = [dirRows EXCEPT ![h] = dat.rows]
    BY <1>11 DEF CreateRead
  <2>2. dat.rows = dirRows[h] => dirRows' = dirRows
    BY <2>1 DEF IInv, TypeOK
  <2>3. dat.rows = dirRows[h] /\ RowsMatch(h) => RowsMatch(h)'
    BY <2>1, <2>2 DEF RowsMatch
  <2>4. ~(pc[h] = "rebuild") /\ mode' = mode
    BY <2>1
  <2> QED
    BY <2>1, <2>3, <2>4 DEF RowsKept
<1>12. ASSUME UNCHANGED <<writer, dirRows, mode>>, ~(pc[h] = "rebuild" /\ pc'[h] = "idle")
       PROVE  RowsKept(h)
  BY <1>12 DEF RowsKept, RowsMatch
<1>13. ASSUME \/ CreateDat(h) \/ CreateData(h) \/ Flush(h)
              \/ \E m \in Manager : LoadReader(h, m)
              \/ \E n \in 1..MaxRows : AddRow(h, n)
              \/ \E r \in 1..MaxRows : RemoveRow(h, r)
              \/ FlushData(h) \/ FlushHeader(h) \/ FlushDat(h)
       PROVE  RowsKept(h)
  <2>1. /\ UNCHANGED <<writer, dirRows, mode>>
        /\ pc[h] \in {"createDat", "createData", "idle", "data", "header", "dat"}
    BY <1>13 DEF CreateDat, CreateData, LoadReader, Flush, AddRow, RemoveRow, StartFlush,
                 FlushData, FlushHeader, FlushDat
  <2>2. ~(pc[h] = "rebuild")
    BY <2>1
  <2> QED
    BY <1>12, <2>1, <2>2
<1>14. RowsKept(h)
  BY <1>2, <1>5, <1>6, <1>7, <1>8, <1>9, <1>10, <1>11, <1>13
<1> QED
  BY <1>3, <1>14

\* In a table with one storage manager, however many processes write its
\* directory: no add_row, remove_row, failed rebuild or open_rw leaves a writer
\* whose rows are not those the Table counts, and a writer parts from its row
\* count only where create reads back another process's table.dat.
THEOREM RowsPartOnlyInCreateCorrect ==
    ASSUME Len(Managers) = 1 PROVE Spec => RowsPartOnlyInCreate
<1> DEFINE Inv == IInv /\ ClosedHasNoWriter
<1>1. Init => Inv
  BY InitIInv DEF Init, ClosedHasNoWriter, NoWriters, NoWriter
<1>2. Inv /\ [Next]_vars => Inv'
  <2>1. Inv /\ Next => Inv'
    BY NextIInv, ClosedStep
  <2>2. Inv /\ UNCHANGED vars => Inv'
    BY NextIInv DEF ClosedHasNoWriter, vars
  <2> QED
    BY <2>1, <2>2
<1>3. Inv /\ [Next]_vars =>
        [\A h \in Writers :
            /\ RowsMatch(h) /\ ~RowsMatch(h)' => pc[h] = "createRead" /\ dat.rows # dirRows[h]
            /\ pc[h] = "rebuild" /\ pc'[h] = "idle" => RowsMatch(h)'
            /\ mode[h] = "closed" /\ mode'[h] = "rw" => RowsMatch(h)']_vars
  BY RowsKeptStep DEF RowsKept
<1> QED
  BY <1>1, <1>2, <1>3, PTL DEF Spec, RowsPartOnlyInCreate

----------------------------------------------------------------------------
(* One writer.  A flush rewrites the first file, and the first storage     *)
(* manager is the one it resets: that is so when the table has no other or *)
(* when it is the StandardStMan, which flush prefers.  With a TiledStMan   *)
(* first and the StandardStMan second it is not, and the tiled column's    *)
(* reader goes on showing a file that is no longer there.                  *)

\* A new Table object, and one that is being created, has read nothing.
NothingReadYet ==
    \A h \in Process, m \in Manager :
        mode[h] = "closed" \/ pc[h] \in {"createDat", "createData", "createRead"}
            => cache[h][m].state = "unread"

\* The first storage manager has a writer whenever another one has.
FirstWriterLeads ==
    \A h \in Writers, m \in Manager : writer[h][m].on => writer[h][1].on

FlushersWrite ==
    \A h \in Writers : pc[h] \in {"data", "header", "dat"} => writer[h][1].on

\* Only the first file ever differs from its reader, while it is rewritten.
CachesShowFile ==
    \A h \in Writers, m \in Manager :
        cache[h][m].state = "open" /\ (m = 1 => pc[h] = "idle") =>
            file[m] = [kind |-> Managers[m], cells |-> cache[h][m].cells]

ShowInv ==
    IInv /\ ClosedHasNoWriter /\ NothingReadYet /\ FirstWriterLeads
         /\ FlushersWrite /\ CachesShowFile

FirstIsFlushed == Len(Managers) = 1 \/ Managers[1] = "ssm"

\* flush() writes from the first storage manager, and from no other.
LEMMA FlushesTheFirst ==
    ASSUME FirstIsFlushed, TypeOK, FirstWriterLeads, NEW h \in Writers, HasWriter(h)
    PROVE  FlushManagers(h) = {1}
<1>1. writer[h][1].on /\ 1 \in Manager
  BY ManagerFacts DEF HasWriter, FirstWriterLeads
<1>2. CASE Len(Managers) = 1
  <2>1. Manager = {1}
    BY <1>2, ManagerFacts
  <2> QED
    BY <1>1, <2>1 DEF FlushManagers
<1>3. CASE Managers[1] = "ssm"
  <2>1. ASSUME NEW m \in Manager, m # 1 PROVE m \notin FlushManagers(h)
    <3>1. Managers[m] # "ssm"
      BY <1>1, <1>3, <2>1, TableStoreAssumption
    <3>2. Managers[m] \in {"ism", "tsm"}
      BY <2>1, <3>1, ManagerFacts DEF Kinds
    <3> QED
      BY <1>1, <1>3, <3>2 DEF FlushManagers
  <2>2. 1 \in FlushManagers(h)
    BY <1>1, <1>3 DEF FlushManagers
  <2> QED
    BY <2>1, <2>2 DEF FlushManagers
<1> QED
  BY <1>2, <1>3 DEF FirstIsFlushed

\* What a reader has just opened is what the file holds.
LEMMA OpenReaderShows ==
    ASSUME TypeOK, NEW m \in Manager
    PROVE  /\ OpenReader(m).state = "open" =>
                  file[m] = [kind |-> Managers[m], cells |-> OpenReader(m).cells]
           /\ OpenReader(m).state # "unread"
<1>1. file[m] = [kind |-> file[m].kind, cells |-> file[m].cells]
  BY DEF TypeOK
<1> QED
  BY <1>1 DEF OpenReader

LEMMA NothingReadStep ==
    ASSUME IInv, NothingReadYet, Next PROVE NothingReadYet'
<1> USE DEF IInv, TypeOK, OpFits, NothingReadYet
<1>1. ASSUME NEW h \in Process,
             \/ CreateBegin(h) \/ CreateDat(h) \/ CreateData(h) \/ CreateRead(h)
             \/ CreateThrows(h) \/ Open(h) \/ OpenRw(h)
      PROVE  NothingReadYet'
  BY <1>1 DEF CreateBegin, CreateDat, CreateData, CreateRead, CreateThrows, Open, OpenRw
<1>2. ASSUME NEW h \in Process, FlushData(h) \/ FlushHeader(h) \/ FlushDat(h)
      PROVE  NothingReadYet'
  BY <1>2 DEF FlushData, FlushHeader, FlushDat, Unread
<1>3. ASSUME NEW h \in Process, Rebuild(h) \/ RebuildThrows(h)
      PROVE  NothingReadYet'
  <2>1. /\ pc[h] = "rebuild" /\ mode' = mode
        /\ pc' = [pc EXCEPT ![h] = "idle"]
    BY <1>3 DEF Rebuild, RebuildThrows
  <2>2. \A g \in Process \ {h} : cache'[g] = cache[g] /\ pc'[g] = pc[g]
    BY <1>3 DEF Rebuild, RebuildThrows
  <2>3. mode[h] # "closed" /\ pc'[h] = "idle"
    BY <2>1
  <2>4. ASSUME NEW g \in Process, NEW m \in Manager,
               mode'[g] = "closed" \/ pc'[g] \in {"createDat", "createData", "createRead"}
        PROVE  cache'[g][m].state = "unread"
    <3>1. g # h
      BY <2>1, <2>3, <2>4
    <3> QED
      BY <2>1, <2>2, <2>4, <3>1
  <2> QED
    BY <2>4
<1>4. ASSUME NEW h \in Process, Stop(h) PROVE NothingReadYet'
  BY <1>4 DEF Stop, Unread
<1>5. ASSUME NEW h \in Process, NEW m \in Manager, LoadReader(h, m)
      PROVE  NothingReadYet'
  BY <1>5 DEF LoadReader
<1>6. ASSUME NEW h \in Process,
             \/ \E m \in Manager, r \in 1..MaxRows, v \in Val : WriteCell(h, m, r, v)
             \/ Flush(h)
             \/ \E n \in 1..MaxRows : AddRow(h, n)
             \/ \E r \in 1..MaxRows : RemoveRow(h, r)
      PROVE  NothingReadYet'
  BY <1>6 DEF WriteCell, Flush, AddRow, RemoveRow, StartFlush
<1> QED
  BY <1>1, <1>2, <1>3, <1>4, <1>5, <1>6 DEF Next, GrowNext, Continue

\* The rebuild goes through the managers by rank and stops at the first one it
\* cannot read, so a writer of a later one means a writer of the first.
LEMMA FirstWriterStep ==
    ASSUME FirstIsFlushed, IInv, FirstWriterLeads, Next PROVE FirstWriterLeads'
<1> USE DEF IInv, TypeOK, FirstWriterLeads
<1>1. \A m \in Manager : m = 1 \/ Managers[1] = "ssm"
  BY ManagerFacts DEF FirstIsFlushed
<1>2. \A m \in Manager : m = 1 \/ (Managers[m] # "ssm" /\ Managers[m] \in {"ism", "tsm"})
  BY <1>1, ManagerFacts, TableStoreAssumption DEF Kinds
<1>3. ASSUME NEW h \in Process,
             CreateBegin(h) \/ CreateDat(h) \/ CreateData(h) \/ CreateRead(h) \/ Open(h)
      PROVE  FirstWriterLeads'
  BY <1>3, ManagerFacts DEF CreateBegin, CreateDat, CreateData, CreateRead, Open, WriterOf
<1>4. ASSUME NEW h \in Process, OpenRw(h) PROVE FirstWriterLeads'
  <2>1. ASSUME NEW m \in Manager PROVE writer'[h][m].on <=> Managers[m] # "ism"
    BY <1>4, <2>1 DEF OpenRw, WriterOf, NoWriter
  <2>2. \A g \in Process \ {h} : writer'[g] = writer[g]
    BY <1>4 DEF OpenRw
  <2> QED
    BY <1>1, <2>1, <2>2, ManagerFacts
<1>5. ASSUME NEW h \in Process, Rebuild(h) PROVE FirstWriterLeads'
  <2> DEFINE good(m) == /\ Readable(m, OpenReader(m), LastSource(h))
                        /\ Managers[m] # "ssm" /\ OpenReader(m).state = "open"
                             => LastSource(h) <= dat.rows
             reached(m) == \A k \in Manager :
                             Rank(Managers[k]) < Rank(Managers[m]) => good(k)
  <2>1. ASSUME NEW m \in Manager PROVE writer'[h][m].on <=> reached(m) /\ good(m)
    <3>1. writer'[h][m] = IF reached(m) /\ good(m)
                              THEN WriterOf(CopiedRows(h, OpenReader(m))) ELSE NoWriter
      <4> HIDE DEF WriterOf, NoWriter
      <4> QED
        BY <1>5 DEF Rebuild
    <3>2. CASE reached(m) /\ good(m)
      <4>1. writer'[h][m] = WriterOf(CopiedRows(h, OpenReader(m)))
        BY <3>1, <3>2
      <4> QED
        BY <3>2, <4>1 DEF WriterOf
    <3>3. CASE ~(reached(m) /\ good(m))
      <4>1. writer'[h][m] = NoWriter
        BY <3>1, <3>3
      <4> QED
        BY <3>3, <4>1 DEF NoWriter
    <3> HIDE DEF good, reached
    <3> QED
      BY <3>2, <3>3
  <2>2. ASSUME NEW m \in Manager, reached(m), good(m), m # 1 PROVE reached(1) /\ good(1)
    <3>1. Managers[1] = "ssm" /\ Managers[m] \in {"ism", "tsm"}
      BY <1>1, <1>2, <2>2
    <3>2. Rank(Managers[1]) = 1 /\ Rank(Managers[m]) \in {2, 3}
      BY <3>1 DEF Rank
    <3>3. \A k \in Manager : ~(Rank(Managers[k]) < 1)
      BY ManagerFacts DEF Rank, Kinds
    <3>4. good(1)
      <4>1. Rank(Managers[1]) < Rank(Managers[m]) /\ 1 \in Manager
        BY <3>2, ManagerFacts
      <4> HIDE DEF good
      <4> QED
        BY <2>2, <4>1
    <3>5. reached(1)
      BY <3>2, <3>3
    <3> QED
      BY <3>4, <3>5
  <2>3. \A g \in Process \ {h} : writer'[g] = writer[g]
    BY <1>5 DEF Rebuild
  <2> HIDE DEF good, reached
  <2>4. ASSUME NEW m \in Manager, writer'[h][m].on PROVE writer'[h][1].on
    <3>1. reached(m) /\ good(m)
      BY <2>1, <2>4
    <3>2. reached(1) /\ good(1)
      BY <2>2, <3>1
    <3> QED
      BY <2>1, <3>2, ManagerFacts
  <2> QED
    BY <2>3, <2>4
<1>6. ASSUME NEW h \in Process, Stop(h) \/ RebuildThrows(h) \/ CreateThrows(h)
      PROVE  FirstWriterLeads'
  <2>1. writer' = [writer EXCEPT ![h] = NoWriters]
    BY <1>6 DEF Stop, RebuildThrows, CreateThrows
  <2>2. \A m \in Manager : NoWriters[m].on = FALSE
    BY DEF NoWriters, NoWriter
  <2>3. /\ \A m \in Manager : ~writer'[h][m].on
        /\ \A g \in Process \ {h} : writer'[g] = writer[g]
    BY <2>1, <2>2
  <2> QED
    BY <2>3
<1>7. ASSUME NEW h \in Process, NEW m \in Manager, NEW r \in 1..MaxRows, NEW v \in Val,
             WriteCell(h, m, r, v)
      PROVE  FirstWriterLeads'
  <2>1. writer'[h][m].on = writer[h][m].on
    BY <1>7 DEF WriteCell
  <2>2. \A g \in Process, k \in Manager : g # h \/ k # m => writer'[g][k] = writer[g][k]
    BY <1>7 DEF WriteCell
  <2>3. \A g \in Process, k \in Manager : writer'[g][k].on = writer[g][k].on
    BY <2>1, <2>2
  <2> QED
    BY <2>3, ManagerFacts, ZenonT(30)
<1>8. ASSUME NEW h \in Process,
             \/ \E m \in Manager : LoadReader(h, m)
             \/ Flush(h)
             \/ \E n \in 1..MaxRows : AddRow(h, n)
             \/ \E r \in 1..MaxRows : RemoveRow(h, r)
             \/ FlushData(h) \/ FlushHeader(h) \/ FlushDat(h)
      PROVE  FirstWriterLeads'
  BY <1>8 DEF LoadReader, Flush, AddRow, RemoveRow, StartFlush,
              FlushData, FlushHeader, FlushDat
<1> QED
  BY <1>3, <1>4, <1>5, <1>6, <1>7, <1>8 DEF Next, GrowNext, Continue

LEMMA FlushersStep ==
    ASSUME IInv, FirstWriterLeads, FlushersWrite, Next PROVE FlushersWrite'
<1> USE DEF IInv, TypeOK, FlushersWrite
<1>1. ASSUME NEW h \in Process, NEW step \in {"idle", "createDat", "createData", "createRead"},
             pc' = [pc EXCEPT ![h] = step],
             \A g \in Process \ {h} : writer'[g] = writer[g]
      PROVE  FlushersWrite'
  <2>1. ASSUME NEW g \in Writers, pc'[g] \in {"data", "header", "dat"}
        PROVE  writer'[g][1].on
    <3>1. g # h
      BY <1>1, <2>1
    <3> QED
      BY <1>1, <2>1, <3>1
  <2> QED
    BY <2>1
<1>2. ASSUME NEW h \in Process,
             \/ CreateBegin(h) \/ CreateDat(h) \/ CreateData(h) \/ CreateRead(h)
             \/ CreateThrows(h) \/ Rebuild(h) \/ RebuildThrows(h) \/ Stop(h)
      PROVE  FlushersWrite'
  BY <1>1, <1>2 DEF CreateBegin, CreateDat, CreateData, CreateRead, CreateThrows, Rebuild,
                    RebuildThrows, Stop
<1>3. ASSUME NEW h \in Writers, NEW o, StartFlush(h, o) PROVE FlushersWrite'
  BY <1>3, ManagerFacts DEF StartFlush, HasWriter, FirstWriterLeads
<1>4. ASSUME NEW h \in Process, FlushData(h) \/ FlushHeader(h) \/ FlushDat(h)
      PROVE  FlushersWrite'
  BY <1>4 DEF FlushData, FlushHeader, FlushDat
<1>5. ASSUME NEW h \in Process, NEW m \in Manager, NEW r \in 1..MaxRows, NEW v \in Val,
             WriteCell(h, m, r, v)
      PROVE  FlushersWrite'
  <2>1. pc' = pc /\ pc[h] = "idle"
    BY <1>5 DEF WriteCell
  <2>2. \A g \in Process \ {h} : writer'[g] = writer[g]
    BY <1>5 DEF WriteCell
  <2> QED
    BY <2>1, <2>2
<1>6. ASSUME NEW h \in Process, OpenRw(h) PROVE FlushersWrite'
  <2>1. mode[h] = "closed" /\ pc' = pc
    BY <1>6 DEF OpenRw
  <2>2. \A g \in Process \ {h} : writer'[g] = writer[g]
    BY <1>6 DEF OpenRw
  <2>3. pc[h] = "idle"
    BY <2>1 DEF OpFits
  <2> QED
    BY <2>1, <2>2, <2>3
<1>7. ASSUME NEW h \in Process, Open(h) \/ \E m \in Manager : LoadReader(h, m)
      PROVE  FlushersWrite'
  BY <1>7 DEF Open, LoadReader
<1> QED
  BY <1>2, <1>3, <1>4, <1>5, <1>6, <1>7
     DEF Next, GrowNext, Continue, Flush, AddRow, RemoveRow

LEMMA CachesStep ==
    ASSUME FirstIsFlushed, \A g, h \in Writers : g = h, ShowInv, Next
    PROVE  CachesShowFile'
<1> USE DEF ShowInv, IInv, TypeOK
\* Nothing happens to the files, and the readers show them.
<1>1. ASSUME NEW h \in Process, file' = file,
             \A g \in Process \ {h} : cache'[g] = cache[g] /\ pc'[g] = pc[g],
             \A m \in Manager : cache'[h][m].state = "open" =>
                \/ cache'[h][m] = OpenReader(m)
                \/ cache'[h][m] = cache[h][m] /\ (pc'[h] = "idle" => pc[h] = "idle")
      PROVE  CachesShowFile'
  <2>1. ASSUME NEW g \in Writers, NEW m \in Manager, cache'[g][m].state = "open",
               m = 1 => pc'[g] = "idle"
        PROVE  file[m] = [kind |-> Managers[m], cells |-> cache'[g][m].cells]
    <3>1. CASE g = h /\ cache'[h][m] = OpenReader(m)
      BY <2>1, <3>1, OpenReaderShows
    <3>2. CASE g # h \/ cache'[h][m] # OpenReader(m)
      <4>1. cache'[g][m] = cache[g][m] /\ (pc'[g] = "idle" => pc[g] = "idle")
        BY <1>1, <2>1, <3>2
      <4> QED
        BY <2>1, <4>1 DEF CachesShowFile
    <3> QED
      BY <3>1, <3>2
  <2> QED
    BY <1>1, <2>1 DEF CachesShowFile
<1>2. ASSUME NEW h \in Process, CreateBegin(h) \/ Open(h) PROVE CachesShowFile'
  BY <1>2 DEF CreateBegin, Open, CachesShowFile
<1>3. ASSUME NEW h \in Writers,
             CreateDat(h) \/ CreateData(h) \/ CreateRead(h) \/ CreateThrows(h)
      PROVE  CachesShowFile'
  <2>1. cache' = cache /\ pc[h] \in {"createDat", "createData", "createRead"}
    BY <1>3 DEF CreateDat, CreateData, CreateRead, CreateThrows
  <2>2. \A g \in Writers, m \in Manager : cache'[g][m].state = "unread"
    BY <2>1 DEF NothingReadYet
  <2> QED
    BY <2>2 DEF CachesShowFile
<1>4. ASSUME NEW h \in Process, OpenRw(h) PROVE CachesShowFile'
  <2>1. file' = file /\ pc' = pc
    BY <1>4 DEF OpenRw
  <2>2. \A g \in Process \ {h} : cache'[g] = cache[g]
    BY <1>4 DEF OpenRw
  <2>3. \A m \in Manager : cache'[h][m] = OpenReader(m) \/ cache'[h][m] = Unread[m]
    BY <1>4 DEF OpenRw
  <2>4. \A m \in Manager : Unread[m].state = "unread"
    BY DEF Unread
  <2> QED
    BY <1>1, <2>1, <2>2, <2>3, <2>4
<1>5. ASSUME NEW h \in Process, NEW m \in Manager, LoadReader(h, m) PROVE CachesShowFile'
  <2>1. file' = file /\ pc' = pc
    BY <1>5 DEF LoadReader
  <2>2. cache' = [cache EXCEPT ![h] = [cache[h] EXCEPT ![m] = OpenReader(m)]]
    BY <1>5 DEF LoadReader
  <2> QED
    BY <1>1, <2>1, <2>2
<1>6. ASSUME NEW h \in Writers, NEW o, StartFlush(h, o) PROVE CachesShowFile'
  <2>1. cache' = cache /\ pc'[h] # "idle" /\ \A m \in Manager \ {1} : file'[m] = file[m]
    BY <1>6 DEF StartFlush
  <2> QED
    BY <2>1 DEF CachesShowFile
<1>7. ASSUME NEW h \in Writers, FlushData(h) \/ FlushHeader(h) PROVE CachesShowFile'
  <2>1. /\ cache' = cache /\ pc[h] # "idle" /\ pc'[h] # "idle"
        /\ \A m \in Manager \ {1} : file'[m] = file[m]
    BY <1>7 DEF FlushData, FlushHeader
  <2> QED
    BY <2>1 DEF CachesShowFile
<1>8. ASSUME NEW h \in Writers, FlushDat(h) PROVE CachesShowFile'
  <2>1. FlushManagers(h) = {1}
    BY <1>8, FlushesTheFirst, ManagerFacts DEF FlushDat, FlushersWrite, HasWriter
  <2>2. file' = file
    BY <1>8 DEF FlushDat
  <2>3. cache' = [cache EXCEPT ![h] =
                    [m \in Manager |-> IF m \in {1} THEN Unread[m] ELSE cache[h][m]]]
    BY <1>8, <2>1 DEF FlushDat
  <2>4. Unread[1].state = "unread"
    BY ManagerFacts DEF Unread
  <2>5. /\ cache'[h][1] = Unread[1]
        /\ \A m \in Manager \ {1} : cache'[h][m] = cache[h][m]
    BY <2>3, ManagerFacts
  <2> QED
    BY <2>2, <2>4, <2>5 DEF CachesShowFile
<1>9. ASSUME NEW h \in Process, Rebuild(h) \/ RebuildThrows(h) \/ Stop(h)
      PROVE  CachesShowFile'
  <2>1. /\ file' = file
        /\ \A g \in Process \ {h} : cache'[g] = cache[g] /\ pc'[g] = pc[g]
    BY <1>9 DEF Rebuild, RebuildThrows, Stop
  <2>2. \A m \in Manager : cache'[h][m] = OpenReader(m) \/ cache'[h][m] = Unread[m]
    BY <1>9 DEF Rebuild, RebuildThrows, Stop
  <2>3. \A m \in Manager : Unread[m].state = "unread"
    BY DEF Unread
  <2>4. \A m \in Manager : cache'[h][m].state = "open" => cache'[h][m] = OpenReader(m)
    BY <2>2, <2>3
  <2> HIDE DEF ShowInv
  <2> QED
    BY <1>1, <2>1, <2>4
<1>10. ASSUME UNCHANGED <<file, cache, pc>> PROVE CachesShowFile'
  BY <1>10 DEF CachesShowFile
<1> QED
  BY <1>2, <1>3, <1>4, <1>5, <1>6, <1>7, <1>8, <1>9, <1>10
     DEF Next, GrowNext, Continue, Flush, AddRow, RemoveRow, WriteCell

\* The only writer of a table never reads a cell from a reader that shows what
\* a file held before: flush and the row mutations reset the reader of the file
\* they rewrite.  A table made by Table::create has one storage manager, and a
\* casacore table may have more when the StandardStMan comes first.
THEOREM ReadersShowFileCorrect ==
    ASSUME FirstIsFlushed, \A g, h \in Writers : g = h
    PROVE  Spec => []ReadersShowFile
<1>1. Init => ShowInv
  BY InitIInv
     DEF ShowInv, Init, ClosedHasNoWriter, NothingReadYet, FirstWriterLeads, FlushersWrite,
         CachesShowFile, NoWriters, NoWriter, Unread
<1>2. ShowInv /\ [Next]_vars => ShowInv'
  <2>1. ShowInv /\ Next => ShowInv'
    BY NextIInv, ClosedStep, NothingReadStep, FirstWriterStep, FlushersStep, CachesStep
       DEF ShowInv
  <2>2. ShowInv /\ UNCHANGED vars => ShowInv'
    BY NextIInv DEF ShowInv, ClosedHasNoWriter, NothingReadYet, FirstWriterLeads,
                    FlushersWrite, CachesShowFile, vars
  <2> QED
    BY <2>1, <2>2
<1>3. ShowInv => ReadersShowFile
  BY DEF ShowInv, CachesShowFile, ReadersShowFile
<1> QED
  BY <1>1, <1>2, <1>3, PTL DEF Spec

----------------------------------------------------------------------------
(* One writer and one storage manager: the refinement of AbstractTable.    *)
(* The files and the Table object agree at every step of a call, and       *)
(* CallAt says how.                                                        *)

\* What flush() writes: the cells of the writer.
Written(h) == [kind |-> Managers[1], cells |-> writer[h][1].cells]

CallOf(h) ==
    /\ mode[h] # "ro"
    /\ pc[h] # "idle" => mode[h] = "rw"
    /\ mode[h] = "rw" /\ pc[h] \notin {"idle", "rebuild"} => writer[h][1].on
    /\ mode[h] = "rw" => (dat.state = "ok" <=> pc[h] \notin {"createDat", "dat"})
    /\ pc[h] \in {"createData", "createRead"} => dat.rows = dirRows[h]
    /\ pc[h] \in {"createData", "data"} => file[1] = Torn
    /\ pc[h] \in {"header", "dat"} => file[1] = Written(h)
    /\ pc[h] = "rebuild" /\ writer[h][1].on => file[1] = Written(h) /\ dat.rows = dirRows[h]
    /\ mode[h] = "rw" /\ ~writer[h][1].on => dat.rows = dirRows[h]
    /\ op[h].add = 0 \/ op[h].remove = 0
    /\ pc[h] = "rebuild" => op[h].add # 0 \/ op[h].remove # 0

CallAt == \A h \in Writers : CallOf(h)

\* The writer of a table with one storage manager and one writing process has
\* exactly as many rows as the Table says.
WriterRowsMatchDir == \A h \in Writers : RowsMatch(h)

WInv == IInv /\ ClosedHasNoWriter /\ WriterRowsMatchDir
RefInv == WInv /\ CallAt

LEMMA WriterRowsStep ==
    ASSUME Len(Managers) = 1, RefInv, Next PROVE WriterRowsMatchDir'
<1>1. ASSUME NEW h \in Writers PROVE RowsMatch(h)'
  <2>1. RowsMatch(h) /\ RowsKept(h) /\ CallOf(h)
    BY RowsKeptStep DEF RefInv, WInv, CallAt, WriterRowsMatchDir
  <2>2. pc[h] = "createRead" => dat.rows = dirRows[h]
    BY <2>1 DEF CallOf
  <2> QED
    BY <2>1, <2>2 DEF RowsKept
<1> QED
  BY <1>1 DEF WriterRowsMatchDir

LEMMA CallStep ==
    ASSUME Len(Managers) = 1, \A g, h \in Writers : g = h, RefInv, Next
    PROVE  CallAt'
<1> USE DEF RefInv, WInv, IInv, TypeOK, CallAt
<1>1. Manager = {1} /\ Managers[1] \in Kinds
  BY ManagerFacts
<1>2. ASSUME NEW h \in Writers, CallOf(h)' PROVE CallAt'
  BY <1>2
<1>3. ASSUME NEW h \in Process \ Writers, UNCHANGED <<dat, file>>,
             \A g \in Process \ {h} : /\ mode'[g] = mode[g] /\ pc'[g] = pc[g]
                                      /\ dirRows'[g] = dirRows[g] /\ op'[g] = op[g]
                                      /\ writer'[g] = writer[g]
      PROVE  CallAt'
  BY <1>3 DEF CallOf, Written
<1>4. ASSUME NEW h \in Writers, CreateBegin(h) PROVE CallOf(h)'
  <2>1. /\ pc'[h] = "createDat" /\ mode'[h] = "rw" /\ dat'.state = "torn" /\ op' = op
        /\ pc[h] = "idle" /\ op[h] = NoOp
    BY <1>4 DEF CreateBegin, OpFits
  <2>2. PICK n \in 0..MaxRows : writer' = [writer EXCEPT ![h] =
                                              [m \in Manager |-> WriterOf(Defaults(n))]]
    BY <1>4 DEF CreateBegin
  <2>3. writer'[h][1].on
    BY <1>1, <2>2 DEF WriterOf
  <2> QED
    BY <2>1, <2>3 DEF CallOf, NoOp
<1>5. ASSUME NEW h \in Writers, CreateDat(h) \/ CreateData(h) \/ CreateRead(h)
      PROVE  CallOf(h)'
  BY <1>1, <1>5 DEF CreateDat, CreateData, CreateRead, CallOf, OpFits, NoOp
<1>6. ASSUME NEW h \in Writers, OpenRw(h) PROVE CallOf(h)'
  <2>1. /\ pc' = pc /\ mode'[h] = "rw" /\ dat' = dat /\ dat.state = "ok" /\ op' = op
        /\ dirRows'[h] = dat.rows /\ mode[h] = "closed"
    BY <1>6 DEF OpenRw
  <2>2. pc[h] = "idle" /\ op[h] = NoOp
    BY <2>1 DEF OpFits
  <2> QED
    BY <2>1, <2>2 DEF CallOf, NoOp
<1>7. ASSUME NEW h \in Writers, NEW m \in Manager, NEW r \in 1..MaxRows, NEW v \in Val,
             WriteCell(h, m, r, v)
      PROVE  CallOf(h)'
  <2>1. writer'[h][m].on = writer[h][m].on
    BY <1>7 DEF WriteCell
  <2> QED
    BY <1>1, <1>7, <2>1 DEF WriteCell, CallOf
<1>8. ASSUME NEW h \in Writers, NEW o \in [add : 0..MaxRows, remove : 0..MaxRows],
             StartFlush(h, o), o.add = 0 \/ o.remove = 0,
             HasWriter(h) \/ o.add # 0 \/ o.remove # 0
      PROVE  CallOf(h)'
  <2>1. HasWriter(h) <=> writer[h][1].on
    BY <1>1 DEF HasWriter
  <2>2. /\ mode[h] = "rw" /\ pc[h] = "idle" /\ UNCHANGED <<dat, mode, dirRows, writer>>
        /\ op'[h] = o
    BY <1>8 DEF StartFlush
  <2>3. CASE HasWriter(h)
    <3>1. file'[1] = Torn /\ pc'[h] = "data"
      BY <1>1, <1>8, <2>3 DEF StartFlush
    <3> QED
      BY <1>8, <2>1, <2>2, <2>3, <3>1 DEF CallOf
  <2>4. CASE ~HasWriter(h)
    <3>1. file' = file /\ pc'[h] = "rebuild"
      BY <1>8, <2>4 DEF StartFlush
    <3> QED
      BY <1>8, <2>1, <2>2, <2>4, <3>1 DEF CallOf
  <2> QED
    BY <2>3, <2>4
<1>9. ASSUME NEW h \in Writers, FlushData(h) PROVE CallOf(h)'
  <2>1. /\ pc[h] = "data" /\ pc'[h] = "header"
        /\ UNCHANGED <<dat, mode, dirRows, writer, op>>
    BY <1>9 DEF FlushData
  <2>2. file'[1] = Written(h)
    BY <1>1, <1>9 DEF FlushData, FlushManagers, Written
  <2> QED
    BY <2>1, <2>2 DEF CallOf, Written
<1>10. ASSUME NEW h \in Writers, FlushHeader(h) PROVE CallOf(h)'
  BY <1>10 DEF FlushHeader, CallOf, Written
<1>11. ASSUME NEW h \in Writers, FlushDat(h) PROVE CallOf(h)'
  <2>1. /\ pc[h] = "dat" /\ dat' = [state |-> "ok", rows |-> dirRows[h]]
        /\ pc'[h] = IF op[h] = NoOp THEN "idle" ELSE "rebuild"
        /\ UNCHANGED <<file, mode, dirRows, writer, op>>
    BY <1>11 DEF FlushDat
  <2>2. op[h] # NoOp => op[h].add # 0 \/ op[h].remove # 0
    BY DEF NoOp
  <2> QED
    BY <2>1, <2>2 DEF CallOf, Written
<1>12. ASSUME NEW h \in Writers, Rebuild(h) PROVE CallOf(h)'
  <2>1. /\ pc[h] = "rebuild" /\ pc'[h] = "idle" /\ op'[h] = NoOp /\ dat.state = "ok"
        /\ UNCHANGED <<dat, file, mode>>
    BY <1>12 DEF Rebuild
  <2>2. ~writer'[h][1].on => dirRows'[h] = dat.rows
    <3> DEFINE reader == OpenReader(1)
               good == /\ Readable(1, reader, LastSource(h))
                       /\ Managers[1] # "ssm" /\ reader.state = "open"
                            => LastSource(h) <= dat.rows
    <3>1. Rank(Managers[1]) \in Nat
      BY <1>1 DEF Rank, Kinds
    <3>2. /\ writer'[h][1] = IF good THEN WriterOf(CopiedRows(h, reader)) ELSE NoWriter
          /\ dirRows'[h] = IF good THEN NewRows(h) ELSE dat.rows
      <4> HIDE DEF WriterOf, NoWriter
      <4> QED
        BY <1>1, <1>12, <3>1 DEF Rebuild
    <3> HIDE DEF good
    <3> QED
      BY <3>2 DEF WriterOf
  <2> QED
    BY <2>1, <2>2 DEF CallOf, NoOp
<1>13. ASSUME NEW h \in Writers, RebuildThrows(h) PROVE CallOf(h)'
  BY <1>13 DEF RebuildThrows, CallOf
<1>14. ASSUME NEW h \in Writers, Stop(h) \/ CreateThrows(h) PROVE CallOf(h)'
  BY <1>14 DEF Stop, CreateThrows, CallOf, OpFits, NoOp
<1>15. ASSUME NEW h \in Process, UNCHANGED <<dat, file, mode, dirRows, writer, pc, op>>
       PROVE  CallAt'
  BY <1>15 DEF CallOf, Written
<1>16. ASSUME NEW h \in Readers, Open(h) \/ Stop(h) PROVE CallAt'
  <2>1. h \in Process \ Writers
    BY TableStoreAssumption
  <2> QED
    BY <1>3, <1>16, <2>1 DEF Open, Stop
<1>17. ASSUME NEW h \in Process, NEW m \in Manager, LoadReader(h, m) PROVE CallAt'
  BY <1>15, <1>17 DEF LoadReader
<1> HIDE DEF RefInv, CallAt, WInv, IInv, TypeOK
<1>18. ASSUME NEW h \in Writers,
              \/ Flush(h)
              \/ \E n \in 1..MaxRows : AddRow(h, n)
              \/ \E r \in 1..MaxRows : RemoveRow(h, r)
       PROVE  CallOf(h)'
  <2>1. CASE Flush(h)
    BY <1>8, <2>1, TableStoreAssumption DEF Flush, NoOp
  <2>2. ASSUME NEW n \in 1..MaxRows, AddRow(h, n) PROVE CallOf(h)'
    <3> DEFINE o == [NoOp EXCEPT !.add = n]
    <3>1. o \in [add : 0..MaxRows, remove : 0..MaxRows] /\ o.add # 0 /\ o.remove = 0
      BY TableStoreAssumption DEF NoOp
    <3>2. StartFlush(h, o)
      BY <2>2 DEF AddRow
    <3> HIDE DEF o
    <3> QED
      BY <1>8, <3>1, <3>2
  <2>3. ASSUME NEW r \in 1..MaxRows, RemoveRow(h, r) PROVE CallOf(h)'
    <3> DEFINE o == [NoOp EXCEPT !.remove = r]
    <3>1. o \in [add : 0..MaxRows, remove : 0..MaxRows] /\ o.add = 0 /\ o.remove = r
      BY TableStoreAssumption DEF NoOp
    <3>2. StartFlush(h, o)
      BY <2>3 DEF RemoveRow
    <3> HIDE DEF o
    <3>3. o.remove # 0
      BY <3>1
    <3> QED
      BY <1>8, <3>1, <3>2, <3>3
  <2> QED
    BY <1>18, <2>1, <2>2, <2>3
<1> QED
  BY <1>2, <1>4, <1>5, <1>6, <1>7, <1>9, <1>10, <1>11, <1>12, <1>13, <1>14, <1>16,
     <1>17, <1>18
     DEF Next, GrowNext, Continue

\* A table of rows is a table of rows of the abstract specification.
LEMMA AbstractRows == Rows \subseteq Abstract!Rows
<1>1. ASSUME NEW s \in Rows PROVE s \in Abstract!Rows
  <2>1. s \in [1..Len(s) -> Val] /\ Len(s) \in 0..MaxRows
    BY TableStoreAssumption DEF Rows
  <2> QED
    BY <2>1 DEF Abstract!Rows
<1> QED
  BY <1>1

\* The rows of a file that the row count reaches.
Reached(s, n) == [r \in DOMAIN s \cap 1..n |-> s[r]]

LEMMA ShorterRange ==
    ASSUME NEW i \in Nat, NEW j \in Nat
    PROVE  \E k \in {i, j} : k <= i /\ k <= j /\ 1..i \cap 1..j = 1..k
<1>1. CASE i <= j
  <2>1. 1..i \cap 1..j = 1..i
    BY <1>1
  <2> QED
    BY <1>1, <2>1
<1>2. CASE j < i
  <2>1. 1..i \cap 1..j = 1..j
    BY <1>2
  <2> QED
    BY <1>2, <2>1
<1> QED
  BY <1>1, <1>2

LEMMA ReachedRows ==
    ASSUME NEW s \in Rows, NEW n \in 0..MaxRows
    PROVE  Reached(s, n) \in Rows /\ (Len(s) = n => Reached(s, n) = s)
<1>1. s \in [1..Len(s) -> Val] /\ Len(s) \in 0..MaxRows /\ MaxRows \in Nat
  BY TableStoreAssumption DEF Rows
<1>2. PICK k \in {Len(s), n} : k <= Len(s) /\ 1..Len(s) \cap 1..n = 1..k
  <2>1. Len(s) \in Nat /\ n \in Nat
    BY <1>1
  <2> QED
    BY <2>1, ShorterRange
<1>3. DOMAIN s = 1..Len(s)
  BY <1>1
<1>4. Reached(s, n) = [r \in 1..k |-> s[r]]
  BY <1>2, <1>3 DEF Reached
<1>5. k \in 0..MaxRows /\ Reached(s, n) \in [1..k -> Val]
  BY <1>1, <1>2, <1>4
<1>6. Reached(s, n) \in Rows
  BY <1>5, RowsFunction
<1>7. Len(s) = n => Reached(s, n) = s
  BY <1>1, <1>2, <1>4
<1> QED
  BY <1>6, <1>7

\* The directory gives the rows of the file when both files are whole and agree.
DirectoryWhole ==
    dat.state = "ok" /\ file[1].kind = Managers[1] /\ Len(file[1].cells) = dat.rows

LEMMA SessionIsRows ==
    ASSUME Len(Managers) = 1, w \in Writers
    PROVE  /\ RefInv => SessionRows \in Rows
           /\ RefInv' => SessionRows' \in Rows
<1>1. 1 \in Manager /\ w \in Process
  BY ManagerFacts
<1>2. ASSUME RefInv PROVE SessionRows \in Rows
  <2>1. writer[w][1].cells \in Rows /\ file[1].cells \in Rows /\ dirRows[w] \in 0..MaxRows
    BY <1>1, <1>2 DEF RefInv, WInv, IInv, TypeOK
  <2>2. Reached(file[1].cells, dirRows[w]) \in Rows
    BY <2>1, ReachedRows
  <2> QED
    BY <2>1, <2>2, EmptyRows DEF SessionRows, Reached
<1>3. ASSUME RefInv' PROVE SessionRows' \in Rows
  <2>1. writer'[w][1].cells \in Rows /\ file'[1].cells \in Rows /\ dirRows'[w] \in 0..MaxRows
    BY <1>1, <1>3 DEF RefInv, WInv, IInv, TypeOK
  <2>2. Reached(file'[1].cells, dirRows'[w]) \in Rows
    BY <2>1, ReachedRows
  <2> QED
    BY <2>1, <2>2, EmptyRows DEF SessionRows, Reached
<1> QED
  BY <1>2, <1>3

\* A rebuild of rows the directory holds appends default rows or leaves one out.
LEMMA RebuildStep ==
    ASSUME Len(Managers) = 1, RefInv, w \in Writers, Rebuild(w), DirectoryWhole
    PROVE  Abstract!Grow \/ Abstract!Shrink
<1> USE DEF RefInv, WInv, IInv, TypeOK
<1> DEFINE cells == file[1].cells
           n == dirRows[w]
           reader == OpenReader(1)
           good == /\ Readable(1, reader, LastSource(w))
                   /\ Managers[1] # "ssm" /\ reader.state = "open"
                        => LastSource(w) <= dat.rows
<1>1. Manager = {1} /\ Managers[1] \in Kinds /\ w \in Process
  BY ManagerFacts
<1>2. CallOf(w) /\ pc[w] = "rebuild" /\ mode' = mode /\ dat' = dat /\ file' = file
  BY DEF CallAt, Rebuild
<1>3. mode[w] = "rw" /\ dat.rows = n /\ n \in 0..MaxRows /\ MaxRows \in Nat
  BY <1>1, <1>2, TableStoreAssumption DEF CallOf
<1>4. cells \in Rows /\ Len(cells) = n /\ cells \in [1..n -> Val]
  BY <1>1, <1>3 DEF DirectoryWhole, Rows
<1>5. SessionRows = cells
  <2>1. CASE writer[w][1].on
    BY <1>2, <1>3, <2>1 DEF CallOf, Written, SessionRows
  <2>2. CASE ~writer[w][1].on
    <3>1. SessionRows = Reached(cells, n)
      BY <1>3, <2>2 DEF SessionRows, Reached
    <3> QED
      BY <1>3, <1>4, <3>1, ReachedRows
  <2> QED
    BY <2>1, <2>2
<1>6. DurableRows = cells /\ DurableRows' = DurableRows
  BY <1>2 DEF DirectoryWhole, DurableRows
<1>7. reader = [state |-> "open", cells |-> cells]
  BY DEF DirectoryWhole, OpenReader
<1>8. op[w].add \in 0..MaxRows /\ op[w].remove \in 0..MaxRows /\ op[w].remove <= n
  BY <1>1 DEF OpFits
<1>9. good
  <2>1. LastSource(w) \in Nat /\ LastSource(w) <= n
    BY <1>3, <1>8 DEF LastSource
  <2> QED
    BY <1>3, <1>4, <1>7, <2>1 DEF Readable
<1>10. SessionRows' = CopiedRows(w, reader)
  <2>1. Rank(Managers[1]) \in Nat
    BY <1>1 DEF Rank, Kinds
  <2>2. writer'[w][1] = IF good THEN WriterOf(CopiedRows(w, reader)) ELSE NoWriter
    <3> HIDE DEF WriterOf, NoWriter
    <3> QED
      BY <1>1, <2>1 DEF Rebuild
  <2>3. writer'[w][1] = WriterOf(CopiedRows(w, reader))
    BY <1>9, <2>2
  <2> QED
    BY <1>2, <1>3, <2>3 DEF SessionRows, WriterOf
<1> HIDE DEF good
<1>11. CASE op[w].remove = 0
  <2> DEFINE add == op[w].add
             new == [i \in 1..add |-> Default]
  <2>1. add \in 1..(MaxRows - n)
    BY <1>1, <1>2, <1>3, <1>8, <1>11 DEF CallOf, OpFits
  <2>2. new \in Seq(Val) /\ Len(new) = add /\ cells \in Seq(Val)
    <3>1. add \in 0..MaxRows /\ new \in [1..add -> Val]
      BY <1>3, <2>1, TableStoreAssumption
    <3> HIDE DEF new, add
    <3> QED
      BY <1>4, <3>1, RowsFunction DEF Rows
  <2>3. CopiedRows(w, reader) = [r \in 1..(n + add) |-> IF r <= n THEN cells[r] ELSE Default]
    BY <1>3, <1>4, <1>7, <1>11, <2>1 DEF CopiedRows, NewRows, SourceRow, CellAt
  <2>4. cells \o new = [r \in 1..(n + add) |-> IF r <= n THEN cells[r] ELSE Default]
    BY <1>3, <1>4, <2>1, <2>2
  <2> HIDE DEF new, cells, reader
  <2>5. SessionRows' = SessionRows \o [i \in 1..add |-> Default]
    BY <1>5, <1>10, <2>3, <2>4 DEF new
  <2> QED
    BY <1>2, <1>3, <1>4, <1>5, <1>6, <2>1, <2>5 DEF Abstract!Grow
<1>12. CASE op[w].remove # 0
  <2> DEFINE k == op[w].remove
  <2>1. k \in 1..n /\ op[w].add = 0
    BY <1>2, <1>3, <1>8, <1>12 DEF CallOf
  <2>2. CopiedRows(w, reader) =
            [r \in 1..(n - 1) |-> IF r < k THEN cells[r] ELSE cells[r + 1]]
    BY <1>3, <1>4, <1>7, <1>12, <2>1 DEF CopiedRows, NewRows, SourceRow, CellAt
  <2>3. CopiedRows(w, reader) = Abstract!Without(cells, k)
    BY <1>4, <2>2 DEF Abstract!Without
  <2> HIDE DEF cells, reader
  <2> QED
    BY <1>2, <1>3, <1>4, <1>5, <1>6, <1>10, <2>1, <2>3 DEF Abstract!Shrink
<1> QED
  BY <1>11, <1>12

\* Every step of a Table object is a step of the abstract table or changes
\* nothing it speaks of.
LEMMA RefinementStep ==
    ASSUME Len(Managers) = 1, \A h \in Writers : h = w, w \in Writers,
           RefInv, RefInv', Next
    PROVE  [Abstract!Next]_(Abstract!vars)
<1> USE DEF RefInv, WInv, IInv, TypeOK
<1>1. /\ Manager = {1} /\ Managers[1] \in Kinds /\ w \in Process /\ CallOf(w)
      /\ Managers[1] # "torn" /\ Managers[1] # "none"
  BY ManagerFacts DEF CallAt, Kinds
<1>2. /\ SessionRows \in Abstract!Rows /\ SessionRows' \in Abstract!Rows
      /\ DirectoryWhole => DurableRows = file[1].cells
      /\ ~DirectoryWhole => DurableRows = Unknown
      /\ DirectoryWhole' => DurableRows' = file'[1].cells
      /\ ~DirectoryWhole' => DurableRows' = Unknown
  BY AbstractRows, SessionIsRows DEF DirectoryWhole, DurableRows
<1>3. CASE UNCHANGED Abstract!vars
  BY <1>3
<1> HIDE DEF RefInv
<1>4. CASE CreateBegin(w)
  <2>1. PICK n \in 0..MaxRows : writer' = [writer EXCEPT ![w] =
                                              [m \in Manager |-> WriterOf(Defaults(n))]]
    BY <1>4 DEF CreateBegin
  <2>2. writer'[w][1] = WriterOf(Defaults(n))
    BY <1>1, <2>1 DEF RefInv
  <2>3. mode[w] = "closed" /\ mode'[w] = "rw" /\ ~DirectoryWhole'
    BY <1>1, <1>4 DEF CreateBegin, DirectoryWhole, RefInv
  <2>4. SessionRows' = [i \in 1..n |-> Default]
    BY <2>2, <2>3 DEF SessionRows, WriterOf, Defaults
  <2> QED
    BY <1>2, <2>3, <2>4 DEF Abstract!Create, Abstract!Next
<1>5. CASE CreateDat(w) \/ FlushHeader(w) \/ FlushData(w) \/ CreateData(w) \/ FlushDat(w)
  <2>1. /\ mode[w] = "rw" /\ writer[w][1].on /\ mode' = mode /\ writer' = writer
    BY <1>1, <1>5 DEF CallOf, CreateDat, FlushHeader, FlushData, CreateData, FlushDat
  <2>2. SessionRows' = SessionRows /\ SessionRows = writer[w][1].cells
    BY <2>1 DEF SessionRows
  <2>3. ASSUME DirectoryWhole', file'[1] = Written(w)
        PROVE  Abstract!FlushEnd
    BY <1>2, <2>1, <2>2, <2>3 DEF Written, Abstract!FlushEnd
  <2>4. CASE ~DirectoryWhole'
    BY <1>2, <2>1, <2>2, <2>4 DEF Abstract!FlushBegin, Abstract!Next
  <2>5. DirectoryWhole' => file'[1] = Written(w)
    BY <1>1, <1>5 DEF CallOf, CreateDat, FlushHeader, FlushData, CreateData, FlushDat,
                      DirectoryWhole, Written, Torn, FlushManagers, RefInv
  <2> QED
    BY <2>3, <2>4, <2>5 DEF Abstract!Next
<1>6. CASE OpenRw(w)
  <2>1. /\ mode[w] = "closed" /\ mode'[w] = "rw" /\ dat' = dat /\ file' = file
        /\ dirRows'[w] = dat.rows
    BY <1>1, <1>6 DEF OpenRw, RefInv
  <2>2. DurableRows' = DurableRows
    BY <2>1 DEF DurableRows
  <2>3. ASSUME DirectoryWhole PROVE SessionRows' = DurableRows
    <3> DEFINE cells == file[1].cells
               n == dat.rows
    <3>1. cells \in Rows /\ n \in 0..MaxRows /\ Len(cells) = n /\ cells \in [1..n -> Val]
      BY SMTT(20), <1>1, <2>3 DEF DirectoryWhole, RefInv, Rows
    <3>2. CASE Managers[1] = "ism"
      <4>1. writer'[w][1] = NoWriter
        BY <1>1, <1>6, <3>2 DEF OpenRw, RefInv
      <4>2. SessionRows' = Reached(cells, n)
        BY <2>1, <4>1 DEF SessionRows, Reached, NoWriter
      <4> QED
        BY <1>2, <2>3, <3>1, <4>2, ReachedRows
    <3>3. CASE Managers[1] # "ism"
      <4>1. OpenReader(1) = [state |-> "open", cells |-> cells]
        BY <2>3 DEF DirectoryWhole, OpenReader
      <4>2. writer'[w][1] = WriterOf([r \in 1..n |-> CellAt(OpenReader(1), r)])
        BY <1>1, <1>6, <3>3 DEF OpenRw, RefInv
      <4>3. [r \in 1..n |-> CellAt(OpenReader(1), r)] = cells
        BY <3>1, <4>1 DEF CellAt
      <4>4. SessionRows' = cells
        BY <2>1, <4>2, <4>3 DEF SessionRows, WriterOf
      <4> QED
        BY <1>2, <2>3, <4>4
    <3> QED
      BY <3>2, <3>3
  <2> QED
    BY <1>2, <2>1, <2>2, <2>3 DEF Abstract!Open, Abstract!Next
<1>7. ASSUME NEW m \in Manager, NEW r \in 1..MaxRows, NEW v \in Val, WriteCell(w, m, r, v)
      PROVE  Abstract!Write
  <2>1. m = 1 /\ mode[w] = "rw" /\ mode' = mode /\ dat' = dat /\ file' = file
    BY <1>1, <1>7 DEF WriteCell
  <2>2. writer[w][1].on /\ r <= Len(writer[w][1].cells)
    BY <1>7, <2>1 DEF WriteCell, FlushManagers
  <2>3. /\ writer'[w][1].on = writer[w][1].on
        /\ writer'[w][1].cells = [writer[w][1].cells EXCEPT ![r] = v]
    <3> DEFINE written == [writer[w][1] EXCEPT !.cells = [writer[w][1].cells EXCEPT ![r] = v]]
    <3>1. writer' = [writer EXCEPT ![w] = [writer[w] EXCEPT ![1] = written]]
      BY <1>7, <2>1 DEF WriteCell
    <3>2. writer[w][1] \in [on : BOOLEAN, cells : Rows]
      BY <1>1 DEF RefInv
    <3>3. /\ written.on = writer[w][1].on
          /\ written.cells = [writer[w][1].cells EXCEPT ![r] = v]
      BY <3>2
    <3> HIDE DEF written
    <3>4. writer'[w][1] = written
      BY <1>1, <3>1 DEF RefInv
    <3> QED
      BY <3>3, <3>4
  <2>4. SessionRows' = [SessionRows EXCEPT ![r] = v] /\ r \in 1..Len(SessionRows)
    BY <1>1, <2>1, <2>2, <2>3 DEF SessionRows, RefInv, Rows
  <2>5. DurableRows' = DurableRows
    BY <2>1 DEF DurableRows
  <2> QED
    BY <2>1, <2>4, <2>5 DEF Abstract!Write
<1>8. ASSUME NEW o, StartFlush(w, o) PROVE [Abstract!Next]_(Abstract!vars)
  <2>1. mode[w] = "rw" /\ mode' = mode /\ writer' = writer /\ dirRows' = dirRows /\ dat' = dat
    BY <1>8 DEF StartFlush
  <2>2. HasWriter(w) <=> writer[w][1].on
    BY <1>1 DEF HasWriter
  <2>3. CASE HasWriter(w)
    <3>1. SessionRows' = SessionRows
      BY <2>1, <2>2, <2>3 DEF SessionRows
    <3>2. ~DirectoryWhole'
      BY <1>1, <1>8, <2>3 DEF StartFlush, DirectoryWhole, Torn, RefInv
    <3> QED
      BY <1>2, <2>1, <3>1, <3>2 DEF Abstract!FlushBegin, Abstract!Next
  <2>4. CASE ~HasWriter(w)
    <3>1. file' = file
      BY <1>8, <2>4 DEF StartFlush
    <3> QED
      BY <2>1, <3>1 DEF Abstract!vars, SessionRows, DurableRows
  <2> QED
    BY <2>3, <2>4
<1>9. CASE Rebuild(w)
  <2>1. CASE DirectoryWhole
    BY <1>9, <2>1, RebuildStep DEF Abstract!Next
  <2>2. CASE ~DirectoryWhole
    <3>1. mode[w] = "rw" /\ mode' = mode /\ DurableRows' = DurableRows
      BY <1>1, <1>9 DEF Rebuild, CallOf, DurableRows
    <3> QED
      BY <1>2, <2>2, <3>1 DEF Abstract!Salvage, Abstract!Next
  <2> QED
    BY <2>1, <2>2
<1>10. ~RebuildThrows(w) /\ ~CreateThrows(w)
  BY <1>1 DEF RebuildThrows, CreateThrows, CallOf
<1>11. CASE Stop(w)
  <2>1. mode[w] = "rw" /\ mode'[w] = "closed" /\ dat' = dat /\ file' = file
    BY <1>1, <1>11 DEF Stop, CallOf, RefInv
  <2>2. SessionRows' = <<>> /\ DurableRows' = DurableRows
    BY <2>1 DEF SessionRows, DurableRows
  <2> QED
    BY <2>1, <2>2 DEF Abstract!Stop, Abstract!Next
\* What other processes do, and what only concerns readers of cells.
<1>12. ASSUME NEW h \in Process, Open(h) \/ Stop(h), h # w
       PROVE  UNCHANGED Abstract!vars
  <2>1. /\ mode'[w] = mode[w] /\ dirRows'[w] = dirRows[w] /\ writer'[w] = writer[w]
        /\ dat' = dat /\ file' = file
    BY <1>1, <1>12 DEF Open, Stop, RefInv
  <2> QED
    BY <2>1 DEF Abstract!vars, SessionRows, DurableRows
<1>13. ASSUME NEW h \in Process, NEW m \in Manager, LoadReader(h, m)
       PROVE  UNCHANGED Abstract!vars
  BY <1>13 DEF LoadReader, Abstract!vars, SessionRows, DurableRows
<1>14. Readers \cap Writers = {}
  BY TableStoreAssumption
\* create reads back what it wrote.
<1>15. CASE CreateRead(w)
  <2>1. UNCHANGED <<dat, file, mode, writer>> /\ writer[w][1].on
    BY <1>1, <1>15 DEF CreateRead, CallOf
  <2> QED
    BY <2>1 DEF Abstract!vars, SessionRows, DurableRows
<1> HIDE DEF WInv, IInv, TypeOK
<1> QED
  BY <1>15, <1>4, <1>5, <1>6, <1>7, <1>8, <1>9, <1>10, <1>11, <1>12, <1>13, <1>14
     DEF Next, GrowNext, Continue, Flush, AddRow, RemoveRow, Abstract!Next

\* A table with one storage manager and one writing process keeps the promise
\* of the abstract table, whatever rows are added and removed and wherever the
\* process dies: what a new Table would read is the rows of the writing session
\* at its last flush, all of them, or nothing in particular while one is under
\* way, and the rows of a session only change as its calls say.
THEOREM ImplementsAbstractTableCorrect ==
    ASSUME Len(Managers) = 1, Writers # {}, \A g, h \in Writers : g = h
    PROVE  Spec => ImplementsAbstractTable
<1>1. w \in Writers /\ \A h \in Writers : h = w
  BY DEF w
<1>2. Init => RefInv
  <2> SUFFICES ASSUME Init PROVE RefInv
    OBVIOUS
  <2>1. WInv
    BY InitIInv DEF WInv, Init, ClosedHasNoWriter, WriterRowsMatchDir, RowsMatch, NoWriters, NoWriter
  <2>2. CallAt
    BY DEF Init, CallAt, CallOf, NoOp
  <2> QED
    BY <2>1, <2>2 DEF RefInv
<1>3. RefInv /\ [Next]_vars => RefInv'
  <2>1. RefInv /\ Next => RefInv'
    BY NextIInv, ClosedStep, WriterRowsStep, CallStep DEF RefInv, WInv
  <2>2. RefInv /\ UNCHANGED vars => RefInv'
    BY NextIInv
       DEF RefInv, WInv, ClosedHasNoWriter, WriterRowsMatchDir, RowsMatch, CallAt, CallOf,
           Written, vars
  <2> QED
    BY <2>1, <2>2
<1>4. Init => Abstract!Init
  BY <1>1, ManagerFacts DEF Init, Abstract!Init, SessionRows, DurableRows
<1>5. RefInv /\ RefInv' /\ [Next]_vars => [Abstract!Next]_(Abstract!vars)
  <2>1. UNCHANGED vars => UNCHANGED Abstract!vars
    BY DEF vars, Abstract!vars, SessionRows, DurableRows
  <2> QED
    BY <1>1, <2>1, RefinementStep
<1> QED
  BY <1>2, <1>3, <1>4, <1>5, PTL DEF Spec, ImplementsAbstractTable, Abstract!Spec

----------------------------------------------------------------------------
(* A table that only grows.  The data file is never shorter than the row   *)
(* count of table.dat, not even where a flush or a create has been cut     *)
(* short, because the data file is written first and is torn meanwhile.    *)

FileReachesDat == file[1].kind = Managers[1] => dat.rows <= Len(file[1].cells)

WriterReachesDat ==
    /\ \A h \in Writers : mode[h] = "rw" => dat.rows <= dirRows[h]
    /\ \A h \in Writers : pc[h] = "createDat" => dat.rows = 0
    /\ dat.state = "none" => dat.rows = 0
    /\ \A h \in Process : op[h].remove = 0

ReadersReached ==
    \A h \in Readers : mode[h] = "ro" =>
        /\ dirRows[h] <= dat.rows
        /\ cache[h][1].state = "open" => dirRows[h] <= Len(cache[h][1].cells)

GrowInv == RefInv /\ NothingReadYet /\ FileReachesDat /\ WriterReachesDat /\ ReadersReached

\* The row count of table.dat and the files only ever change together.
LEMMA GrowStep ==
    ASSUME Len(Managers) = 1, \A g, h \in Writers : g = h, GrowInv, GrowNext
    PROVE  FileReachesDat' /\ WriterReachesDat' /\ dat.rows <= dat'.rows
<1> USE DEF GrowInv, RefInv, WInv, IInv, TypeOK, FileReachesDat, WriterReachesDat
<1>1. Manager = {1} /\ Managers[1] \in Kinds
  BY ManagerFacts
<1>2. \A s \in Rows : Len(s) \in Nat
  BY DEF Rows
<1>3. ASSUME NEW h \in Writers, dat.state = "none", CreateBegin(h)
      PROVE  FileReachesDat' /\ WriterReachesDat' /\ dat.rows <= dat'.rows
  BY <1>1, <1>2, <1>3 DEF CreateBegin
<1>4. ASSUME NEW h \in Writers, CreateDat(h)
      PROVE  FileReachesDat' /\ WriterReachesDat' /\ dat.rows <= dat'.rows
  <2>1. /\ dat'.rows = dirRows[h] /\ dat'.state = "ok" /\ file'[1] = Torn /\ pc'[h] = "createData"
        /\ dat.rows = 0 /\ UNCHANGED <<mode, dirRows, op>>
    BY <1>1, <1>4 DEF CreateDat
  <2>2. Torn.kind # Managers[1] /\ dirRows[h] \in Nat /\ 0 <= dirRows[h]
    BY <1>1 DEF Torn, Kinds
  <2>3. \A g \in Writers : g = h
    OBVIOUS
  <2> HIDE DEF TypeOK
  <2> QED
    BY <2>1, <2>2, <2>3
<1>5. ASSUME NEW h \in Writers, CreateData(h) \/ FlushData(h)
      PROVE  FileReachesDat' /\ WriterReachesDat' /\ dat.rows <= dat'.rows
  <2>1. /\ writer[h][1].on /\ mode[h] = "rw" /\ dat' = dat /\ pc'[h] # "createDat"
        /\ UNCHANGED <<mode, dirRows, op>>
    BY <1>5 DEF CallAt, CallOf, CreateData, FlushData
  <2>2. file'[1] = Written(h)
    BY <1>1, <1>5 DEF CreateData, FlushData, FlushManagers, Written
  <2>3. Len(writer[h][1].cells) = dirRows[h]
    BY <1>1, <2>1 DEF WriterRowsMatchDir, RowsMatch
  <2>4. FileReachesDat'
    BY <2>1, <2>2, <2>3 DEF Written
  <2>5. \A g \in Writers : g = h
    OBVIOUS
  <2> QED
    BY <2>1, <2>4, <2>5
<1>6. ASSUME NEW h \in Writers, OpenRw(h)
      PROVE  FileReachesDat' /\ WriterReachesDat' /\ dat.rows <= dat'.rows
  <2>1. UNCHANGED <<dat, file, pc, op>> /\ dirRows'[h] = dat.rows
    BY <1>6 DEF OpenRw
  <2>2. \A g \in Writers : g = h
    OBVIOUS
  <2> QED
    BY <2>1, <2>2
<1>7. ASSUME NEW h \in Writers, NEW o, StartFlush(h, o), o.remove = 0
      PROVE  FileReachesDat' /\ WriterReachesDat' /\ dat.rows <= dat'.rows
  <2>1. /\ UNCHANGED <<dat, mode, dirRows>> /\ pc'[h] # "createDat"
        /\ op' = [op EXCEPT ![h] = o] /\ (file' = file \/ file'[1] = Torn)
    BY <1>1, <1>7 DEF StartFlush
  <2>2. Torn.kind # Managers[1]
    BY <1>1 DEF Torn, Kinds
  <2>3. \A g \in Writers : g = h
    OBVIOUS
  <2>4. \A g \in Process : op'[g].remove = 0
    BY <1>7, <2>1
  <2> QED
    BY <2>1, <2>2, <2>3, <2>4
<1>8. ASSUME NEW h \in Writers, FlushHeader(h)
      PROVE  FileReachesDat' /\ WriterReachesDat' /\ dat.rows <= dat'.rows
  BY <1>8 DEF FlushHeader
<1>9. ASSUME NEW h \in Writers, FlushDat(h)
      PROVE  FileReachesDat' /\ WriterReachesDat' /\ dat.rows <= dat'.rows
  <2>1. /\ writer[h][1].on /\ mode[h] = "rw" /\ file[1] = Written(h)
    BY <1>9 DEF CallAt, CallOf, FlushDat
  <2>2. /\ dat'.rows = dirRows[h] /\ dat'.state = "ok" /\ pc'[h] # "createDat"
        /\ UNCHANGED <<file, mode, dirRows, op>>
    BY <1>9 DEF FlushDat
  <2>3. Len(writer[h][1].cells) = dirRows[h]
    BY <1>1, <2>1 DEF WriterRowsMatchDir, RowsMatch
  <2>4. FileReachesDat'
    BY <2>1, <2>2, <2>3 DEF Written
  <2>5. \A g \in Writers : g = h
    OBVIOUS
  <2> QED
    BY <2>1, <2>2, <2>4, <2>5
<1>10. ASSUME NEW h \in Writers, Rebuild(h)
       PROVE  FileReachesDat' /\ WriterReachesDat' /\ dat.rows <= dat'.rows
  <2>1. /\ UNCHANGED <<dat, file, mode>> /\ pc'[h] = "idle" /\ op' = [op EXCEPT ![h] = NoOp]
        /\ mode[h] = "rw"
    BY <1>10 DEF Rebuild, CallAt, CallOf
  <2>2. dirRows'[h] \in {NewRows(h), dat.rows}
    BY <1>10 DEF Rebuild
  <2>3. NewRows(h) = dirRows[h] + op[h].add /\ op[h].add \in Nat
    BY DEF NewRows
  <2>4. dat.rows <= dirRows'[h]
    BY <2>1, <2>2, <2>3
  <2>5. \A g \in Writers : g = h
    OBVIOUS
  <2>6. \A g \in Process : op'[g].remove = 0
    BY <2>1 DEF NoOp
  <2> QED
    BY <2>1, <2>4, <2>5, <2>6
<1>11. ASSUME NEW h \in Process, RebuildThrows(h) \/ Stop(h) \/ CreateThrows(h)
       PROVE  FileReachesDat' /\ WriterReachesDat' /\ dat.rows <= dat'.rows
  <2>1. /\ UNCHANGED <<dat, file>> /\ pc' = [pc EXCEPT ![h] = "idle"]
        /\ op' = [op EXCEPT ![h] = NoOp] \/ op' = op
        /\ mode'[h] # "rw" \/ (mode' = mode /\ dirRows' = dirRows)
        /\ \A g \in Process \ {h} : mode'[g] = mode[g] /\ dirRows'[g] = dirRows[g]
    BY <1>11 DEF RebuildThrows, Stop, CreateThrows
  <2>2. \A g \in Process : op'[g].remove = 0
    BY <2>1 DEF NoOp
  <2>3. \A g \in Process : pc'[g] = "createDat" => pc[g] = "createDat"
    BY <2>1
  <2> QED
    BY <2>1, <2>2, <2>3
<1>12. ASSUME NEW h \in Readers, Open(h)
       PROVE  FileReachesDat' /\ WriterReachesDat' /\ dat.rows <= dat'.rows
  BY <1>12, TableStoreAssumption DEF Open
<1>13. ASSUME UNCHANGED <<dat, file, mode, dirRows, pc, op>>
       PROVE  FileReachesDat' /\ WriterReachesDat' /\ dat.rows <= dat'.rows
  BY <1>13
<1>15. ASSUME NEW h \in Writers, CreateRead(h)
       PROVE  FileReachesDat' /\ WriterReachesDat' /\ dat.rows <= dat'.rows
  <2>1. /\ UNCHANGED <<dat, file, mode, op>> /\ dirRows' = [dirRows EXCEPT ![h] = dat.rows]
        /\ pc' = [pc EXCEPT ![h] = "idle"]
    BY <1>15 DEF CreateRead
  <2> QED
    BY <2>1
<1>14. ASSUME NEW h \in Writers, Flush(h) \/ \E n \in 1..MaxRows : AddRow(h, n)
       PROVE  FileReachesDat' /\ WriterReachesDat' /\ dat.rows <= dat'.rows
  BY <1>7, <1>14 DEF Flush, AddRow, NoOp
<1> QED
  BY <1>3, <1>4, <1>5, <1>6, <1>8, <1>9, <1>10, <1>11, <1>12, <1>13, <1>14, <1>15
     DEF GrowNext, Continue, WriteCell, LoadReader

LEMMA ReadersStep ==
    ASSUME Len(Managers) = 1, \A g, h \in Writers : g = h, GrowInv, GrowNext
    PROVE  ReadersReached'
<1> USE DEF ReadersReached
<1>1. Manager = {1} /\ Readers \cap Writers = {}
  BY ManagerFacts, TableStoreAssumption
<1>2. TypeOK /\ NothingReadYet /\ FileReachesDat /\ ReadersReached
  BY DEF GrowInv, RefInv, WInv, IInv
<1>3. dat.rows <= dat'.rows /\ dat'.rows \in Nat
  BY <1>2, GrowStep, NextIInv DEF GrowInv, RefInv, WInv, IInv, TypeOK, Next
<1> USE DEF TypeOK
<1>4. ASSUME NEW h \in Process, Open(h) PROVE ReadersReached'
  <2>1. UNCHANGED <<dat, cache>> /\ dirRows'[h] = dat.rows /\ cache[h][1].state = "unread"
    BY <1>1, <1>2, <1>4 DEF Open, NothingReadYet
  <2>2. \A g \in Process \ {h} : mode'[g] = mode[g] /\ dirRows'[g] = dirRows[g]
    BY <1>2, <1>4 DEF Open
  <2>3. ASSUME NEW g \in Readers, mode'[g] = "ro"
        PROVE  /\ dirRows'[g] <= dat'.rows
               /\ cache'[g][1].state = "open" => dirRows'[g] <= Len(cache'[g][1].cells)
    <3>1. CASE g = h
      BY <1>3, <2>1, <3>1
    <3>2. CASE g # h
      BY <1>2, <2>1, <2>2, <2>3, <3>2
    <3> QED
      BY <3>1, <3>2
  <2> QED
    BY <2>3
<1>5. ASSUME NEW h \in Process, NEW m \in Manager, LoadReader(h, m) PROVE ReadersReached'
  <2>1. UNCHANGED <<dat, mode, dirRows>> /\ cache' = [cache EXCEPT ![h][1] = OpenReader(1)]
    BY <1>1, <1>5 DEF LoadReader
  <2>2. OpenReader(1).state = "open" => dat.rows <= Len(OpenReader(1).cells)
    BY <1>2 DEF OpenReader, FileReachesDat
  <2>3. cache'[h][1] = OpenReader(1) /\ \A g \in Process \ {h} : cache'[g] = cache[g]
    BY <1>1, <1>2, <2>1
  <2>4. OpenReader(1).cells \in Rows
    BY <1>1, <1>2, OpenReaderType
  <2>5. Len(OpenReader(1).cells) \in Nat /\ dat.rows \in Nat /\ dirRows[h] \in Nat
    BY <1>2, <2>4 DEF Rows
  <2>6. ASSUME NEW g \in Readers, mode'[g] = "ro"
        PROVE  /\ dirRows'[g] <= dat'.rows
               /\ cache'[g][1].state = "open" => dirRows'[g] <= Len(cache'[g][1].cells)
    <3>1. CASE g = h
      BY <1>2, <2>1, <2>2, <2>3, <2>5, <2>6, <3>1
    <3>2. CASE g # h
      BY <1>2, <2>1, <2>3, <2>6, <3>2
    <3> QED
      BY <3>1, <3>2
  <2> QED
    BY <2>6
<1>6. ASSUME NEW h \in Process, Stop(h) PROVE ReadersReached'
  <2>1. dat' = dat /\ mode'[h] = "closed"
    BY <1>2, <1>6 DEF Stop
  <2>2. \A g \in Process \ {h} : /\ mode'[g] = mode[g] /\ dirRows'[g] = dirRows[g]
                                 /\ cache'[g] = cache[g]
    BY <1>2, <1>6 DEF Stop
  <2>3. ASSUME NEW g \in Readers, mode'[g] = "ro"
        PROVE  /\ dirRows'[g] <= dat'.rows
               /\ cache'[g][1].state = "open" => dirRows'[g] <= Len(cache'[g][1].cells)
    BY <1>2, <2>1, <2>2, <2>3
  <2> QED
    BY <2>3
<1>7. ASSUME NEW h \in Writers,
             \A g \in Process \ {h} : /\ mode'[g] = mode[g] /\ dirRows'[g] = dirRows[g]
                                      /\ cache'[g] = cache[g]
      PROVE  ReadersReached'
  <2>1. ASSUME NEW g \in Readers, mode'[g] = "ro"
        PROVE  /\ dirRows'[g] <= dat'.rows
               /\ cache'[g][1].state = "open" => dirRows'[g] <= Len(cache'[g][1].cells)
    <3>1. g \in Process /\ g # h
      BY <1>1
    <3>2. dat.rows \in Nat /\ dirRows[g] \in Nat
      BY <1>2, <3>1
    <3>3. mode[g] = "ro" /\ dirRows'[g] = dirRows[g] /\ cache'[g] = cache[g]
      BY <1>7, <2>1, <3>1
    <3> HIDE DEF TypeOK
    <3> QED
      BY <1>2, <1>3, <3>2, <3>3
  <2> QED
    BY <2>1
<1>8. ASSUME NEW h \in Writers,
             \/ CreateBegin(h) \/ OpenRw(h) \/ Flush(h) \/ Continue(h)
             \/ \E m \in Manager, r \in 1..MaxRows, v \in Val : WriteCell(h, m, r, v)
             \/ \E n \in 1..MaxRows : AddRow(h, n)
      PROVE  \A g \in Process \ {h} : /\ mode'[g] = mode[g] /\ dirRows'[g] = dirRows[g]
                                      /\ cache'[g] = cache[g]
  BY <1>2, <1>8
     DEF CreateBegin, OpenRw, Flush, AddRow, StartFlush, WriteCell, Continue, CreateDat,
         CreateData, CreateRead, CreateThrows, FlushData, FlushHeader, FlushDat, Rebuild,
         RebuildThrows
<1> QED
  BY <1>4, <1>5, <1>6, <1>7, <1>8 DEF GrowNext

\* With one writer that only adds rows to a table with one storage manager, a
\* Table that another process opens at any moment finds in the data file,
\* whenever it gets to read it, at least the rows that table.dat promised.
THEOREM OpenedRowsExistCorrect ==
    ASSUME Len(Managers) = 1, \A g, h \in Writers : g = h
    PROVE  GrowSpec => []OpenedRowsExist
<1>1. Init => GrowInv
  <2> SUFFICES ASSUME Init PROVE GrowInv
    OBVIOUS
  <2>1. WInv
    BY InitIInv DEF WInv, Init, ClosedHasNoWriter, WriterRowsMatchDir, RowsMatch, NoWriters, NoWriter
  <2>2. CallAt
    BY DEF Init, CallAt, CallOf, NoOp
  <2>3. NothingReadYet /\ WriterReachesDat /\ ReadersReached
    BY DEF Init, NothingReadYet, WriterReachesDat, ReadersReached, Unread, NoOp
  <2>4. FileReachesDat
    BY ManagerFacts DEF Init, FileReachesDat, Kinds
  <2> QED
    BY <2>1, <2>2, <2>3, <2>4 DEF GrowInv, RefInv
<1>2. GrowInv /\ [GrowNext]_vars => GrowInv'
  <2>1. GrowInv /\ GrowNext => GrowInv'
    BY NextIInv, ClosedStep, WriterRowsStep, CallStep, NothingReadStep, GrowStep, ReadersStep
       DEF GrowInv, RefInv, WInv, Next
  <2>2. GrowInv /\ UNCHANGED vars => GrowInv'
    BY NextIInv
       DEF GrowInv, RefInv, WInv, ClosedHasNoWriter, WriterRowsMatchDir, RowsMatch, CallAt,
           CallOf, Written, NothingReadYet, FileReachesDat, WriterReachesDat, ReadersReached, vars
  <2> QED
    BY <2>1, <2>2
<1>3. GrowInv => OpenedRowsExist
  <2> SUFFICES ASSUME GrowInv, NEW h \in Readers, NEW m \in Manager, mode[h] = "ro"
               PROVE  /\ cache[h][m].state = "open" => dirRows[h] <= Len(cache[h][m].cells)
                      /\ file[m].kind = Managers[m] => dirRows[h] <= Len(file[m].cells)
    BY DEF OpenedRowsExist
  <2>1. m = 1 /\ h \in Process /\ 1 \in Manager
    BY ManagerFacts
  <2>2. dirRows[h] \in Nat /\ dat.rows \in Nat /\ file[1].cells \in Rows
    BY <2>1 DEF GrowInv, RefInv, WInv, IInv, TypeOK
  <2>3. Len(file[1].cells) \in Nat
    BY <2>2 DEF Rows
  <2> QED
    BY <2>1, <2>2, <2>3 DEF GrowInv, ReadersReached, FileReachesDat
<1> QED
  BY <1>1, <1>2, <1>3, PTL DEF GrowSpec
=============================================================================
