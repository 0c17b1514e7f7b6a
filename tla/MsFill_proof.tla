---------------------------- MODULE MsFill_proof ----------------------------
(***************************************************************************)
(* Proofs about MsFill for every number of processes, subtables, names and *)
(* rows.                                                                   *)
(*                                                                         *)
(* The rows pending in the MsWriter lead; everything else follows them.    *)
(* The main table's data file is a beginning of its pending rows, and the  *)
(* rows it holds refer to rows that every readable subtable has            *)
(* (MainFileLeads, Holds); a main table that is open sees a beginning of   *)
(* that file (MainObjectsLead).  A subtable's files and its objects hold   *)
(* beginnings of its pending rows, some still blank (SubtablesFollow), and *)
(* a subtable opened after the main table has every row the main rows      *)
(* refer to (OpenedLater).  What lets a flush write the main table last is *)
(* that all tables before the one it has reached are whole (FlushFollows). *)
(***************************************************************************)
EXTENDS MsFill, SequenceTheorems, FiniteSetTheorems, TLAPS

\* The first n main rows refer to subtable rows that are pending, and that are
\* counted by each subtable's table.dat that can be read.
Holds(n) ==
    /\ n <= Len(pending[Main])
    /\ \A i \in 1..n, s \in Sub :
        /\ pending[Main][i][s] \in 1..Len(pending[s])
        /\ dat[s].state = "ok" => pending[Main][i][s] <= dat[s].rows

\* All pending rows of a table are on disk.
Whole(t) ==
    /\ data[t] = [state |-> "ok", rows |-> pending[t]]
    /\ dat[t] = [state |-> "ok", rows |-> Len(pending[t])]

\* The flush has written the tables before t that have pending rows.
EarlierWhole(t) ==
    \A k \in 1..Len(FlushOrder) : FlushOrder[k] = t =>
        \A j \in 1..(k - 1) : pending[FlushOrder[j]] # <<>> => Whole(FlushOrder[j])

InFlush == pc[Filler].step \notin {"idle", "rewrite"}

FlushFollows ==
    /\ pc[Filler].step \in {"remove", "createDat", "createData"} => pc[Filler].table \in Sub
    /\ InFlush => ForeignKeysValid /\ EarlierWhole(pc[Filler].table)
    /\ pc[Filler].step \in {"header", "dat"} =>
        data[pc[Filler].table] = [state |-> "ok", rows |-> pending[pc[Filler].table]]
    /\ pc[Filler].step = "createDat" => data[pc[Filler].table].state # "ok"

MainFileLeads ==
    /\ Holds(Len(data[Main].rows))
    /\ \A i \in 1..Len(data[Main].rows) : data[Main].rows[i] = pending[Main][i]
    /\ dat[Main].rows <= Len(data[Main].rows)

MainObjectsLead ==
    /\ ms[Filler][Main].open /\ ms[Filler][Main].nrow = 0
    /\ \A p \in Process :
        /\ ms[p][Main].nrow <= Len(data[Main].rows)
        /\ ms[p][Main].reader = "open" =>
            \A i \in 1..ms[p][Main].nrow :
                i <= Len(ms[p][Main].rows) /\ ms[p][Main].rows[i] = pending[Main][i]

\* The files of a subtable hold a beginning of its pending rows.
SubtableFollows(s) ==
    /\ dat[s].rows <= Len(pending[s])
    /\ Len(data[s].rows) <= Len(pending[s])
    /\ \A i \in 1..Len(data[s].rows) : data[s].rows[i] \in {Blank, pending[s][i]}
    /\ data[s].state = "ok" /\ dat[s].state = "ok" => dat[s].rows <= Len(data[s].rows)

\* So does what a process has of it.
ObjectFollows(p, s) ==
    /\ ms[p][s].nrow <= Len(pending[s])
    /\ data[s].state = "ok" => ms[p][s].nrow <= Len(data[s].rows)
    /\ ms[p][s].reader = "open" =>
        /\ ms[p][s].nrow <= Len(ms[p][s].rows)
        /\ Len(ms[p][s].rows) <= Len(pending[s])
        /\ \A i \in 1..Len(ms[p][s].rows) : ms[p][s].rows[i] \in {Blank, pending[s][i]}

SubtablesFollow ==
    \A s \in Sub : SubtableFollows(s) /\ \A p \in Process : ObjectFollows(p, s)

\* A subtable is opened after the main table, and has the rows main rows refer to.
OpenedLater ==
    \A p \in Process, s \in Sub :
        ms[p][s].open =>
            /\ ms[p][Main].open
            /\ \A i \in 1..ms[p][Main].nrow : pending[Main][i][s] \in 1..ms[p][s].nrow

FillInv ==
    /\ TypeOK /\ FlushFollows
    /\ MainFileLeads /\ MainObjectsLead
    /\ SubtablesFollow /\ OpenedLater

----------------------------------------------------------------------------
(* The order of flush().                                                   *)

\* Every table once, the main table last.
LEMMA Order ==
    /\ FlushOrder \in Seq(Tables)
    /\ Len(FlushOrder) \in Nat \ {0}
    /\ \A i \in 1..Len(FlushOrder) : FlushOrder[i] \in Tables
    /\ FlushOrder[Len(FlushOrder)] = Main
    /\ \A i \in 1..(Len(FlushOrder) - 1) : FlushOrder[i] \in Sub
    /\ \A t \in Tables : \E i \in 1..Len(FlushOrder) : FlushOrder[i] = t
    /\ \A i, j \in 1..Len(FlushOrder) : FlushOrder[i] = FlushOrder[j] => i = j
<1> DEFINE n == Len(Subtables)
           One == <<Main>>
<1>0. One \in Seq(Tables) /\ Len(One) = 1 /\ One[1] = Main
    BY DEF Tables
<1>1. Subtables \in Seq(Tables) /\ n \in Nat /\ DOMAIN Subtables = 1..n
    BY MsFillAssumption, LenProperties DEF Tables
<1>2. /\ FlushOrder \in Seq(Tables)
      /\ Len(FlushOrder) = n + 1
      /\ \A i \in 1..(n + 1) : FlushOrder[i] = IF i <= n THEN Subtables[i] ELSE One[i - n]
    <2> HIDE DEF One
    <2> QED BY <1>0, <1>1, ConcatProperties DEF FlushOrder, One
<1>3. FlushOrder[n + 1] = Main
    BY <1>0, <1>1, <1>2
<1>4. \A i \in 1..n : FlushOrder[i] = Subtables[i] /\ FlushOrder[i] \in Sub
    BY <1>1, <1>2 DEF Sub, Range
<1>5. \A t \in Sub : \E i \in 1..n : FlushOrder[i] = t
    BY <1>1, <1>4 DEF Sub, Range
<1>6. \A i, j \in 1..n : FlushOrder[i] = FlushOrder[j] => i = j
    BY <1>1, <1>4, MsFillAssumption DEF IsInjective
<1>7. \A i \in 1..n : FlushOrder[i] # Main
    BY <1>4, MsFillAssumption
<1> HIDE DEF n, One
<1>8. \A t \in Tables : \E i \in 1..(n + 1) : FlushOrder[i] = t
    BY <1>1, <1>3, <1>5 DEF Tables
<1>9. \A i, j \in 1..(n + 1) : FlushOrder[i] = FlushOrder[j] => i = j
    BY <1>1, <1>3, <1>6, <1>7
<1>10. \A i \in 1..(n + 1) : FlushOrder[i] \in Tables
    BY <1>2, ElementOfSeq
<1> QED BY <1>1, <1>2, <1>3, <1>4, <1>8, <1>9, <1>10

LEMMA OrderLength == Len(FlushOrder) \in Nat \ {0}
BY Order

LEMMA OrderMembers == \A i \in 1..Len(FlushOrder) : FlushOrder[i] \in Tables
BY Order

LEMMA OrderInjective ==
    \A i, j \in 1..Len(FlushOrder) : FlushOrder[i] = FlushOrder[j] => i = j
BY Order

\* A set of numbers that is not empty has a least member.
LEMMA MinIsLeast ==
    ASSUME NEW T \in SUBSET Nat, T # {}
    PROVE  Min(T) \in T /\ \A y \in T : Min(T) <= y
<1> DEFINE UpToNumber(k) == {j \in T : j <= k}
           Family == {UpToNumber(k) : k \in T}
<1>0. \A j \in T : j \in Nat
    OBVIOUS
<1>1. ASSUME NEW k \in T PROVE UpToNumber(k) \in FiniteSubsetsOf(Nat)
    <2>1. IsFiniteSet(0..k)
        BY FS_Interval
    <2>2. \A j \in T : j <= k => j \in 0..k
        BY <1>0
    <2>3. IsFiniteSet(UpToNumber(k))
        BY <2>1, <2>2, FS_Subset
    <2> QED BY <2>3 DEF FiniteSubsetsOf
<1>2. Family \subseteq FiniteSubsetsOf(Nat) /\ Family # {}
    BY <1>1
<1>3. IsWellFoundedOn(StrictSubsetOrdering(Nat), FiniteSubsetsOf(Nat))
    BY FS_StrictSubsetOrderingWellFounded
<1>4. \E x \in Family : \A y \in Family : <<y, x>> \notin StrictSubsetOrdering(Nat)
    <2> HIDE DEF Family
    <2> QED BY <1>2, <1>3, WFMin
<1>5. PICK k \in T : \A j \in T : <<UpToNumber(j), UpToNumber(k)>> \notin StrictSubsetOrdering(Nat)
    BY <1>4
<1>6. ASSUME NEW j \in T, j < k PROVE FALSE
    <2>0. /\ k <= k /\ ~(k <= j)
          /\ \A i \in T : i <= j => i <= k
        BY <1>0, <1>6
    <2>1. UpToNumber(j) \subseteq UpToNumber(k) /\ k \in UpToNumber(k) /\ k \notin UpToNumber(j)
        BY <2>0
    <2>2. UpToNumber(j) \in SUBSET Nat /\ UpToNumber(k) \in SUBSET Nat
        OBVIOUS
    <2> QED BY <1>5, <2>1, <2>2 DEF StrictSubsetOrdering
<1>7. \A j \in T : k <= j
    BY <1>0, <1>6
<1> QED BY <1>7 DEF Min

\* What flush() does next begins with the first of the tables that are left.
LEMMA StepsAreInOrder ==
    ASSUME NEW T \in SUBSET (1..Len(FlushOrder))
    PROVE  /\ T = {} => StepsFor(T) = Idle
           /\ T # {} => \E k \in T :
                /\ \A j \in T : k <= j
                /\ StepsFor(T) = [step |-> IF FlushOrder[k] = Main THEN "begin" ELSE "remove",
                                  table |-> FlushOrder[k]]
<1>1. T \in SUBSET Nat
    BY Order
<1>2. ASSUME T # {} PROVE Min(T) \in T /\ \A j \in T : Min(T) <= j
    BY <1>1, <1>2, MinIsLeast
<1> QED BY <1>2 DEF StepsFor

LEMMA PlaceInOrder ==
    ASSUME NEW t \in Tables
    PROVE  Place(t) \in 1..Len(FlushOrder) /\ FlushOrder[Place(t)] = t
<1>1. DOMAIN FlushOrder = 1..Len(FlushOrder)
    BY Order, LenProperties
<1> QED BY <1>1, Order DEF Place

\* A step of a flush ends the flush or begins a table that comes later.
LEMMA StepsTyped ==
    ASSUME NEW T \in SUBSET (1..Len(FlushOrder))
    PROVE  /\ StepsFor(T) \in [step : {"idle", "begin", "remove"}, table : Tables]
           /\ StepsFor(T).step = "remove" => StepsFor(T).table \in Sub
<1>1. CASE T = {}
    BY <1>1, StepsAreInOrder DEF Idle, Tables
<1>2. CASE T # {}
    <2>1. PICK k \in T : StepsFor(T) = [step |-> IF FlushOrder[k] = Main THEN "begin" ELSE "remove",
                                       table |-> FlushOrder[k]]
        BY <1>2, StepsAreInOrder
    <2>2. FlushOrder[k] \in Tables
        BY Order
    <2> QED BY <2>1, <2>2 DEF Tables
<1> QED BY <1>1, <1>2

\* What flush() still has to do is a set of places.
LEMMA ToFlushTyped ==
    ASSUME NEW i \in Nat \ {0}
    PROVE  ToFlush(i) \in SUBSET (1..Len(FlushOrder))
BY Order DEF ToFlush

LEMMA NextTyped ==
    ASSUME NEW t \in Tables
    PROVE  /\ NextTable(t) \in [step : {"idle", "begin", "remove"}, table : Tables]
           /\ NextTable(t).step = "remove" => NextTable(t).table \in Sub
<1>0. Place(t) \in 1..Len(FlushOrder)
    BY PlaceInOrder
<1>1. Place(t) + 1 \in Nat \ {0}
    BY <1>0, Order, SMTT(20)
<1>2. ToFlush(Place(t) + 1) \in SUBSET (1..Len(FlushOrder))
    BY <1>1, ToFlushTyped
<1> QED BY <1>2, StepsTyped DEF NextTable

----------------------------------------------------------------------------
(* Type correctness.                                                       *)

Steps == {"idle", "remove", "createDat", "createData", "begin", "data", "header", "dat", "rewrite"}

LEMMA Numbers == MaxRows \in Nat /\ 0 \in 0..MaxRows
BY MsFillAssumption

LEMMA EmptyRows == \A t \in Tables : <<>> \in UpTo(RowOf(t))
BY Numbers DEF UpTo

LEMMA TypeInit == Init => TypeOK
<1> SUFFICES ASSUME Init PROVE TypeOK
    OBVIOUS
<1>1. dat \in [Tables -> [state : State, rows : 0..MaxRows]]
    BY Numbers DEF Init, State
<1>2. DOMAIN data = Tables /\ \A t \in Tables : data[t] \in DataFile(t)
    BY EmptyRows DEF Init, DataFile, State
<1>3. Closed \in [open : BOOLEAN, nrow : 0..MaxRows, reader : {"unread"}, rows : {<<>>}]
      /\ Opened(0) \in [open : BOOLEAN, nrow : 0..MaxRows, reader : {"unread"}, rows : {<<>>}]
    BY Numbers DEF Closed, Opened
<1>4. \A t \in Tables : Closed \in TableObject(t) /\ Opened(0) \in TableObject(t)
    BY <1>3, EmptyRows DEF TableObject
<1>5. /\ DOMAIN ms = Process
      /\ \A p \in Process : DOMAIN ms[p] = Tables /\ \A t \in Tables : ms[p][t] \in TableObject(t)
    BY <1>4 DEF Init
<1>6. DOMAIN pending = Tables /\ \A t \in Tables : pending[t] \in UpTo(RowOf(t))
    BY EmptyRows DEF Init
<1>7. pc \in [Process -> [step : Steps, table : Tables]]
    BY DEF Init, Idle, Steps, Tables
<1> QED BY <1>1, <1>2, <1>5, <1>6, <1>7 DEF TypeOK, Steps

\* An action changes one table of one MeasurementSet object.
LEMMA OneObject ==
    ASSUME TypeOK, NEW p \in Process, NEW t \in Tables, NEW o, ms' = [ms EXCEPT ![p][t] = o]
    PROVE  /\ DOMAIN ms' = Process
           /\ \A q \in Process : DOMAIN ms'[q] = Tables
           /\ \A q \in Process, u \in Tables :
                ms'[q][u] = IF q = p /\ u = t THEN o ELSE ms[q][u]
BY DEF TypeOK

\* Or one data file.
LEMMA OneDataFile ==
    ASSUME TypeOK, NEW t \in Tables, NEW f, data' = [data EXCEPT ![t] = f]
    PROVE  /\ DOMAIN data' = Tables
           /\ \A u \in Tables : data'[u] = IF u = t THEN f ELSE data[u]
BY DEF TypeOK

\* Or what one table.dat says.
LEMMA OneDat ==
    ASSUME TypeOK, NEW t \in Tables, NEW d \in [state : State, rows : 0..MaxRows],
           dat' = [dat EXCEPT ![t] = d]
    PROVE  /\ dat' \in [Tables -> [state : State, rows : 0..MaxRows]]
           /\ \A u \in Tables : dat'[u] = IF u = t THEN d ELSE dat[u]
BY DEF TypeOK

\* The rows of a table are a sequence of at most MaxRows rows of it.
LEMMA RowsTyped ==
    ASSUME TypeOK, NEW t \in Tables
    PROVE  /\ pending[t] \in Seq(RowOf(t)) /\ Len(pending[t]) \in 0..MaxRows
           /\ DOMAIN pending[t] = 1..Len(pending[t])
           /\ data[t].rows \in Seq(RowOf(t)) /\ Len(data[t].rows) \in 0..MaxRows
           /\ data[t].state \in State /\ DOMAIN data[t] = {"state", "rows"}
           /\ dat[t].state \in State /\ dat[t].rows \in 0..MaxRows
<1>1. pending[t] \in UpTo(RowOf(t)) /\ data[t] \in DataFile(t)
    BY DEF TypeOK
<1>2. \A s \in UpTo(RowOf(t)) : s \in Seq(RowOf(t)) /\ Len(s) \in 0..MaxRows /\ DOMAIN s = 1..Len(s)
    BY Numbers, LenProperties DEF UpTo
<1>3. dat[t] \in [state : State, rows : 0..MaxRows]
    BY DEF TypeOK
<1> QED BY <1>1, <1>2, <1>3 DEF DataFile

PcType == [Process -> [step : Steps, table : Tables]]

PendingTyped == DOMAIN pending = Tables /\ \A t \in Tables : pending[t] \in UpTo(RowOf(t))

DatTyped == dat \in [Tables -> [state : State, rows : 0..MaxRows]]

DataTyped == DOMAIN data = Tables /\ \A t \in Tables : data[t] \in DataFile(t)

ObjectsTyped ==
    /\ DOMAIN ms = Process
    /\ \A p \in Process : DOMAIN ms[p] = Tables /\ \A t \in Tables : ms[p][t] \in TableObject(t)

LEMMA TypeParts ==
    TypeOK <=> DatTyped /\ DataTyped /\ ObjectsTyped /\ PendingTyped /\ pc \in PcType
BY DEF TypeOK, DatTyped, DataTyped, ObjectsTyped, PendingTyped, PcType, Steps

LEMMA TypePartsNext ==
    DatTyped' /\ DataTyped' /\ ObjectsTyped' /\ PendingTyped' /\ (pc \in PcType)' => TypeOK'
BY DEF TypeOK, DatTyped, DataTyped, ObjectsTyped, PendingTyped, PcType, Steps

LEMMA ObjectStep ==
    ASSUME TypeOK, NEW p \in Process, NEW t \in Tables, NEW o \in TableObject(t),
           ms' = [ms EXCEPT ![p][t] = o]
    PROVE  ObjectsTyped'
<1>1. \A q \in Process, u \in Tables : ms[q][u] \in TableObject(u)
    BY DEF TypeOK
<1>2. /\ DOMAIN ms' = Process /\ \A q \in Process : DOMAIN ms'[q] = Tables
      /\ \A q \in Process, u \in Tables : ms'[q][u] = IF q = p /\ u = t THEN o ELSE ms[q][u]
    BY OneObject
<1>3. \A q \in Process, u \in Tables : ms'[q][u] \in TableObject(u)
    BY <1>1, <1>2
<1> QED BY <1>2, <1>3 DEF ObjectsTyped, TableObject

LEMMA DataStep ==
    ASSUME TypeOK, NEW t \in Tables, NEW f \in DataFile(t), data' = [data EXCEPT ![t] = f]
    PROVE  DataTyped'
<1>1. \A u \in Tables : data[u] \in DataFile(u)
    BY DEF TypeOK
<1> QED BY <1>1, OneDataFile DEF DataTyped, DataFile

LEMMA DatStep ==
    ASSUME TypeOK, NEW t \in Tables, NEW d \in [state : State, rows : 0..MaxRows],
           dat' = [dat EXCEPT ![t] = d]
    PROVE  DatTyped'
BY OneDat DEF DatTyped

LEMMA PendingStep ==
    ASSUME TypeOK, NEW t \in Tables, NEW row \in RowOf(t), Room(t),
           pending' = [pending EXCEPT ![t] = Append(@, row)]
    PROVE  PendingTyped'
<1>0. Len(pending[t]) < MaxRows
    BY DEF Room
<1>1. pending[t] \in Seq(RowOf(t)) /\ Len(pending[t]) \in Nat
    BY RowsTyped, Numbers
<1>2. Append(pending[t], row) \in UpTo(RowOf(t))
    BY <1>0, <1>1, Numbers, AppendProperties DEF UpTo
<1> QED BY <1>2 DEF TypeOK, PendingTyped, UpTo, RowOf

LEMMA PcStep ==
    ASSUME TypeOK, NEW p \in Process, NEW c \in [step : Steps, table : Tables],
           pc' = [pc EXCEPT ![p] = c]
    PROVE  (pc \in PcType)'
BY DEF TypeOK, PcType, Steps

LEMMA StepStep ==
    ASSUME TypeOK, NEW c \in Steps, pc' = [pc EXCEPT ![Filler].step = c]
    PROVE  (pc \in PcType)'
BY DEF TypeOK, PcType, Steps, Process

\* No step spoils a type: blanks are written into subtables only.
LEMMA TypeNext == TypeOK /\ FlushFollows /\ [Next]_vars => TypeOK'
<1> SUFFICES ASSUME TypeOK, FlushFollows, [Next]_vars PROVE TypeOK'
    OBVIOUS
<1> USE DEF Process
<1>0. DatTyped /\ DataTyped /\ ObjectsTyped /\ PendingTyped /\ pc \in PcType
    BY TypeParts
<1>1. UNCHANGED dat => DatTyped'
    BY <1>0 DEF DatTyped, State
<1>2. UNCHANGED data => DataTyped'
    BY <1>0 DEF DataTyped, DataFile, State
<1>3. UNCHANGED ms => ObjectsTyped'
    BY <1>0 DEF ObjectsTyped, TableObject
<1>4. UNCHANGED pending => PendingTyped'
    BY <1>0 DEF PendingTyped, UpTo, RowOf
<1>5. UNCHANGED pc => (pc \in PcType)'
    BY <1>0 DEF PcType, Steps
<1>6. Idle \in [step : Steps, table : Tables]
    BY DEF Idle, Steps, Tables
<1>7. \A n \in 0..MaxRows : \A t \in Tables : Opened(n) \in TableObject(t) /\ Closed \in TableObject(t)
    BY EmptyRows, Numbers DEF Opened, Closed, TableObject
<1>8. \A t \in Tables : dat[t].rows \in 0..MaxRows /\ Len(pending[t]) \in 0..MaxRows
    BY RowsTyped
<1>9. \A s \in {"ok", "torn", "gone"}, n \in 0..MaxRows :
        [state |-> s, rows |-> n] \in [state : State, rows : 0..MaxRows]
    BY DEF State
<1>10. CASE \E t \in Sub, name \in Name : AddSubRow(t, name)
    <2>1. PICK t \in Sub, name \in Name : AddSubRow(t, name)
        BY <1>10
    <2>2. t \in Tables /\ name \in RowOf(t)
        BY MsFillAssumption DEF Tables, RowOf
    <2>3. PendingTyped'
        BY <2>1, <2>2, PendingStep DEF AddSubRow
    <2> QED BY <1>1, <1>2, <1>3, <1>5, <2>1, <2>3, TypePartsNext DEF AddSubRow
<1>11. CASE \E row \in MainRow : AddRow(row)
    <2>1. PICK row \in MainRow : AddRow(row)
        BY <1>11
    <2>2. Main \in Tables /\ row \in RowOf(Main)
        BY DEF Tables, RowOf
    <2>3. PendingTyped'
        BY <2>1, <2>2, PendingStep DEF AddRow
    <2> QED BY <1>1, <1>2, <1>3, <1>5, <2>1, <2>3, TypePartsNext DEF AddRow
<1>12. CASE Flush
    <2>1. ToFlush(1) \in SUBSET (1..Len(FlushOrder))
        BY ToFlushTyped
    <2>2. StepsFor(ToFlush(1)) \in [step : Steps, table : Tables]
        BY <2>1, StepsTyped DEF Steps
    <2>3. (pc \in PcType)'
        BY <1>12, <2>2, PcStep DEF Flush
    <2> QED BY <1>1, <1>2, <1>3, <1>4, <1>12, <2>3, TypePartsNext DEF Flush
<1>13. ASSUME NEW t \in Tables, RemoveTable(t) PROVE TypeOK'
    <2>1. ms' = [ms EXCEPT ![Filler][t] = IF @.open THEN @ ELSE Opened(dat[t].rows)]
        BY <1>13 DEF RemoveTable
    <2>2. (IF ms[Filler][t].open THEN ms[Filler][t] ELSE Opened(dat[t].rows)) \in TableObject(t)
        BY <1>0, <1>7, <1>8 DEF ObjectsTyped
    <2>3. ObjectsTyped'
        BY <2>1, <2>2, ObjectStep
    <2>4. DatTyped'
        BY <1>9, <1>13, Numbers, DatStep DEF RemoveTable
    <2>5. [state |-> "gone", rows |-> <<>>] \in DataFile(t)
        BY EmptyRows DEF DataFile, State
    <2>6. DataTyped'
        BY <1>13, <2>5, DataStep DEF RemoveTable
    <2>7. (pc \in PcType)'
        BY <1>13, StepStep DEF RemoveTable, Steps
    <2> QED BY <1>4, <1>13, <2>3, <2>4, <2>6, <2>7, TypePartsNext DEF RemoveTable
<1>14. ASSUME NEW t \in Tables, CreateDat(t) PROVE TypeOK'
    <2>1. DatTyped'
        BY <1>8, <1>9, <1>14, DatStep DEF CreateDat
    <2>2. (pc \in PcType)'
        BY <1>14, StepStep DEF CreateDat, Steps
    <2> QED BY <1>2, <1>3, <1>4, <1>14, <2>1, <2>2, TypePartsNext DEF CreateDat
<1>15. ASSUME NEW t \in Tables, CreateData(t) PROVE TypeOK'
    <2> DEFINE blanks == [i \in DOMAIN pending[t] |-> Blank]
    <2>1. t \in Sub /\ Blank \in RowOf(t)
        BY <1>15, MsFillAssumption DEF CreateData, FlushFollows, RowOf
    <2>2. /\ DOMAIN pending[t] = 1..Len(pending[t]) /\ Len(pending[t]) \in 0..MaxRows
        BY RowsTyped
    <2>3. blanks \in Seq(RowOf(t)) /\ Len(blanks) = Len(pending[t])
        BY <2>1, <2>2
    <2>4. [state |-> "ok", rows |-> blanks] \in DataFile(t)
        <3> HIDE DEF blanks
        <3> QED BY <2>2, <2>3, Numbers DEF DataFile, State, UpTo
    <2>5. DataTyped'
        BY <1>15, <2>4, DataStep DEF CreateData
    <2>6. (pc \in PcType)'
        BY <1>15, StepStep DEF CreateData, Steps
    <2> QED BY <1>1, <1>3, <1>4, <1>15, <2>5, <2>6, TypePartsNext DEF CreateData
<1>16. ASSUME NEW t \in Tables, FlushBegin(t) PROVE TypeOK'
    <2>1. data' = [data EXCEPT ![t] = [data[t] EXCEPT !.state = "torn"]]
        BY <1>16 DEF FlushBegin
    <2>2. [data[t] EXCEPT !.state = "torn"] \in DataFile(t)
        BY <1>0 DEF DataTyped, DataFile, State
    <2>3. DataTyped'
        BY <2>1, <2>2, DataStep
    <2>4. (pc \in PcType)'
        BY <1>16, StepStep DEF FlushBegin, Steps
    <2> QED BY <1>1, <1>3, <1>4, <1>16, <2>3, <2>4, TypePartsNext DEF FlushBegin
<1>17. ASSUME NEW t \in Tables, FlushData(t) PROVE TypeOK'
    <2>1. [state |-> "ok", rows |-> pending[t]] \in DataFile(t)
        BY <1>0 DEF PendingTyped, DataFile, State
    <2>2. DataTyped'
        BY <1>17, <2>1, DataStep DEF FlushData
    <2>3. (pc \in PcType)'
        BY <1>17, StepStep DEF FlushData, Steps
    <2> QED BY <1>1, <1>3, <1>4, <1>17, <2>2, <2>3, TypePartsNext DEF FlushData
<1>18. ASSUME NEW t \in Tables, FlushHeader(t) PROVE TypeOK'
    <2>1. dat' = [dat EXCEPT ![t] = [dat[t] EXCEPT !.state = "torn"]]
        BY <1>18 DEF FlushHeader
    <2>2. [dat[t] EXCEPT !.state = "torn"] \in [state : State, rows : 0..MaxRows]
        BY <1>0 DEF DatTyped, State
    <2>3. DatTyped'
        BY <2>1, <2>2, DatStep
    <2>4. (pc \in PcType)'
        BY <1>18, StepStep DEF FlushHeader, Steps
    <2> QED BY <1>2, <1>3, <1>4, <1>18, <2>3, <2>4, TypePartsNext DEF FlushHeader
<1>19. ASSUME NEW t \in Tables, FlushDat(t) PROVE TypeOK'
    <2>1. DatTyped'
        BY <1>8, <1>9, <1>19, DatStep DEF FlushDat
    <2>2. NextTable(t) \in [step : Steps, table : Tables]
        BY NextTyped DEF Steps
    <2>3. (pc \in PcType)'
        BY <1>19, <2>2, PcStep DEF FlushDat
    <2> QED BY <1>2, <1>3, <1>4, <1>19, <2>1, <2>3, TypePartsNext DEF FlushDat
<1>20. CASE \E t \in Tables : FlushStep(t)
    BY <1>13, <1>14, <1>15, <1>16, <1>17, <1>18, <1>19, <1>20 DEF FlushStep
<1>21. ASSUME NEW p \in Process, OpenMs(p) PROVE TypeOK'
    <2>1. Main \in Tables
        BY DEF Tables
    <2>2. ObjectsTyped'
        BY <1>7, <1>8, <1>21, <2>1, ObjectStep DEF OpenMs
    <2> QED BY <1>1, <1>2, <1>4, <1>5, <1>21, <2>2, TypePartsNext DEF OpenMs
<1>22. ASSUME NEW p \in Process, NEW s \in Sub, OpenSubtable(p, s) PROVE TypeOK'
    <2>1. s \in Tables
        BY DEF Tables
    <2>2. ObjectsTyped'
        BY <1>7, <1>8, <1>22, <2>1, ObjectStep DEF OpenSubtable
    <2> QED BY <1>1, <1>2, <1>4, <1>5, <1>22, <2>2, TypePartsNext DEF OpenSubtable
<1>23. ASSUME NEW p \in Process, NEW t \in Tables, LoadReader(p, t) PROVE TypeOK'
    <2> DEFINE o == IF data[t].state = "ok"
                    THEN [ms[p][t] EXCEPT !.reader = "open", !.rows = data[t].rows]
                    ELSE [ms[p][t] EXCEPT !.reader = "failed"]
    <2>1. ms[p][t] \in TableObject(t) /\ data[t].rows \in UpTo(RowOf(t))
        BY <1>0 DEF ObjectsTyped, DataTyped, DataFile
    <2>2. o \in TableObject(t)
        BY <2>1 DEF TableObject
    <2>3. ms' = [ms EXCEPT ![p][t] = o]
        BY <1>23 DEF LoadReader
    <2>4. ObjectsTyped'
        <3> HIDE DEF o
        <3> QED BY <2>2, <2>3, ObjectStep
    <2> QED BY <1>1, <1>2, <1>4, <1>5, <1>23, <2>4, TypePartsNext DEF LoadReader
<1>24. ASSUME NEW p \in Process, FlushMs(p) PROVE TypeOK'
    <2>1. Main \in Tables /\ dat' = [dat EXCEPT ![Main] = [dat[Main] EXCEPT !.state = "torn"]]
        BY <1>24 DEF FlushMs, Tables
    <2>2. [dat[Main] EXCEPT !.state = "torn"] \in [state : State, rows : 0..MaxRows]
        BY <1>0, <2>1 DEF DatTyped, State
    <2>3. DatTyped'
        BY <2>1, <2>2, DatStep
    <2>4. [step |-> "rewrite", table |-> Main] \in [step : Steps, table : Tables]
        BY <2>1 DEF Steps
    <2>5. (pc \in PcType)'
        BY <1>24, <2>4, PcStep DEF FlushMs
    <2> QED BY <1>2, <1>3, <1>4, <1>24, <2>3, <2>5, TypePartsNext DEF FlushMs
<1>25. ASSUME NEW p \in Process, RewriteDat(p) PROVE TypeOK'
    <2>1. Main \in Tables /\ ms[p][Main].nrow \in 0..MaxRows
        BY <1>0 DEF ObjectsTyped, TableObject, Tables
    <2>2. DatTyped'
        BY <1>9, <1>25, <2>1, DatStep DEF RewriteDat
    <2>3. (pc \in PcType)'
        BY <1>6, <1>25, PcStep DEF RewriteDat
    <2> QED BY <1>2, <1>3, <1>4, <1>25, <2>2, <2>3, TypePartsNext DEF RewriteDat
<1>26. ASSUME NEW p \in Process, Close(p) PROVE TypeOK'
    <2>1. \A t \in Tables : Closed \in TableObject(t)
        BY <1>7, Numbers
    <2>2. ms' = [ms EXCEPT ![p] = [t \in Tables |-> Closed]]
        BY <1>26 DEF Close
    <2>3. /\ DOMAIN ms' = Process
          /\ \A q \in Process : DOMAIN ms'[q] = Tables /\ \A t \in Tables : ms'[q][t] \in TableObject(t)
        BY <1>0, <2>1, <2>2 DEF ObjectsTyped
    <2>4. ObjectsTyped'
        BY <2>3 DEF ObjectsTyped, TableObject
    <2> QED BY <1>1, <1>2, <1>4, <1>5, <1>26, <2>4, TypePartsNext DEF Close
<1>27. CASE UNCHANGED vars
    BY <1>1, <1>2, <1>3, <1>4, <1>5, <1>27, TypePartsNext DEF vars
<1> QED
    BY <1>10, <1>11, <1>12, <1>20, <1>21, <1>22, <1>23, <1>24, <1>25, <1>26, <1>27 DEF Next

----------------------------------------------------------------------------
(* The flush.                                                              *)

LEMMA StepMoves ==
    ASSUME TypeOK, NEW c, pc' = [pc EXCEPT ![Filler].step = c]
    PROVE  pc'[Filler] = [step |-> c, table |-> pc[Filler].table]
BY DEF TypeOK, Process

\* All tables between two that a flush writes one after the other have no
\* pending rows.
LEMMA NextInOrder ==
    ASSUME NEW i \in Nat \ {0}
    PROVE  \/ /\ StepsFor(ToFlush(i)) = Idle
              /\ \A j \in i..Len(FlushOrder) : pending[FlushOrder[j]] = <<>>
           \/ \E k \in i..Len(FlushOrder) :
                /\ StepsFor(ToFlush(i)) =
                    [step |-> IF FlushOrder[k] = Main THEN "begin" ELSE "remove",
                     table |-> FlushOrder[k]]
                /\ \A j \in i..(k - 1) : pending[FlushOrder[j]] = <<>>
<1>1. ToFlush(i) \in SUBSET (1..Len(FlushOrder))
    BY ToFlushTyped
<1>2. \A j \in i..Len(FlushOrder) : j \notin ToFlush(i) => pending[FlushOrder[j]] = <<>>
    BY DEF ToFlush
<1>3. CASE ToFlush(i) = {}
    BY <1>1, <1>2, <1>3, StepsAreInOrder
<1>4. CASE ToFlush(i) # {}
    <2>1. PICK k \in ToFlush(i) :
            /\ \A j \in ToFlush(i) : k <= j
            /\ StepsFor(ToFlush(i)) =
                [step |-> IF FlushOrder[k] = Main THEN "begin" ELSE "remove",
                 table |-> FlushOrder[k]]
        BY <1>1, <1>4, StepsAreInOrder
    <2>2. k \in i..Len(FlushOrder)
        BY DEF ToFlush
    <2>3. \A j \in i..(k - 1) : j \in i..Len(FlushOrder) /\ j \notin ToFlush(i)
        BY <2>1, <2>2, OrderLength
    <2> QED BY <1>2, <2>1, <2>2, <2>3
<1> QED BY <1>3, <1>4

\* A step of the flush changes the files of the table it has reached only.
LEMMA FlushMoves ==
    ASSUME TypeOK, FlushFollows, InFlush, UNCHANGED pending,
           NEW t \in Tables, pc[Filler].table = t,
           \A u \in Tables \ {t} : data'[u] = data[u] /\ dat'[u] = dat[u],
           NEW c \in Steps \ {"idle", "rewrite"}, pc'[Filler] = [step |-> c, table |-> t],
           c \in {"remove", "createDat", "createData"} => t \in Sub,
           c \in {"header", "dat"} => data'[t] = [state |-> "ok", rows |-> pending[t]],
           c = "createDat" => data'[t].state # "ok"
    PROVE  FlushFollows'
<1>1. ForeignKeysValid /\ EarlierWhole(t)
    BY DEF FlushFollows
<1>2. ForeignKeysValid'
    BY <1>1 DEF ForeignKeysValid
<1>3. ASSUME NEW k \in 1..Len(FlushOrder), FlushOrder[k] = t, NEW j \in 1..(k - 1),
             pending[FlushOrder[j]] # <<>>
      PROVE  Whole(FlushOrder[j])'
    <2>1. Whole(FlushOrder[j])
        BY <1>1, <1>3 DEF EarlierWhole
    <2>2. j \in 1..Len(FlushOrder) /\ j # k
        BY OrderLength
    <2>3. FlushOrder[j] \in Tables
        BY <2>2, OrderMembers
    <2>4. FlushOrder[j] # t
        BY <1>3, <2>2, OrderInjective
    <2> QED BY <2>1, <2>3, <2>4 DEF Whole
<1>4. EarlierWhole(t)'
    BY <1>3 DEF EarlierWhole
<1> QED BY <1>2, <1>4 DEF FlushFollows, InFlush

\* What others do to the main table's table.dat is nothing to the flush.
LEMMA OthersDoNotMatter ==
    ASSUME FlushFollows, UNCHANGED <<data, pending>>, pc'[Filler] = pc[Filler],
           \A s \in Sub : dat'[s] = dat[s]
    PROVE  FlushFollows'
<1>1. ForeignKeysValid' = ForeignKeysValid
    BY DEF ForeignKeysValid
<1>2. ASSUME NEW t, EarlierWhole(t) PROVE EarlierWhole(t)'
    <2>1. \A k \in 1..Len(FlushOrder) : \A j \in 1..(k - 1) : FlushOrder[j] \in Sub
        BY Order
    <2> QED BY <1>2, <2>1 DEF EarlierWhole, Whole
<1> QED BY <1>1, <1>2 DEF FlushFollows, InFlush

\* A flush goes from table to table in order and leaves none out.
LEMMA FlushNext == TypeOK /\ FlushFollows /\ [Next]_vars => FlushFollows'
<1> SUFFICES ASSUME TypeOK, FlushFollows, [Next]_vars PROVE FlushFollows'
    OBVIOUS
<1>1. Filler \in Process /\ Main \in Tables /\ Main \notin Sub /\ Sub \subseteq Tables
    BY MsFillAssumption DEF Process, Tables
<1>2. ASSUME UNCHANGED <<dat, data, pending, pc>> PROVE FlushFollows'
    BY <1>2, OthersDoNotMatter
<1>3. ASSUME pc'[Filler].step \in {"idle", "rewrite"} PROVE FlushFollows'
    BY <1>3 DEF FlushFollows, InFlush
<1>4. ASSUME pc[Filler] = Idle, UNCHANGED pc PROVE FlushFollows'
    BY <1>3, <1>4 DEF Idle
<1>5. CASE \E t \in Sub, name \in Name : AddSubRow(t, name)
    BY <1>4, <1>5 DEF AddSubRow
<1>6. CASE \E row \in MainRow : AddRow(row)
    BY <1>4, <1>6 DEF AddRow
<1>7. CASE Flush
    <2>1. ForeignKeysValid /\ UNCHANGED <<dat, data, pending>>
        BY <1>7 DEF Flush
    <2>2. pc'[Filler] = StepsFor(ToFlush(1))
        BY <1>1, <1>7 DEF Flush, TypeOK
    <2>3. CASE StepsFor(ToFlush(1)) = Idle
        BY <1>3, <2>2, <2>3 DEF Idle
    <2>4. CASE \E k \in 1..Len(FlushOrder) :
                /\ StepsFor(ToFlush(1)) =
                    [step |-> IF FlushOrder[k] = Main THEN "begin" ELSE "remove",
                     table |-> FlushOrder[k]]
                /\ \A j \in 1..(k - 1) : pending[FlushOrder[j]] = <<>>
        <3>1. PICK k \in 1..Len(FlushOrder) :
                /\ pc'[Filler] = [step |-> IF FlushOrder[k] = Main THEN "begin" ELSE "remove",
                                  table |-> FlushOrder[k]]
                /\ \A j \in 1..(k - 1) : pending[FlushOrder[j]] = <<>>
            BY <2>2, <2>4
        <3>2. FlushOrder[k] \in Tables
            BY Order
        <3>3. \A i \in 1..Len(FlushOrder) : FlushOrder[i] = FlushOrder[k] => i = k
            BY Order
        <3>4. EarlierWhole(FlushOrder[k])'
            BY <2>1, <3>1, <3>3 DEF EarlierWhole
        <3>5. ForeignKeysValid'
            BY <2>1 DEF ForeignKeysValid
        <3> QED BY <3>1, <3>2, <3>4, <3>5 DEF FlushFollows, InFlush, Tables
    <2> QED BY <2>3, <2>4, NextInOrder
<1>8. ASSUME NEW t \in Tables, RemoveTable(t) PROVE FlushFollows'
    <2>1. pc[Filler].step = "remove" /\ pc[Filler].table = t /\ InFlush /\ UNCHANGED pending
        BY <1>8 DEF RemoveTable, InFlush
    <2>2. /\ \A u \in Tables \ {t} : data'[u] = data[u] /\ dat'[u] = dat[u]
          /\ data'[t].state = "gone"
        BY <1>8 DEF RemoveTable, TypeOK
    <2>3. pc'[Filler] = [step |-> "createDat", table |-> t]
        BY <1>8, <2>1, StepMoves DEF RemoveTable
    <2>4. t \in Sub
        BY <2>1 DEF FlushFollows
    <2> QED BY <2>1, <2>2, <2>3, <2>4, FlushMoves DEF Steps
<1>9. ASSUME NEW t \in Tables, CreateDat(t) PROVE FlushFollows'
    <2>1. pc[Filler].step = "createDat" /\ pc[Filler].table = t /\ InFlush /\ UNCHANGED pending
        BY <1>9 DEF CreateDat, InFlush
    <2>2. \A u \in Tables \ {t} : data'[u] = data[u] /\ dat'[u] = dat[u]
        BY <1>9 DEF CreateDat, TypeOK
    <2>3. pc'[Filler] = [step |-> "createData", table |-> t]
        BY <1>9, <2>1, StepMoves DEF CreateDat
    <2>4. t \in Sub
        BY <2>1 DEF FlushFollows
    <2> QED BY <2>1, <2>2, <2>3, <2>4, FlushMoves DEF Steps
<1>10. ASSUME NEW t \in Tables, CreateData(t) PROVE FlushFollows'
    <2>1. pc[Filler].step = "createData" /\ pc[Filler].table = t /\ InFlush /\ UNCHANGED pending
        BY <1>10 DEF CreateData, InFlush
    <2>2. \A u \in Tables \ {t} : data'[u] = data[u] /\ dat'[u] = dat[u]
        BY <1>10 DEF CreateData, TypeOK
    <2>3. pc'[Filler] = [step |-> "begin", table |-> t]
        BY <1>10, <2>1, StepMoves DEF CreateData
    <2> QED BY <2>1, <2>2, <2>3, FlushMoves DEF Steps
<1>11. ASSUME NEW t \in Tables, FlushBegin(t) PROVE FlushFollows'
    <2>1. pc[Filler].step = "begin" /\ pc[Filler].table = t /\ InFlush /\ UNCHANGED pending
        BY <1>11 DEF FlushBegin, InFlush
    <2>2. \A u \in Tables \ {t} : data'[u] = data[u] /\ dat'[u] = dat[u]
        BY <1>11 DEF FlushBegin, TypeOK
    <2>3. pc'[Filler] = [step |-> "data", table |-> t]
        BY <1>11, <2>1, StepMoves DEF FlushBegin
    <2> QED BY <2>1, <2>2, <2>3, FlushMoves DEF Steps
<1>12. ASSUME NEW t \in Tables, FlushData(t) PROVE FlushFollows'
    <2>1. pc[Filler].step = "data" /\ pc[Filler].table = t /\ InFlush /\ UNCHANGED pending
        BY <1>12 DEF FlushData, InFlush
    <2>2. /\ \A u \in Tables \ {t} : data'[u] = data[u] /\ dat'[u] = dat[u]
          /\ data'[t] = [state |-> "ok", rows |-> pending[t]]
        BY <1>12 DEF FlushData, TypeOK
    <2>3. pc'[Filler] = [step |-> "header", table |-> t]
        BY <1>12, <2>1, StepMoves DEF FlushData
    <2> QED BY <2>1, <2>2, <2>3, FlushMoves DEF Steps
<1>13. ASSUME NEW t \in Tables, FlushHeader(t) PROVE FlushFollows'
    <2>1. pc[Filler].step = "header" /\ pc[Filler].table = t /\ InFlush /\ UNCHANGED pending
        BY <1>13 DEF FlushHeader, InFlush
    <2>2. /\ \A u \in Tables \ {t} : data'[u] = data[u] /\ dat'[u] = dat[u]
          /\ data' = data
        BY <1>13 DEF FlushHeader, TypeOK
    <2>3. pc'[Filler] = [step |-> "dat", table |-> t]
        BY <1>13, <2>1, StepMoves DEF FlushHeader
    <2>4. data'[t] = [state |-> "ok", rows |-> pending[t]]
        BY <2>1, <2>2 DEF FlushFollows
    <2> QED BY <2>1, <2>2, <2>3, <2>4, FlushMoves DEF Steps
<1>14. ASSUME NEW t \in Tables, FlushDat(t) PROVE FlushFollows'
    <2> DEFINE n == Place(t)
    <2>1. /\ pc[Filler].step = "dat" /\ pc[Filler].table = t /\ InFlush
          /\ UNCHANGED <<data, pending>>
        BY <1>14 DEF FlushDat, InFlush
    <2>0. n \in 1..Len(FlushOrder) /\ FlushOrder[n] = t
        BY PlaceInOrder
    <2> HIDE DEF n
    <2>2. /\ n \in 1..Len(FlushOrder) /\ FlushOrder[n] = t
          /\ n + 1 \in Nat \ {0} /\ n \in Nat
        BY <2>0, Order
    <2>3. pc'[Filler] = StepsFor(ToFlush(n + 1))
        BY <1>1, <1>14 DEF FlushDat, NextTable, TypeOK, n
    <2>4. Whole(t)' /\ \A u \in Tables \ {t} : dat'[u] = dat[u]
        BY <1>14, <2>1 DEF FlushDat, FlushFollows, Whole, TypeOK
    <2>5. ForeignKeysValid' /\ EarlierWhole(t)
        BY <2>1 DEF FlushFollows, ForeignKeysValid
    <2>6. \A j \in 1..Len(FlushOrder) : FlushOrder[j] \in Tables
        BY Order
    <2>7. \A j \in 1..n : pending[FlushOrder[j]] # <<>> => Whole(FlushOrder[j])'
        <3> SUFFICES ASSUME NEW j \in 1..n, pending[FlushOrder[j]] # <<>>
                     PROVE  Whole(FlushOrder[j])'
            OBVIOUS
        <3>1. CASE j = n
            BY <2>2, <2>4, <3>1
        <3>2. CASE j \in 1..(n - 1)
            <4>1. Whole(FlushOrder[j])
                BY <2>2, <2>5, <3>2 DEF EarlierWhole
            <4>2. j \in 1..Len(FlushOrder) /\ j # n
                BY <2>2, <3>2, OrderLength
            <4>3. FlushOrder[j] \in Tables
                BY <2>6, <4>2
            <4>4. FlushOrder[j] # t
                BY <2>2, <4>2, OrderInjective
            <4> QED BY <2>1, <2>4, <4>1, <4>3, <4>4 DEF Whole
        <3> QED BY <2>2, <3>1, <3>2
    <2>8. CASE StepsFor(ToFlush(n + 1)) = Idle
        BY <1>3, <2>3, <2>8 DEF Idle
    <2>9. CASE \E k \in (n + 1)..Len(FlushOrder) :
                /\ StepsFor(ToFlush(n + 1)) =
                    [step |-> IF FlushOrder[k] = Main THEN "begin" ELSE "remove",
                     table |-> FlushOrder[k]]
                /\ \A j \in (n + 1)..(k - 1) : pending[FlushOrder[j]] = <<>>
        <3>1. PICK k \in (n + 1)..Len(FlushOrder) :
                /\ pc'[Filler] = [step |-> IF FlushOrder[k] = Main THEN "begin" ELSE "remove",
                                  table |-> FlushOrder[k]]
                /\ \A j \in (n + 1)..(k - 1) : pending[FlushOrder[j]] = <<>>
            BY <2>3, <2>9
        <3>2. k \in 1..Len(FlushOrder) /\ k \in Nat
            BY <2>2, Order
        <3>3. FlushOrder[k] \in Tables
            BY <2>6, <3>2
        <3>4. \A i \in 1..Len(FlushOrder) : FlushOrder[i] = FlushOrder[k] => i = k
            BY <3>2, Order
        <3>5. \A j \in 1..(k - 1) : pending[FlushOrder[j]] # <<>> => Whole(FlushOrder[j])'
            <4>1. \A j \in 1..(k - 1) : j \in 1..n \/ j \in (n + 1)..(k - 1)
                BY <2>2, <3>2
            <4> QED BY <2>7, <3>1, <4>1
        <3>6. EarlierWhole(FlushOrder[k])'
            BY <2>1, <3>4, <3>5 DEF EarlierWhole
        <3> QED BY <2>5, <3>1, <3>3, <3>6 DEF FlushFollows, InFlush, Tables
    <2>10. \/ StepsFor(ToFlush(n + 1)) = Idle
           \/ \E k \in (n + 1)..Len(FlushOrder) :
                /\ StepsFor(ToFlush(n + 1)) =
                    [step |-> IF FlushOrder[k] = Main THEN "begin" ELSE "remove",
                     table |-> FlushOrder[k]]
                /\ \A j \in (n + 1)..(k - 1) : pending[FlushOrder[j]] = <<>>
        BY <2>2, NextInOrder
    <2> QED BY <2>8, <2>9, <2>10
<1>15. CASE \E t \in Tables : FlushStep(t)
    BY <1>8, <1>9, <1>10, <1>11, <1>12, <1>13, <1>14, <1>15 DEF FlushStep
<1>16. ASSUME NEW p \in Process, FlushMs(p) \/ RewriteDat(p) PROVE FlushFollows'
    <2>1. UNCHANGED <<data, pending>> /\ \A s \in Sub : dat'[s] = dat[s]
        BY <1>1, <1>16 DEF FlushMs, RewriteDat, TypeOK
    <2>2. CASE p = Filler
        <3>1. pc'[Filler].step \in {"idle", "rewrite"}
            BY <1>1, <1>16, <2>2 DEF FlushMs, RewriteDat, TypeOK, Idle
        <3> QED BY <1>3, <3>1
    <2>3. CASE p # Filler
        <3>1. pc'[Filler] = pc[Filler]
            BY <1>1, <1>16, <2>3 DEF FlushMs, RewriteDat, TypeOK
        <3> QED BY <2>1, <3>1, OthersDoNotMatter
    <2> QED BY <2>2, <2>3
<1>17. CASE \E p \in Process : \/ OpenMs(p)
                               \/ \E s \in Sub : OpenSubtable(p, s)
                               \/ \E t \in Tables : LoadReader(p, t)
                               \/ Close(p)
    BY <1>2, <1>17 DEF OpenMs, OpenSubtable, LoadReader, Close
<1>18. CASE UNCHANGED vars
    BY <1>2, <1>18 DEF vars
<1> QED
    BY <1>5, <1>6, <1>7, <1>15, <1>16, <1>17, <1>18 DEF Next

----------------------------------------------------------------------------
(* What the files and objects hold.                                        *)

\* Rows are only ever added to the writer.
PendingGrows ==
    \A t \in Tables :
        /\ Len(pending[t]) <= Len(pending'[t])
        /\ \A i \in 1..Len(pending[t]) : pending'[t][i] = pending[t][i]

LEMMA AppendGrows ==
    ASSUME TypeOK, NEW t \in Tables, NEW row \in RowOf(t),
           pending' = [pending EXCEPT ![t] = Append(@, row)]
    PROVE  PendingGrows
<1>1. \A u \in Tables : pending'[u] = IF u = t THEN Append(pending[t], row) ELSE pending[u]
    BY DEF TypeOK
<1>2. pending[t] \in Seq(RowOf(t)) /\ Len(pending[t]) \in Nat
    BY RowsTyped, Numbers
<1>3. /\ Len(pending[t]) <= Len(Append(pending[t], row))
      /\ \A i \in 1..Len(pending[t]) : Append(pending[t], row)[i] = pending[t][i]
    BY <1>2, AppendProperties
<1>4. \A u \in Tables : Len(pending[u]) <= Len(pending[u])
    BY RowsTyped, Numbers
<1> QED BY <1>1, <1>3, <1>4 DEF PendingGrows

LEMMA PendingStays == ASSUME TypeOK, UNCHANGED pending PROVE PendingGrows
<1>1. \A u \in Tables : Len(pending[u]) <= Len(pending[u])
    BY RowsTyped, Numbers
<1> QED BY <1>1 DEF PendingGrows

LEMMA PendingNext == TypeOK /\ [Next]_vars => PendingGrows
<1> SUFFICES ASSUME TypeOK, [Next]_vars PROVE PendingGrows
    OBVIOUS
<1>1. CASE \E t \in Sub, name \in Name : AddSubRow(t, name)
    <2>1. PICK t \in Sub, name \in Name : AddSubRow(t, name)
        BY <1>1
    <2>2. t \in Tables /\ name \in RowOf(t)
        BY MsFillAssumption DEF Tables, RowOf
    <2> QED BY <2>1, <2>2, AppendGrows DEF AddSubRow
<1>2. CASE \E row \in MainRow : AddRow(row)
    <2>1. PICK row \in MainRow : AddRow(row)
        BY <1>2
    <2>2. Main \in Tables /\ row \in RowOf(Main)
        BY DEF Tables, RowOf
    <2> QED BY <2>1, <2>2, AppendGrows DEF AddRow
<1>3. CASE UNCHANGED pending
    BY <1>3, PendingStays
<1> QED
    BY <1>1, <1>2, <1>3 DEF Next, vars, Flush, FlushStep, RemoveTable, CreateDat, CreateData,
        FlushBegin, FlushData, FlushHeader, FlushDat, OpenMs, OpenSubtable, LoadReader, FlushMs,
        RewriteDat, Close

\* Rows that refer to rows there are keep doing so while subtables have the rows
\* they had, are being written or have all that are pending.
LEMMA HoldsStays ==
    ASSUME TypeOK, PendingGrows, NEW n \in Nat, Holds(n), TypeOK',
           \A s \in Sub : dat'[s].state = "ok" => dat'[s] = dat[s] \/ dat'[s].rows = Len(pending[s])
    PROVE  Holds(n)'
<1>1. Sub \subseteq Tables /\ Main \in Tables
    BY DEF Tables
<1>2. \A t \in Tables : Len(pending[t]) \in Nat /\ Len(pending'[t]) \in Nat /\ dat[t].rows \in Nat
    <2>1. \A t \in Tables : Len(pending[t]) \in Nat /\ dat[t].rows \in Nat
        BY RowsTyped, Numbers
    <2>2. (\A t \in Tables : Len(pending[t]) \in 0..MaxRows)'
        <3>1. \A t \in Tables : pending'[t] \in UpTo(RowOf(t))
            BY DEF TypeOK, UpTo, RowOf
        <3> QED BY <3>1, Numbers DEF UpTo
    <2> QED BY <2>1, <2>2, Numbers
<1>3. n <= Len(pending'[Main])
    BY <1>1, <1>2 DEF Holds, PendingGrows
<1>4. ASSUME NEW i \in 1..n, NEW s \in Sub
      PROVE  /\ pending'[Main][i][s] \in 1..Len(pending'[s])
             /\ dat'[s].state = "ok" => pending'[Main][i][s] <= dat'[s].rows
    <2>1. /\ pending[Main][i][s] \in 1..Len(pending[s]) /\ i \in 1..Len(pending[Main])
          /\ dat[s].state = "ok" => pending[Main][i][s] <= dat[s].rows
        BY <1>1, <1>2 DEF Holds
    <2>2. pending'[Main][i][s] = pending[Main][i][s]
        BY <1>1, <2>1 DEF PendingGrows
    <2>3. Len(pending[s]) <= Len(pending'[s])
        BY <1>1 DEF PendingGrows
    <2> QED BY <1>1, <1>2, <2>1, <2>2, <2>3
<1> QED BY <1>3, <1>4 DEF Holds

LEMMA Lengths ==
    ASSUME TypeOK
    PROVE  /\ \A t \in Tables : /\ Len(pending[t]) \in Nat /\ Len(data[t].rows) \in Nat
                               /\ dat[t].rows \in Nat
           /\ \A p \in Process, t \in Tables :
                /\ ms[p][t].nrow \in Nat /\ Len(ms[p][t].rows) \in Nat
<1>1. \A t \in Tables : /\ Len(pending[t]) \in 0..MaxRows /\ Len(data[t].rows) \in 0..MaxRows
                        /\ dat[t].rows \in 0..MaxRows
    BY RowsTyped
<1>2. \A t \in Tables : \A s \in UpTo(RowOf(t)) : Len(s) \in Nat
    BY LenProperties DEF UpTo
<1>3. \A p \in Process, t \in Tables :
        ms[p][t].nrow \in 0..MaxRows /\ ms[p][t].rows \in UpTo(RowOf(t))
    BY DEF TypeOK, TableObject
<1> QED BY <1>1, <1>2, <1>3, Numbers

LEMMA KnownTables ==
    /\ Main \in Tables /\ Sub \subseteq Tables /\ Filler \in Process /\ Openers \subseteq Process
    /\ \A s \in Sub : s # Main
    /\ \A t \in Tables : t = Main \/ t \in Sub
BY MsFillAssumption DEF Tables, Process

\* A subtable's table.dat is kept, or unreadable, or says all pending rows.
LEMMA SubDatNext ==
    ASSUME TypeOK, [Next]_vars
    PROVE  \A s \in Sub : dat'[s].state = "ok" => dat'[s] = dat[s] \/ dat'[s].rows = Len(pending[s])
<1> USE KnownTables
<1>1. ASSUME NEW t \in Tables, FlushStep(t), NEW s \in Sub, dat'[s].state = "ok"
      PROVE  dat'[s] = dat[s] \/ dat'[s].rows = Len(pending[s])
    BY <1>1 DEF TypeOK, FlushStep, RemoveTable, CreateDat, CreateData, FlushBegin, FlushData,
        FlushHeader, FlushDat
<1>2. ASSUME NEW p \in Process, FlushMs(p) \/ RewriteDat(p), NEW s \in Sub
      PROVE  dat'[s] = dat[s]
    BY <1>2 DEF TypeOK, FlushMs, RewriteDat
<1>3. CASE UNCHANGED dat
    BY <1>3
<1> QED
    BY <1>1, <1>2, <1>3 DEF Next, vars, AddSubRow, AddRow, Flush, OpenMs, OpenSubtable, LoadReader,
        Close

LEMMA MainFileStays ==
    ASSUME TypeOK, TypeOK', MainFileLeads, PendingGrows,
           \A s \in Sub : dat'[s].state = "ok" => dat'[s] = dat[s] \/ dat'[s].rows = Len(pending[s]),
           data'[Main].rows = data[Main].rows, dat'[Main].rows <= Len(data[Main].rows)
    PROVE  MainFileLeads'
<1>1. Len(data[Main].rows) \in Nat /\ Len(pending[Main]) \in Nat
    BY Lengths, KnownTables
<1>2. PICK n \in Nat : n = Len(data[Main].rows)
    BY <1>1
<1>3. Holds(n) /\ n <= Len(pending[Main])
    BY <1>2 DEF MainFileLeads, Holds
<1>4. Holds(n)'
    BY <1>3, HoldsStays
<1>5. \A i \in 1..n : pending'[Main][i] = pending[Main][i]
    BY <1>1, <1>3, KnownTables DEF PendingGrows
<1>6. \A i \in 1..n : data'[Main].rows[i] = pending'[Main][i]
    BY <1>2, <1>5 DEF MainFileLeads
<1>7. n = Len(data'[Main].rows)
    BY <1>2
<1> QED BY <1>2, <1>4, <1>6, <1>7 DEF MainFileLeads, Holds

\* When the flush comes to the main table, the subtables are written.
LEMMA SubtablesFirst ==
    ASSUME EarlierWhole(Main), NEW s \in Sub, pending[s] # <<>>
    PROVE  dat[s] = [state |-> "ok", rows |-> Len(pending[s])]
<1>1. PICK j \in 1..Len(FlushOrder) : FlushOrder[j] = s
    BY Order, KnownTables
<1>2. FlushOrder[Len(FlushOrder)] = Main /\ j # Len(FlushOrder)
    BY <1>1, Order, KnownTables
<1>3. Len(FlushOrder) \in 1..Len(FlushOrder) /\ j \in 1..(Len(FlushOrder) - 1)
    BY <1>1, <1>2, OrderLength
<1> QED BY <1>1, <1>2, <1>3 DEF EarlierWhole, Whole

\* The main table's data file changes only when all it will refer to is there.
LEMMA MainFileNext ==
    ASSUME TypeOK, TypeOK', FlushFollows, MainFileLeads, MainObjectsLead, [Next]_vars
    PROVE  MainFileLeads'
<1> USE KnownTables
<1>1. PendingGrows
    BY PendingNext
<1>2. \A s \in Sub : dat'[s].state = "ok" => dat'[s] = dat[s] \/ dat'[s].rows = Len(pending[s])
    BY SubDatNext
<1>3. ASSUME data'[Main].rows = data[Main].rows, dat'[Main].rows <= Len(data[Main].rows)
      PROVE  MainFileLeads'
    BY <1>1, <1>2, <1>3, MainFileStays
<1>4. dat[Main].rows <= Len(data[Main].rows)
    BY DEF MainFileLeads
<1>5. ASSUME UNCHANGED <<dat, data>> PROVE MainFileLeads'
    BY <1>3, <1>4, <1>5
<1>6. ASSUME NEW t \in Tables,
             RemoveTable(t) \/ CreateDat(t) \/ CreateData(t) \/ FlushBegin(t) \/ FlushHeader(t)
      PROVE  MainFileLeads'
    <2>1. RemoveTable(t) \/ CreateDat(t) \/ CreateData(t) => t # Main
        BY DEF RemoveTable, CreateDat, CreateData, FlushFollows
    <2>2. data'[Main].rows = data[Main].rows /\ dat'[Main].rows = dat[Main].rows
        BY <1>6, <2>1 DEF TypeOK, DataFile, RemoveTable, CreateDat, CreateData, FlushBegin, FlushHeader
    <2> QED BY <1>3, <1>4, <2>2
<1>7. ASSUME NEW t \in Tables, FlushDat(t) PROVE MainFileLeads'
    <2>1. data' = data /\ data[t].rows = pending[t] /\ dat'[t].rows = Len(pending[t])
        BY <1>7 DEF FlushDat, FlushFollows, TypeOK
    <2>2. t # Main => dat'[Main] = dat[Main]
        BY <1>7 DEF FlushDat, TypeOK
    <2>3. Len(pending[t]) <= Len(pending[t])
        BY Lengths
    <2> QED BY <1>3, <1>4, <2>1, <2>2, <2>3
<1>8. ASSUME NEW t \in Tables, FlushData(t) PROVE MainFileLeads'
    <2>1. CASE t # Main
        <3>1. data'[Main] = data[Main] /\ dat' = dat
            BY <1>8, <2>1 DEF FlushData, TypeOK
        <3> QED BY <1>3, <1>4, <3>1
    <2>2. CASE t = Main
        <3>1. data'[Main].rows = pending[Main] /\ UNCHANGED <<dat, pending>>
            BY <1>8, <2>2 DEF FlushData, TypeOK
        <3>2. ForeignKeysValid /\ EarlierWhole(Main)
            BY <1>8, <2>2 DEF FlushData, FlushFollows, InFlush
        <3>3. /\ DOMAIN pending[Main] = 1..Len(pending[Main])
              /\ Len(pending[Main]) \in Nat /\ dat[Main].rows \in Nat /\ Len(data[Main].rows) \in Nat
            BY Lengths, RowsTyped
        <3>4. ASSUME NEW i \in 1..Len(pending[Main]), NEW s \in Sub
              PROVE  /\ pending[Main][i][s] \in 1..Len(pending[s])
                     /\ dat[s].state = "ok" => pending[Main][i][s] <= dat[s].rows
            <4>1. pending[Main][i][s] \in 1..Len(pending[s])
                BY <3>2, <3>3 DEF ForeignKeysValid
            <4>2. Len(pending[s]) \in Nat /\ (pending[s] = <<>> => Len(pending[s]) = 0)
                BY Lengths, EmptySeq
            <4>3. pending[s] # <<>>
                BY <4>1, <4>2
            <4>4. dat[s] = [state |-> "ok", rows |-> Len(pending[s])]
                BY <3>2, <4>3, SubtablesFirst
            <4> QED BY <4>1, <4>2, <4>4
        <3>5. dat[Main].rows <= Len(pending[Main])
            BY <1>4, <3>3 DEF MainFileLeads, Holds
        <3>6. Holds(Len(data[Main].rows))'
            BY <3>1, <3>3, <3>4 DEF Holds
        <3> QED BY <3>1, <3>5, <3>6 DEF MainFileLeads
    <2> QED BY <2>1, <2>2
<1>9. CASE \E t \in Tables : FlushStep(t)
    BY <1>6, <1>7, <1>8, <1>9 DEF FlushStep
<1>10. ASSUME NEW p \in Process, FlushMs(p) PROVE MainFileLeads'
    <2>1. data' = data /\ dat'[Main].rows = dat[Main].rows
        BY <1>10 DEF FlushMs, TypeOK
    <2> QED BY <1>3, <1>4, <2>1
<1>11. ASSUME NEW p \in Process, RewriteDat(p) PROVE MainFileLeads'
    <2>1. data' = data /\ dat'[Main].rows = ms[p][Main].nrow
        BY <1>11 DEF RewriteDat, TypeOK
    <2>2. ms[p][Main].nrow <= Len(data[Main].rows)
        BY DEF MainObjectsLead
    <2> QED BY <1>3, <2>1, <2>2
<1> QED
    BY <1>5, <1>9, <1>10, <1>11 DEF Next, vars, AddSubRow, AddRow, Flush, OpenMs, OpenSubtable,
        LoadReader, Close

\* The rows an object sees are in the file and stay there.
LEMMA MainObjectsNext ==
    ASSUME TypeOK, TypeOK', FlushFollows, MainFileLeads, MainObjectsLead, [Next]_vars
    PROVE  MainObjectsLead'
<1> USE KnownTables
<1>1. PendingGrows
    BY PendingNext
<1>2. /\ Len(data[Main].rows) \in Nat /\ Len(pending[Main]) \in Nat
      /\ \A p \in Process : ms[p][Main].nrow \in Nat
    BY Lengths
<1>3. Len(data[Main].rows) <= Len(pending[Main])
    BY DEF MainFileLeads, Holds
<1>4. \A i \in 1..Len(data[Main].rows) : pending'[Main][i] = pending[Main][i]
    BY <1>1, <1>2, <1>3 DEF PendingGrows
<1>5. /\ Len(data'[Main].rows) \in Nat
      /\ Len(data[Main].rows) <= Len(data'[Main].rows)
    <2>1. CASE data'[Main].rows = data[Main].rows
        BY <1>2, <2>1
    <2>2. CASE \E t \in Tables : FlushStep(t)
        <3>1. PICK t \in Tables : FlushStep(t)
            BY <2>2
        <3>2. RemoveTable(t) \/ CreateDat(t) \/ CreateData(t) => t # Main
            BY DEF RemoveTable, CreateDat, CreateData, FlushFollows
        <3>3. data'[Main].rows = data[Main].rows \/ data'[Main].rows = pending[Main]
            BY <3>1, <3>2 DEF TypeOK, DataFile, FlushStep, RemoveTable, CreateDat, CreateData, FlushBegin,
                FlushData, FlushHeader, FlushDat
        <3> QED BY <1>2, <1>3, <3>3
    <2> QED
        BY <2>1, <2>2 DEF Next, vars, AddSubRow, AddRow, Flush, OpenMs, OpenSubtable, LoadReader, Close,
            FlushMs, RewriteDat
<1>6. ASSUME NEW p \in Process,
             ms'[p][Main].nrow \in Nat, ms'[p][Main].nrow <= Len(data[Main].rows),
             ms'[p][Main].reader = "open" =>
                \A i \in 1..ms'[p][Main].nrow :
                    i <= Len(ms'[p][Main].rows) /\ ms'[p][Main].rows[i] = pending[Main][i]
      PROVE  /\ ms'[p][Main].nrow <= Len(data'[Main].rows)
             /\ ms'[p][Main].reader = "open" =>
                    \A i \in 1..ms'[p][Main].nrow :
                        i <= Len(ms'[p][Main].rows) /\ ms'[p][Main].rows[i] = pending'[Main][i]
    <2>1. ms'[p][Main].nrow <= Len(data'[Main].rows)
        BY <1>2, <1>5, <1>6
    <2>2. \A i \in 1..ms'[p][Main].nrow : i \in 1..Len(data[Main].rows)
        BY <1>2, <1>6
    <2> QED BY <1>4, <1>6, <2>1, <2>2
<1>7. ASSUME ms'[Filler][Main].open, ms'[Filler][Main].nrow = 0,
             \A p \in Process :
                /\ ms'[p][Main].nrow \in Nat /\ ms'[p][Main].nrow <= Len(data[Main].rows)
                /\ ms'[p][Main].reader = "open" =>
                    \A i \in 1..ms'[p][Main].nrow :
                        i <= Len(ms'[p][Main].rows) /\ ms'[p][Main].rows[i] = pending[Main][i]
      PROVE  MainObjectsLead'
    BY <1>6, <1>7 DEF MainObjectsLead
<1>8. ASSUME \A p \in Process : ms'[p][Main] = ms[p][Main] PROVE MainObjectsLead'
    BY <1>2, <1>7, <1>8 DEF MainObjectsLead
<1>9. ASSUME NEW t \in Tables, RemoveTable(t) PROVE MainObjectsLead'
    <2>1. t # Main
        BY <1>9 DEF RemoveTable, FlushFollows
    <2>2. \A p \in Process : ms'[p][Main] = ms[p][Main]
        BY <1>9, <2>1 DEF RemoveTable, TypeOK
    <2> QED BY <1>8, <2>2
<1>10. ASSUME NEW p \in Process, NEW s \in Sub, OpenSubtable(p, s) PROVE MainObjectsLead'
    <2>1. \A q \in Process : ms'[q][Main] = ms[q][Main]
        BY <1>10 DEF OpenSubtable, TypeOK
    <2> QED BY <1>8, <2>1
<1>11. ASSUME NEW p \in Process, NEW o,
              \A q \in Process : ms'[q][Main] = IF q = p THEN o ELSE ms[q][Main],
              p = Filler => o.open /\ o.nrow = 0,
              o.nrow \in Nat, o.nrow <= Len(data[Main].rows),
              o.reader = "open" =>
                \A i \in 1..o.nrow : i <= Len(o.rows) /\ o.rows[i] = pending[Main][i]
       PROVE  MainObjectsLead'
    BY <1>2, <1>7, <1>11, SMTT(20) DEF MainObjectsLead
<1>12. ASSUME NEW p \in Process, OpenMs(p) PROVE MainObjectsLead'
    <2>1. \A q \in Process : ms'[q][Main] = IF q = p THEN Opened(dat[Main].rows) ELSE ms[q][Main]
        BY <1>12 DEF OpenMs, TypeOK
    <2>2. p # Filler
        BY <1>12 DEF OpenMs, MainObjectsLead
    <2>3. dat[Main].rows \in Nat /\ dat[Main].rows <= Len(data[Main].rows)
        BY Lengths DEF MainFileLeads
    <2>4. Opened(dat[Main].rows).nrow = dat[Main].rows /\ Opened(dat[Main].rows).reader = "unread"
        BY DEF Opened, Closed
    <2> QED BY <1>11, <2>1, <2>2, <2>3, <2>4
<1>13. ASSUME NEW p \in Process, NEW t \in Tables, LoadReader(p, t) PROVE MainObjectsLead'
    <2> DEFINE o == IF data[t].state = "ok"
                    THEN [ms[p][t] EXCEPT !.reader = "open", !.rows = data[t].rows]
                    ELSE [ms[p][t] EXCEPT !.reader = "failed"]
    <2>1. ms' = [ms EXCEPT ![p][t] = o]
        BY <1>13 DEF LoadReader
    <2>2. CASE t # Main
        <3>1. \A q \in Process : ms'[q][Main] = ms[q][Main]
            <4> HIDE DEF o
            <4> QED BY <2>1, <2>2 DEF TypeOK
        <3> QED BY <1>8, <3>1
    <2>3. CASE t = Main
        <3>1. \A q \in Process : ms'[q][Main] = IF q = p THEN o ELSE ms[q][Main]
            <4> HIDE DEF o
            <4> QED BY <2>1, <2>3 DEF TypeOK
        <3>2. ms[p][Main] \in TableObject(Main)
            BY DEF TypeOK
        <3>3. /\ o.open = ms[p][Main].open /\ o.nrow = ms[p][Main].nrow
              /\ o.reader = "open" => o.rows = data[Main].rows
            BY <2>3, <3>2 DEF TableObject
        <3> HIDE DEF o
        <3>4. \A i \in 1..o.nrow : i \in 1..Len(data[Main].rows) /\ i <= Len(data[Main].rows)
            BY <1>2, <3>3 DEF MainObjectsLead
        <3> QED BY <1>2, <1>11, <3>1, <3>3, <3>4 DEF MainObjectsLead, MainFileLeads
    <2> QED BY <2>2, <2>3
<1>14. ASSUME NEW p \in Process, Close(p) PROVE MainObjectsLead'
    <2>1. \A q \in Process : ms'[q][Main] = IF q = p THEN Closed ELSE ms[q][Main]
        BY <1>14 DEF Close, TypeOK
    <2>2. p # Filler
        BY <1>14, MsFillAssumption DEF Close
    <2>3. Closed.nrow = 0 /\ Closed.reader = "unread" /\ 0 <= Len(data[Main].rows) /\ 0 \in Nat
        BY <1>2 DEF Closed
    <2> QED BY <1>11, <2>1, <2>2, <2>3
<1>15. CASE \E t \in Tables : FlushStep(t)
    BY <1>8, <1>9, <1>15 DEF FlushStep, CreateDat, CreateData, FlushBegin, FlushData, FlushHeader, FlushDat
<1>16. CASE UNCHANGED ms
    BY <1>8, <1>16
<1> QED
    BY <1>10, <1>12, <1>13, <1>14, <1>15, <1>16 DEF Next, vars, AddSubRow, AddRow, Flush, FlushMs, RewriteDat

\* Subtables are as long as their table.dat says while both files can be read.
LEMMA SubtableStays ==
    ASSUME TypeOK, PendingGrows, NEW s \in Sub, SubtableFollows(s),
           data'[s].rows = data[s].rows, dat'[s].rows = dat[s].rows,
           data'[s].state = "ok" /\ dat'[s].state = "ok" => data[s].state = "ok" /\ dat[s].state = "ok",
           Len(pending'[s]) \in Nat
    PROVE  SubtableFollows(s)'
<1>1. /\ Len(pending[s]) \in Nat /\ Len(data[s].rows) \in Nat /\ dat[s].rows \in Nat
      /\ Len(pending[s]) <= Len(pending'[s])
      /\ \A i \in 1..Len(pending[s]) : pending'[s][i] = pending[s][i]
    BY Lengths, KnownTables DEF PendingGrows
<1>2. \A i \in 1..Len(data[s].rows) : i \in 1..Len(pending[s])
    BY <1>1 DEF SubtableFollows
<1> QED BY SMTT(20), <1>1, <1>2 DEF SubtableFollows

LEMMA ObjectStays ==
    ASSUME TypeOK, PendingGrows, NEW p \in Process, NEW s \in Sub, ObjectFollows(p, s),
           ms'[p][s] = ms[p][s],
           data'[s].state = "ok" => \/ data[s].state = "ok" /\ data'[s].rows = data[s].rows
                                   \/ Len(data'[s].rows) = Len(pending[s]),
           Len(pending'[s]) \in Nat
    PROVE  ObjectFollows(p, s)'
<1>1. /\ Len(pending[s]) \in Nat /\ ms[p][s].nrow \in Nat /\ Len(ms[p][s].rows) \in Nat
      /\ Len(pending[s]) <= Len(pending'[s])
      /\ \A i \in 1..Len(pending[s]) : pending'[s][i] = pending[s][i]
    BY Lengths, KnownTables DEF PendingGrows
<1>2. ms[p][s].reader = "open" => \A i \in 1..Len(ms[p][s].rows) : i \in 1..Len(pending[s])
    BY <1>1 DEF ObjectFollows
<1>3. ms'[p][s].nrow <= Len(pending'[s])
    BY <1>1 DEF ObjectFollows
<1>4. data'[s].state = "ok" => ms'[p][s].nrow <= Len(data'[s].rows)
    BY <1>1 DEF ObjectFollows
<1>5. ms'[p][s].reader = "open" =>
        /\ ms'[p][s].nrow <= Len(ms'[p][s].rows)
        /\ Len(ms'[p][s].rows) <= Len(pending'[s])
        /\ \A i \in 1..Len(ms'[p][s].rows) : ms'[p][s].rows[i] \in {Blank, pending'[s][i]}
    BY <1>1, <1>2 DEF ObjectFollows
<1> QED BY <1>3, <1>4, <1>5 DEF ObjectFollows

LEMMA LengthsNext == TypeOK' => \A t \in Tables : Len(pending'[t]) \in Nat
<1> SUFFICES ASSUME TypeOK', NEW t \in Tables PROVE Len(pending'[t]) \in Nat
    OBVIOUS
<1>1. pending'[t] \in UpTo(RowOf(t))
    BY DEF TypeOK, UpTo, RowOf
<1> QED BY <1>1, LenProperties DEF UpTo

\* A subtable's files are rewritten with at least as many rows.
LEMMA SubtablesNext ==
    ASSUME TypeOK, TypeOK', FlushFollows, SubtablesFollow, [Next]_vars, NEW s \in Sub
    PROVE  SubtableFollows(s)'
<1> USE KnownTables
<1>1. PendingGrows /\ Len(pending'[s]) \in Nat /\ SubtableFollows(s)
    BY PendingNext, LengthsNext DEF SubtablesFollow
<1>2. Len(pending[s]) \in Nat /\ Len(data[s].rows) \in Nat /\ dat[s].rows \in Nat
    BY Lengths
<1>3. ASSUME data'[s] = data[s], dat'[s] = dat[s] PROVE SubtableFollows(s)'
    BY <1>1, <1>3, SubtableStays
<1>4. ASSUME NEW t \in Tables, FlushStep(t), t # s PROVE SubtableFollows(s)'
    <2>1. data'[s] = data[s] /\ dat'[s] = dat[s]
        BY <1>4 DEF TypeOK, FlushStep, RemoveTable, CreateDat, CreateData, FlushBegin, FlushData,
            FlushHeader, FlushDat
    <2> QED BY <1>3, <2>1
<1>5. CASE RemoveTable(s)
    <2>1. /\ data'[s] = [state |-> "gone", rows |-> <<>>] /\ dat'[s] = [state |-> "gone", rows |-> 0]
          /\ pending' = pending
        BY <1>5 DEF RemoveTable, TypeOK
    <2>2. Len(<<>>) = 0
        BY EmptySeq
    <2> QED BY <1>2, <2>1, <2>2 DEF SubtableFollows
<1>6. CASE CreateDat(s)
    <2>1. data' = data /\ dat'[s].rows = Len(pending[s]) /\ pending' = pending /\ data[s].state # "ok"
        BY <1>6 DEF CreateDat, TypeOK, FlushFollows
    <2> QED BY <1>1, <1>2, <2>1 DEF SubtableFollows
<1>7. CASE CreateData(s)
    <2> DEFINE blanks == [i \in DOMAIN pending[s] |-> Blank]
    <2>1. data'[s].rows = blanks /\ dat' = dat /\ pending' = pending
        BY <1>7 DEF CreateData, TypeOK
    <2>2. DOMAIN pending[s] = 1..Len(pending[s])
        BY RowsTyped
    <2>3. Len(blanks) = Len(pending[s]) /\ \A i \in 1..Len(pending[s]) : blanks[i] = Blank
        BY <1>2, <2>2
    <2> HIDE DEF blanks
    <2> QED BY <1>1, <1>2, <2>1, <2>3 DEF SubtableFollows
<1>8. CASE FlushBegin(s)
    <2>1. /\ data'[s].rows = data[s].rows /\ data'[s].state = "torn" /\ dat' = dat
        BY <1>8 DEF FlushBegin, TypeOK, DataFile
    <2> QED BY <1>1, <2>1, SubtableStays
<1>9. CASE FlushData(s)
    <2>1. data'[s].rows = pending[s] /\ dat' = dat /\ pending' = pending
        BY <1>9 DEF FlushData, TypeOK
    <2> QED BY <1>1, <1>2, <2>1 DEF SubtableFollows
<1>10. CASE FlushHeader(s)
    <2>1. data' = data /\ dat'[s].rows = dat[s].rows /\ dat'[s].state = "torn"
        BY <1>10 DEF FlushHeader, TypeOK
    <2> QED BY <1>1, <2>1, SubtableStays
<1>11. CASE FlushDat(s)
    <2>1. /\ data' = data /\ dat'[s].rows = Len(pending[s]) /\ pending' = pending
          /\ data[s].rows = pending[s]
        BY <1>11 DEF FlushDat, TypeOK, FlushFollows
    <2> QED BY <1>1, <1>2, <2>1 DEF SubtableFollows
<1>12. CASE \E t \in Tables : FlushStep(t)
    BY <1>4, <1>5, <1>6, <1>7, <1>8, <1>9, <1>10, <1>11, <1>12 DEF FlushStep
<1>13. ASSUME NEW p \in Process, FlushMs(p) \/ RewriteDat(p) PROVE SubtableFollows(s)'
    <2>1. data'[s] = data[s] /\ dat'[s] = dat[s]
        BY <1>13 DEF TypeOK, FlushMs, RewriteDat
    <2> QED BY <1>3, <2>1
<1>14. CASE UNCHANGED <<dat, data>>
    BY <1>3, <1>14
<1> QED
    BY <1>12, <1>13, <1>14 DEF Next, vars, AddSubRow, AddRow, Flush, OpenMs, OpenSubtable, LoadReader,
        Close

\* An object of a subtable never sees more rows than the data file has.
LEMMA ObjectsNext ==
    ASSUME TypeOK, TypeOK', FlushFollows, SubtablesFollow, [Next]_vars,
           NEW s \in Sub, NEW p \in Process
    PROVE  ObjectFollows(p, s)'
<1> USE KnownTables
<1>1. PendingGrows /\ Len(pending'[s]) \in Nat /\ SubtableFollows(s) /\ ObjectFollows(p, s)
    BY PendingNext, LengthsNext DEF SubtablesFollow
<1>2. /\ Len(pending[s]) \in Nat /\ Len(data[s].rows) \in Nat /\ dat[s].rows \in Nat
      /\ ms[p][s].nrow \in Nat
    BY Lengths
<1>3. data'[s].state = "ok" => \/ data[s].state = "ok" /\ data'[s].rows = data[s].rows
                              \/ Len(data'[s].rows) = Len(pending[s])
    <2>1. CASE data'[s] = data[s]
        BY <2>1
    <2>2. ASSUME NEW t \in Tables, FlushStep(t), t # s PROVE data'[s] = data[s]
        BY <2>2 DEF TypeOK, FlushStep, RemoveTable, CreateDat, CreateData, FlushBegin, FlushData,
            FlushHeader, FlushDat
    <2>3. CASE RemoveTable(s) \/ FlushBegin(s)
        BY <2>3 DEF RemoveTable, FlushBegin, TypeOK, DataFile
    <2>4. CASE CreateData(s)
        <3> DEFINE blanks == [i \in DOMAIN pending[s] |-> Blank]
        <3>1. data'[s].rows = blanks
            BY <2>4 DEF CreateData, TypeOK
        <3>2. DOMAIN pending[s] = 1..Len(pending[s])
            BY RowsTyped
        <3>3. Len(blanks) = Len(pending[s])
            BY <1>2, <3>2
        <3> QED BY <3>1, <3>3
    <2>5. CASE FlushData(s)
        BY <2>5 DEF FlushData, TypeOK
    <2>6. CASE CreateDat(s) \/ FlushHeader(s) \/ FlushDat(s)
        BY <2>1, <2>6 DEF CreateDat, FlushHeader, FlushDat
    <2>7. CASE \E t \in Tables : FlushStep(t)
        BY <2>1, <2>2, <2>3, <2>4, <2>5, <2>6, <2>7 DEF FlushStep
    <2> QED
        BY <2>1, <2>7 DEF Next, vars, AddSubRow, AddRow, Flush, OpenMs, OpenSubtable, LoadReader, Close,
            FlushMs, RewriteDat
<1>4. ASSUME ms'[p][s] = ms[p][s] PROVE ObjectFollows(p, s)'
    BY <1>1, <1>3, <1>4, ObjectStays
<1>5. ASSUME UNCHANGED pending, ms'[p][s].nrow <= Len(pending[s]), ms'[p][s].reader # "open",
             data'[s].state = "ok" => ms'[p][s].nrow <= Len(data'[s].rows)
      PROVE  ObjectFollows(p, s)'
    BY <1>5 DEF ObjectFollows
<1>6. ASSUME NEW q \in Process, NEW t \in Tables, q # p \/ t # s,
             NEW o, ms' = [ms EXCEPT ![q][t] = o]
      PROVE  ms'[p][s] = ms[p][s]
    BY <1>6 DEF TypeOK
<1>7. ASSUME NEW t \in Tables, RemoveTable(t) PROVE ObjectFollows(p, s)'
    <2>1. CASE p = Filler /\ t = s /\ ~ms[p][s].open
        <3>1. /\ ms'[p][s] = Opened(dat[s].rows) /\ data'[s].state = "gone" /\ pending' = pending
            BY <1>7, <2>1 DEF RemoveTable, TypeOK
        <3>2. ms'[p][s].nrow = dat[s].rows /\ ms'[p][s].reader = "unread"
            BY <3>1 DEF Opened, Closed
        <3> QED BY <1>1, <1>5, <3>1, <3>2 DEF SubtableFollows
    <2>2. CASE p = Filler /\ t = s /\ ms[p][s].open
        <3>1. ms'[p][s] = ms[p][s]
            BY <1>7, <2>2 DEF RemoveTable, TypeOK
        <3> QED BY <1>4, <3>1
    <2>3. CASE p # Filler \/ t # s
        <3>1. ms' = [ms EXCEPT ![Filler][t] = IF ms[Filler][t].open THEN ms[Filler][t] ELSE Opened(dat[t].rows)]
            BY <1>7 DEF RemoveTable
        <3>2. ms'[p][s] = ms[p][s]
            BY <1>6, <2>3, <3>1
        <3> QED BY <1>4, <3>2
    <2> QED BY <2>1, <2>2, <2>3
<1>8. ASSUME NEW q \in Process, NEW t \in Sub, OpenSubtable(q, t) PROVE ObjectFollows(p, s)'
    <2>1. CASE q = p /\ t = s
        <3>1. /\ ms'[p][s] = Opened(dat[s].rows) /\ UNCHANGED <<data, pending>> /\ dat[s].state = "ok"
            BY <1>8, <2>1 DEF OpenSubtable, TypeOK
        <3>2. ms'[p][s].nrow = dat[s].rows /\ ms'[p][s].reader = "unread"
            BY <3>1 DEF Opened, Closed
        <3> QED BY <1>1, <1>5, <3>1, <3>2 DEF SubtableFollows
    <2>2. CASE q # p \/ t # s
        BY <1>4, <1>6, <1>8, <2>2 DEF OpenSubtable
    <2> QED BY <2>1, <2>2
<1>9. ASSUME NEW q \in Process, OpenMs(q) PROVE ObjectFollows(p, s)'
    BY <1>4, <1>6, <1>9 DEF OpenMs
<1>10. ASSUME NEW q \in Process, NEW t \in Tables, LoadReader(q, t) PROVE ObjectFollows(p, s)'
    <2> DEFINE o == IF data[t].state = "ok"
                    THEN [ms[q][t] EXCEPT !.reader = "open", !.rows = data[t].rows]
                    ELSE [ms[q][t] EXCEPT !.reader = "failed"]
    <2>1. ms' = [ms EXCEPT ![q][t] = o] /\ UNCHANGED <<data, pending>>
        BY <1>10 DEF LoadReader
    <2>2. CASE q # p \/ t # s
        <3>1. ms'[p][s] = ms[p][s]
            <4> HIDE DEF o
            <4> QED BY <1>6, <2>1, <2>2
        <3> QED BY <1>4, <3>1
    <2>3. CASE q = p /\ t = s
        <3>1. ms'[p][s] = o
            <4> HIDE DEF o
            <4> QED BY <2>1, <2>3 DEF TypeOK
        <3>2. ms[p][s] \in TableObject(s)
            BY DEF TypeOK
        <3>3. /\ o.nrow = ms[p][s].nrow
              /\ o.reader = "open" => data[s].state = "ok" /\ o.rows = data[s].rows
            BY <2>3, <3>2 DEF TableObject
        <3> HIDE DEF o
        <3> QED BY <1>1, <2>1, <3>1, <3>3 DEF ObjectFollows, SubtableFollows
    <2> QED BY <2>2, <2>3
<1>11. ASSUME NEW q \in Process, Close(q) PROVE ObjectFollows(p, s)'
    <2>1. UNCHANGED <<data, pending>> /\ (ms'[p][s] = ms[p][s] \/ ms'[p][s] = Closed)
        BY <1>11 DEF Close, TypeOK
    <2>2. CASE ms'[p][s] = Closed
        <3>1. ms'[p][s].nrow = 0 /\ ms'[p][s].reader = "unread"
            BY <2>2 DEF Closed
        <3> QED BY <1>2, <1>5, <2>1, <3>1
    <2> QED BY <1>4, <2>1, <2>2
<1>12. CASE UNCHANGED ms
    BY <1>4, <1>12
<1>13. CASE \E t \in Tables : FlushStep(t)
    BY <1>7, <1>12, <1>13 DEF FlushStep, CreateDat, CreateData, FlushBegin, FlushData, FlushHeader,
        FlushDat
<1> QED
    BY <1>8, <1>9, <1>10, <1>11, <1>12, <1>13 DEF Next, vars, AddSubRow, AddRow, Flush, FlushMs,
        RewriteDat

\* What was opened stays as it was opened, and its rows stay where they are.
LEMMA OpenedLaterNext ==
    ASSUME TypeOK, FlushFollows, MainFileLeads, MainObjectsLead, OpenedLater, [Next]_vars
    PROVE  OpenedLater'
<1> USE KnownTables
<1>1. PendingGrows
    BY PendingNext
<1>2. /\ Len(data[Main].rows) \in Nat /\ Len(pending[Main]) \in Nat
      /\ \A p \in Process : ms[p][Main].nrow \in Nat
      /\ \A s \in Sub : dat[s].rows \in Nat /\ Len(pending[s]) \in Nat
    BY Lengths
<1>3. \A p \in Process : \A i \in 1..ms[p][Main].nrow :
        i \in 1..Len(data[Main].rows) /\ i \in 1..Len(pending[Main])
    BY <1>2 DEF MainObjectsLead, MainFileLeads, Holds
<1>4. \A p \in Process : \A i \in 1..ms[p][Main].nrow : pending'[Main][i] = pending[Main][i]
    BY <1>1, <1>3 DEF PendingGrows
<1>5. ASSUME NEW p \in Process, NEW s \in Sub,
             ms'[p][Main] = ms[p][Main], ms'[p][s].open,
             ms[p][Main].open,
             \A i \in 1..ms[p][Main].nrow : pending[Main][i][s] \in 1..ms'[p][s].nrow
      PROVE  /\ ms'[p][Main].open
             /\ \A i \in 1..ms'[p][Main].nrow : pending'[Main][i][s] \in 1..ms'[p][s].nrow
    BY <1>4, <1>5
<1>6. ASSUME NEW p \in Process, NEW s \in Sub,
             ms'[p][Main] = ms[p][Main], ms'[p][s] = ms[p][s], ms'[p][s].open
      PROVE  /\ ms'[p][Main].open
             /\ \A i \in 1..ms'[p][Main].nrow : pending'[Main][i][s] \in 1..ms'[p][s].nrow
    BY <1>5, <1>6 DEF OpenedLater
<1>7. ASSUME UNCHANGED ms PROVE OpenedLater'
    BY <1>6, <1>7 DEF OpenedLater
<1>8. ASSUME NEW q \in Process, NEW t \in Tables, NEW o, ms' = [ms EXCEPT ![q][t] = o]
      PROVE  \A p \in Process, u \in Tables : ms'[p][u] = IF p = q /\ u = t THEN o ELSE ms[p][u]
    BY <1>8 DEF TypeOK
<1>9. ASSUME NEW t \in Tables, RemoveTable(t) PROVE OpenedLater'
    <2>1. t \in Sub
        BY <1>9 DEF RemoveTable, FlushFollows
    <2>2. ms' = [ms EXCEPT ![Filler][t] = IF ms[Filler][t].open THEN ms[Filler][t] ELSE Opened(dat[t].rows)]
        BY <1>9 DEF RemoveTable
    <2>3. \A p \in Process, u \in Tables : p # Filler \/ u # t => ms'[p][u] = ms[p][u]
        BY <1>8, <2>2
    <2>4. ASSUME NEW p \in Process, NEW s \in Sub, ms'[p][s].open
          PROVE  /\ ms'[p][Main].open
                 /\ \A i \in 1..ms'[p][Main].nrow : pending'[Main][i][s] \in 1..ms'[p][s].nrow
        <3>1. ms'[p][Main] = ms[p][Main]
            BY <2>1, <2>3
        <3>2. CASE p = Filler
            <4>1. ms[p][Main].open /\ ms[p][Main].nrow = 0
                BY <3>2 DEF MainObjectsLead
            <4> QED BY <2>4, <3>1, <4>1
        <3>3. CASE p # Filler
            BY <1>6, <2>3, <2>4, <3>1, <3>3
        <3> QED BY <3>2, <3>3
    <2> QED BY <2>4 DEF OpenedLater
<1>10. ASSUME NEW q \in Process, NEW t \in Sub, OpenSubtable(q, t) PROVE OpenedLater'
    <2>1. ms' = [ms EXCEPT ![q][t] = Opened(dat[t].rows)] /\ dat[t].state = "ok" /\ ms[q][Main].open
        BY <1>10 DEF OpenSubtable
    <2>2. \A p \in Process, u \in Tables :
            ms'[p][u] = IF p = q /\ u = t THEN Opened(dat[t].rows) ELSE ms[p][u]
        BY <2>1 DEF TypeOK
    <2>3. ASSUME NEW i \in 1..ms[q][Main].nrow PROVE pending[Main][i][t] \in 1..dat[t].rows
        <3>1. i \in 1..Len(data[Main].rows)
            BY <1>3
        <3>2. pending[Main][i][t] \in 1..Len(pending[t]) /\ pending[Main][i][t] <= dat[t].rows
            BY <2>1, <3>1 DEF MainFileLeads, Holds
        <3> QED BY <1>2, <3>2
    <2>4. Opened(dat[t].rows).nrow = dat[t].rows
        BY DEF Opened, Closed
    <2>5. ASSUME NEW p \in Process, NEW s \in Sub, ms'[p][s].open
          PROVE  /\ ms'[p][Main].open
                 /\ \A i \in 1..ms'[p][Main].nrow : pending'[Main][i][s] \in 1..ms'[p][s].nrow
        <3>1. ms'[p][Main] = ms[p][Main]
            BY <2>2
        <3>2. CASE p = q /\ s = t
            BY <1>5, <2>1, <2>2, <2>3, <2>4, <2>5, <3>1, <3>2
        <3>3. CASE p # q \/ s # t
            BY <1>6, <2>2, <2>5, <3>1, <3>3
        <3> QED BY <3>2, <3>3
    <2> QED BY <2>5 DEF OpenedLater
<1>11. ASSUME NEW q \in Process, OpenMs(q) PROVE OpenedLater'
    <2>1. \A p \in Process, u \in Tables :
            ms'[p][u] = IF p = q /\ u = Main THEN Opened(dat[Main].rows) ELSE ms[p][u]
        BY <1>11 DEF OpenMs, TypeOK
    <2>2. \A s \in Sub : ~ms'[q][s].open
        BY <1>11, <2>1 DEF OpenMs, OpenedLater
    <2>3. \A p \in Process, s \in Sub :
            ms'[p][s].open => ms'[p][Main] = ms[p][Main] /\ ms'[p][s] = ms[p][s]
        BY <2>1, <2>2
    <2> QED BY <1>6, <2>3 DEF OpenedLater
<1>12. ASSUME NEW q \in Process, NEW t \in Tables, LoadReader(q, t) PROVE OpenedLater'
    <2> DEFINE o == IF data[t].state = "ok"
                    THEN [ms[q][t] EXCEPT !.reader = "open", !.rows = data[t].rows]
                    ELSE [ms[q][t] EXCEPT !.reader = "failed"]
    <2>1. ms' = [ms EXCEPT ![q][t] = o]
        BY <1>12 DEF LoadReader
    <2>2. ms[q][t] \in TableObject(t)
        BY DEF TypeOK
    <2>3. o.open = ms[q][t].open /\ o.nrow = ms[q][t].nrow
        BY <2>2 DEF TableObject
    <2> HIDE DEF o
    <2>4. \A p \in Process, u \in Tables :
            ms'[p][u].open = ms[p][u].open /\ ms'[p][u].nrow = ms[p][u].nrow
        BY <1>8, <2>1, <2>3
    <2> QED BY <1>4, <2>4 DEF OpenedLater
<1>13. ASSUME NEW q \in Process, Close(q) PROVE OpenedLater'
    <2>1. /\ \A u \in Tables : ms'[q][u] = Closed
          /\ \A p \in Process : p # q => ms'[p] = ms[p]
        BY <1>13 DEF Close, TypeOK
    <2>2. \A u \in Tables : ~ms'[q][u].open
        BY <2>1 DEF Closed
    <2>3. \A p \in Process, s \in Sub :
            ms'[p][s].open => ms'[p][Main] = ms[p][Main] /\ ms'[p][s] = ms[p][s]
        BY <2>1, <2>2
    <2> QED BY <1>6, <2>3 DEF OpenedLater
<1>14. CASE \E t \in Tables : FlushStep(t)
    BY <1>7, <1>9, <1>14 DEF FlushStep, CreateDat, CreateData, FlushBegin, FlushData, FlushHeader,
        FlushDat
<1> QED
    BY <1>7, <1>10, <1>11, <1>12, <1>13, <1>14 DEF Next, vars, AddSubRow, AddRow, Flush, FlushMs,
        RewriteDat

----------------------------------------------------------------------------
(* The theorems.                                                           *)

\* An empty MeasurementSet keeps the invariant.
LEMMA FillInit == Init => FillInv
<1> SUFFICES ASSUME Init PROVE FillInv
    OBVIOUS
<1> USE KnownTables
<1>1. TypeOK
    BY TypeInit
<1>2. FlushFollows
    BY DEF Init, Idle, FlushFollows, InFlush
<1>3. Len(<<>>) = 0
    BY EmptySeq
<1>4. /\ \A t \in Tables : /\ dat[t] = [state |-> "ok", rows |-> 0] /\ pending[t] = <<>>
                            /\ data[t] = [state |-> "ok", rows |-> <<>>]
      /\ \A p \in Process, t \in Tables :
            /\ ms[p][t].nrow = 0 /\ ms[p][t].reader = "unread" /\ ms[p][t].rows = <<>>
            /\ ms[p][t].open <=> p = Filler /\ t = Main
    BY DEF Init, Opened, Closed
<1>5. MainFileLeads
    BY <1>3, <1>4 DEF MainFileLeads, Holds
<1>6. MainObjectsLead
    BY <1>3, <1>4 DEF MainObjectsLead
<1>7. SubtablesFollow
    BY <1>3, <1>4 DEF SubtablesFollow, SubtableFollows, ObjectFollows
<1>8. OpenedLater
    BY <1>4 DEF OpenedLater
<1> QED BY <1>1, <1>2, <1>5, <1>6, <1>7, <1>8 DEF FillInv

\* Every step keeps the invariant.
LEMMA FillNext == FillInv /\ [Next]_vars => FillInv'
<1> SUFFICES ASSUME FillInv, [Next]_vars PROVE FillInv'
    OBVIOUS
<1>1. /\ TypeOK /\ FlushFollows /\ MainFileLeads /\ MainObjectsLead /\ SubtablesFollow
      /\ OpenedLater
    BY DEF FillInv
<1>2. TypeOK'
    BY <1>1, TypeNext
<1>3. FlushFollows'
    BY <1>1, FlushNext
<1>4. MainFileLeads' /\ MainObjectsLead'
    BY <1>1, <1>2, MainFileNext, MainObjectsNext
<1>5. \A s \in Sub : SubtableFollows(s)'
    BY <1>1, <1>2, SubtablesNext
<1>6. \A s \in Sub, p \in Process : ObjectFollows(p, s)'
    BY <1>1, <1>2, ObjectsNext
<1>7. SubtablesFollow'
    BY <1>5, <1>6 DEF SubtablesFollow
<1>8. OpenedLater'
    BY <1>1, OpenedLaterNext
<1> QED BY <1>2, <1>3, <1>4, <1>7, <1>8 DEF FillInv

\* The inductive invariant: what the filler has pending leads, what is on disk
\* follows it, and what the objects have follows what was on disk.
THEOREM FillInvariant == Spec => []FillInv
<1> QED BY FillInit, FillNext, PTL DEF Spec

\* Whatever processes open the MeasurementSet and however long it is filled,
\* files, objects and pending rows have their types.
THEOREM FillTypeCorrect == Spec => []TypeOK
<1>1. FillInv => TypeOK
    BY DEF FillInv
<1> QED BY <1>1, FillInvariant, PTL

\* MsWriter::flush writes main rows after the rows they refer to, so that whoever
\* opens the MeasurementSet between any two steps of any flush, and its subtables
\* at any later moment, finds them.
THEOREM ReferencesCorrect == Spec => []References
<1>1. FillInv => References
    <2> SUFFICES ASSUME FillInv, NEW p \in Process, NEW s \in Sub,
                        ms[p][Main].reader = "open", ms[p][s].open,
                        NEW i \in 1..ms[p][Main].nrow
                 PROVE  /\ ms[p][Main].rows[i][s] \in 1..ms[p][s].nrow
                        /\ ms[p][s].reader = "open" =>
                            ms[p][s].rows[ms[p][Main].rows[i][s]]
                                \in {Blank, pending[s][ms[p][Main].rows[i][s]]}
        BY DEF References
    <2>1. ms[p][Main].rows[i] = pending[Main][i]
        BY DEF FillInv, MainObjectsLead
    <2>2. pending[Main][i][s] \in 1..ms[p][s].nrow
        BY DEF FillInv, OpenedLater
    <2>3. ObjectFollows(p, s) /\ ms[p][s].nrow \in Nat /\ Len(ms[p][s].rows) \in Nat
        BY Lengths, KnownTables DEF FillInv, SubtablesFollow
    <2>4. ms[p][s].reader = "open" => pending[Main][i][s] \in 1..Len(ms[p][s].rows)
        BY <2>2, <2>3 DEF ObjectFollows
    <2> QED BY <2>1, <2>2, <2>3, <2>4 DEF ObjectFollows
<1> QED BY <1>1, FillInvariant, PTL

\* MsWriter::flush returns after the last table with pending rows, all of which
\* are then on disk, although nobody locks anything.
THEOREM FillIsCompleteCorrect == Spec => FillIsComplete
<1> DEFINE Returned ==
        pc[Filler].step = "dat" /\ pc'[Filler] = Idle =>
            \A t \in Tables : pending[t] # <<>> =>
                /\ data'[t] = [state |-> "ok", rows |-> pending[t]]
                /\ dat'[t] = [state |-> "ok", rows |-> Len(pending[t])]
<1>1. FillInv /\ [Next]_vars => [Returned]_vars
    <2> SUFFICES ASSUME FillInv, [Next]_vars, pc[Filler].step = "dat", pc'[Filler] = Idle,
                        NEW u \in Tables, pending[u] # <<>>
                 PROVE  /\ data'[u] = [state |-> "ok", rows |-> pending[u]]
                        /\ dat'[u] = [state |-> "ok", rows |-> Len(pending[u])]
        OBVIOUS
    <2>1. TypeOK /\ FlushFollows
        BY DEF FillInv
    <2>2. pc'[Filler] # pc[Filler]
        BY DEF Idle
    <2>3. PICK t \in Tables : FlushDat(t)
        <3>1. pc[Filler] # Idle
            BY DEF Idle
        <3>2. ASSUME NEW t \in Tables, FlushStep(t) PROVE FlushDat(t)
            BY <3>2 DEF FlushStep, RemoveTable, CreateDat, CreateData, FlushBegin, FlushData, FlushHeader
        <3>3. ASSUME NEW p \in Process, FlushMs(p) \/ RewriteDat(p) PROVE FALSE
            <4>1. p # Filler
                BY <3>1, <3>3 DEF FlushMs, RewriteDat
            <4>2. pc'[Filler] = pc[Filler]
                BY <2>1, <3>3, <4>1, KnownTables DEF FlushMs, RewriteDat, TypeOK
            <4> QED BY <2>2, <4>2
        <3>4. ~UNCHANGED pc
            BY <2>2
        <3> QED
            BY <3>1, <3>2, <3>3, <3>4 DEF Next, vars, AddSubRow, AddRow, Flush, OpenMs, OpenSubtable,
                LoadReader, Close
    <2>4. /\ data' = data /\ dat' = [dat EXCEPT ![t] = [state |-> "ok", rows |-> Len(pending[t])]]
          /\ pc' = [pc EXCEPT ![Filler] = NextTable(t)] /\ pc[Filler].table = t
        BY <2>3 DEF FlushDat
    <2>5. data[t] = [state |-> "ok", rows |-> pending[t]] /\ EarlierWhole(t)
        BY <2>1, <2>4 DEF FlushFollows, InFlush
    <2>6. PICK n \in 1..Len(FlushOrder) : n = Place(t) /\ FlushOrder[n] = t
        BY PlaceInOrder
    <2>7. StepsFor(ToFlush(n + 1)) = Idle
        BY <2>1, <2>4, <2>6, KnownTables DEF NextTable, TypeOK
    <2>8. n + 1 \in Nat \ {0}
        BY <2>6, OrderLength
    <2>9. \A j \in (n + 1)..Len(FlushOrder) : pending[FlushOrder[j]] = <<>>
        BY <2>7, <2>8, NextInOrder DEF Idle
    <2>10. PICK m \in 1..Len(FlushOrder) : FlushOrder[m] = u
        BY Order
    <2>11. m \in 1..(n - 1) \/ m = n
        BY <2>9, <2>10, OrderLength
    <2>12. CASE u = t
        BY <2>1, <2>4, <2>5, <2>12 DEF TypeOK
    <2>13. CASE u # t
        <3>1. Whole(u)
            BY <2>5, <2>6, <2>10, <2>11, <2>13 DEF EarlierWhole
        <3> QED BY <2>1, <2>4, <2>13, <3>1 DEF Whole, TypeOK
    <2> QED BY <2>12, <2>13
<1> QED BY <1>1, FillInvariant, PTL DEF Spec, FillIsComplete

=============================================================================
