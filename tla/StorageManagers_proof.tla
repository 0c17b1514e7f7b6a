------------------------ MODULE StorageManagers_proof ------------------------
(***************************************************************************)
(* What a Table's columns are stored by and protected by: proofs about the *)
(* incremental storage manager (IsmStorage), the variable-shape arrays     *)
(* (IndirectArrays) and the table lock (TableLock), for every set of       *)
(* columns, values, readers, arrays and processes and every bound.         *)
(***************************************************************************)
EXTENDS IsmStorage, IndirectArrays, TableLock, SequenceTheorems, TLAPS

----------------------------------------------------------------------------
(* IsmStorage.  CellsReadBack speaks of the finished file only.  What      *)
(* flush() keeps up row by row is that for every row it has passed the     *)
(* entry in force has the row's value (Followed); a column that stores     *)
(* nothing at a row keeps it because its value there is that of its last   *)
(* entry.                                                                  *)

\* Entries are stored at the rows passed, with the cell's value there.
Stored ==
    \A e \in entries : e.row < scan /\ e.value = Written(cells[e.col][e.row])

\* Every row passed has an entry in force, and its value is the row's.
Followed ==
    \A c \in Column, r \in Row : r < scan =>
        /\ InForce(entries, c, r) # {}
        /\ \A e \in InForce(entries, c, r) : cells[c][e.row] = cells[c][r]

IInv ==
    /\ TypeOK
    /\ scan <= nrow + 1
    /\ scan <= 1 => entries = {}
    /\ Stored
    /\ Followed
    /\ file.written => file.entries = entries /\ scan = nrow + 1

USE IsmAssumption DEF Row, Cells, Entry

----------------------------------------------------------------------------
\* The entries a row adds.
NewEntry(e) ==
    /\ e \in Entry
    /\ e.row = scan
    /\ e.col \in Storing(scan)
    /\ e.value = Written(cells[e.col][scan])

\* Storing a row adds one entry for each storing column and no other.
LEMMA RowEntries ==
    ASSUME IInv, FlushRow
    PROVE  /\ scan \in Row
           /\ \A e \in entries' : e \in entries \/ (HasEntry(scan) /\ NewEntry(e))
           /\ entries \subseteq entries'
           /\ HasEntry(scan) =>
                \A c \in Storing(scan) : \E e \in entries' : e.col = c /\ e.row = scan
           /\ starts' \in Seq(Row)
           /\ count' \in 0..BucketEntries
           /\ UNCHANGED <<nrow, cells, file>>
           /\ scan' = scan + 1
<1> USE DEF IInv, TypeOK
<1>1. scan \in Row
  BY DEF FlushRow
<1>2. NextStarts(scan) \in Seq(Row)
  BY <1>1, AppendProperties DEF NextStarts
<1>3. starts' \in Seq(Row) /\ count' \in 0..BucketEntries
  <2>1. starts' = NextStarts(scan) \/ starts' = starts
    BY DEF FlushRow
  <2>2. count' = count \/ count' = 1 \/ (~BucketFull /\ count' = count + 1)
    BY DEF FlushRow
  <2>3. ~BucketFull => count + 1 \in 0..BucketEntries
    BY DEF BucketFull
  <2> QED
    BY <1>2, <2>1, <2>2, <2>3
<1> DEFINE added(c) == [bucket |-> Len(starts'), col |-> c, row |-> scan,
                        value |-> Written(cells[c][scan])]
<1>4. ASSUME NEW c \in Column PROVE added(c) \in Entry
  <2>1. Written(cells[c][scan]) \in Val
    BY <1>1 DEF Written
  <2>2. Len(starts') \in Nat
    BY <1>3
  <2> QED
    BY <1>1, <2>1, <2>2
<1>5. Storing(scan) \subseteq Column
  BY DEF Storing
<1>6. CASE HasEntry(scan)
  <2>1. entries' = entries \cup {added(c) : c \in Storing(scan)}
    BY <1>6 DEF FlushRow
  <2>2. \A c \in Storing(scan) : added(c) \in Entry
    BY <1>4, <1>5
  <2>3. \A c \in Storing(scan) : NewEntry(added(c))
    BY <2>2 DEF NewEntry
  <2>4. \A c \in Storing(scan) : added(c).col = c /\ added(c).row = scan
    OBVIOUS
  <2> HIDE DEF added
  <2> QED
    BY <1>1, <1>3, <1>6, <2>1, <2>3, <2>4 DEF FlushRow
<1>7. CASE ~HasEntry(scan)
  BY <1>1, <1>3, <1>7 DEF FlushRow
<1> QED
  BY <1>6, <1>7

\* The rows passed before keep their entries in force.
LEMMA EarlierRows ==
    ASSUME IInv, FlushRow, NEW c \in Column, NEW r \in Row, r < scan
    PROVE  InForce(entries', c, r) = InForce(entries, c, r)
<1>1. /\ \A e \in entries' : e \in entries \/ e.row = scan
      /\ entries \subseteq entries'
      /\ scan \in Row
  BY RowEntries DEF NewEntry
<1> QED
  BY <1>1 DEF InForce

\* Between two rows without an entry of a column, the entry in force stays.
LEMMA NothingStored ==
    ASSUME IInv, NEW es, es \subseteq Entry, NEW c \in Column, NEW r \in Row, r > 1,
           \A e \in es : e.col = c => e.row # r
    PROVE  InForce(es, c, r) = InForce(es, c, r - 1)
<1>1. \A e \in es : e.col = c => (e.row <= r <=> e.row <= r - 1)
  OBVIOUS
<1> QED
  BY <1>1 DEF InForce

\* The row flush() is at.
LEMMA CurrentRow ==
    ASSUME IInv, FlushRow, NEW c \in Column
    PROVE  /\ InForce(entries', c, scan) # {}
           /\ \A e \in InForce(entries', c, scan) : cells[c][e.row] = cells[c][scan]
<1> USE DEF IInv, TypeOK
<1>1. scan \in Row
  BY RowEntries
<1>2. entries' \subseteq Entry
  BY RowEntries DEF NewEntry
<1>3. CASE HasEntry(scan) /\ c \in Storing(scan)
  <2>1. PICK e \in entries' : e.col = c /\ e.row = scan
    BY <1>3, RowEntries
  <2>2. \A f \in entries' : f.row <= scan
    BY <1>1, RowEntries DEF Stored, NewEntry
  <2>3. e \in InForce(entries', c, scan)
    BY <1>1, <2>1, <2>2 DEF InForce
  <2>4. \A f \in InForce(entries', c, scan) : f.row = scan
    BY <1>1, <1>2, <2>1, <2>2 DEF InForce
  <2> QED
    BY <2>3, <2>4
<1>4. CASE ~(HasEntry(scan) /\ c \in Storing(scan))
  <2>1. \A e \in entries' : e.col = c => e \in entries
    BY <1>4, RowEntries DEF NewEntry
  <2>2. InForce(entries', c, scan) = InForce(entries, c, scan)
    BY <2>1, RowEntries DEF InForce
  <2>3. scan > 1
    BY <1>1, <1>4 DEF HasEntry, Storing
  <2>4. InForce(entries, c, scan) = InForce(entries, c, scan - 1)
    <3>1. \A e \in entries : e.col = c => e.row # scan
      BY <1>1 DEF Stored
    <3>2. entries \subseteq Entry
      OBVIOUS
    <3> QED
      BY <1>1, <2>3, <3>1, <3>2, NothingStored
  <2>5. /\ InForce(entries, c, scan - 1) # {}
        /\ \A e \in InForce(entries, c, scan - 1) : cells[c][e.row] = cells[c][scan - 1]
    <3>1. scan - 1 \in Row /\ scan - 1 < scan
      BY <1>1, <2>3
    <3> QED
      BY <3>1 DEF Followed
  <2>6. CASE HasEntry(scan)
    BY <1>4, <2>2, <2>4, <2>5, <2>6 DEF Storing
  <2>7. CASE ~HasEntry(scan)
    BY <2>2, <2>4, <2>5, <2>7 DEF HasEntry
  <2> QED
    BY <2>6, <2>7
<1> QED
  BY <1>3, <1>4

----------------------------------------------------------------------------
LEMMA InitIInv == Init => IInv
<1> SUFFICES ASSUME Init PROVE IInv
  OBVIOUS
<1> USE DEF Init
<1>1. NoCells \in Cells
  BY DEF NoCells
<1> QED
  BY <1>1 DEF IInv, TypeOK, Stored, Followed

LEMMA NextIInv == IInv /\ [Next]_vars => IInv'
<1> SUFFICES ASSUME IInv, [Next]_vars PROVE IInv'
  OBVIOUS
<1> USE DEF IInv, TypeOK
<1>1. ASSUME NEW n \in 0..MaxRows, Setup(n) PROVE IInv'
  BY <1>1 DEF Setup, NoCells, Stored, Followed
<1>2. ASSUME NEW c \in Column, NEW r \in Row, NEW v \in Val, WriteCell(c, r, v) PROVE IInv'
  BY <1>2 DEF WriteCell, Stored, Followed
<1>3. CASE FlushBegin
  BY <1>3 DEF FlushBegin, Stored, Followed
<1>4. CASE FlushRow
  <2>1. entries' \subseteq Entry
    BY <1>4, RowEntries DEF NewEntry
  <2>2. TypeOK'
    BY <1>4, <2>1, RowEntries, SMTT(20)
  <2>3. scan' <= nrow' + 1 /\ (scan' <= 1 => entries' = {}) /\ ~file'.written
    BY <1>4, RowEntries DEF FlushRow
  <2>4. Stored'
    BY <1>4, RowEntries DEF Stored, NewEntry
  <2>5. Followed'
    <3> SUFFICES ASSUME NEW c \in Column, NEW r \in Row, r < scan + 1
                 PROVE  /\ InForce(entries', c, r) # {}
                        /\ \A e \in InForce(entries', c, r) : cells[c][e.row] = cells[c][r]
      BY <1>4, RowEntries DEF Followed
    <3>1. CASE r < scan
      BY <1>4, <3>1, EarlierRows, ZenonT(30) DEF Followed
    <3>2. CASE r = scan
      BY <1>4, <3>2, CurrentRow
    <3> QED
      BY <3>1, <3>2
  <2> QED
    BY <2>2, <2>3, <2>4, <2>5
<1>5. CASE WriteFile
  <2>1. UNCHANGED <<nrow, cells, scan, entries, starts, count>>
    BY <1>5 DEF WriteFile
  <2>2. Stored' /\ Followed'
    BY <2>1 DEF Stored, Followed
  <2>3. file' = [written |-> TRUE, entries |-> entries, starts |-> starts] /\ scan = nrow + 1
    BY <1>5 DEF WriteFile
  <2>4. TypeOK'
    BY <2>1, <2>3
  <2> QED
    BY <2>1, <2>2, <2>3, <2>4
<1>6. CASE UNCHANGED vars
  <2>1. Stored' /\ Followed'
    BY <1>6 DEF vars, Stored, Followed
  <2> QED
    BY <1>6, <2>1 DEF vars
<1> QED
  BY <1>1, <1>2, <1>3, <1>4, <1>5, <1>6 DEF Next

\* For every table and every bucket size, what the reader finds for a cell in
\* the file flush() wrote is the value the writer had for it.
THEOREM CellsReadBackCorrect == Spec => []CellsReadBack
<1>1. IInv => CellsReadBack
  <2> SUFFICES ASSUME IInv, file.written, NEW c \in Column, NEW r \in 1..nrow
               PROVE  /\ InForce(file.entries, c, r) # {}
                      /\ \A e \in InForce(file.entries, c, r) : e.value = Written(cells[c][r])
    BY DEF CellsReadBack
  <2> USE DEF IInv, TypeOK
  <2>1. r \in Row /\ r < scan /\ file.entries = entries
    OBVIOUS
  <2>2. /\ InForce(entries, c, r) # {}
        /\ \A e \in InForce(entries, c, r) : cells[c][e.row] = cells[c][r]
    BY <2>1 DEF Followed
  <2>3. \A e \in InForce(entries, c, r) : e.value = Written(cells[c][e.row])
    BY DEF InForce, Stored
  <2> QED
    BY <2>1, <2>2, <2>3
<1> QED
  BY <1>1, InitIInv, NextIInv, PTL DEF Spec

\* In every step of create, writes and flush the writer's state stays typed: no
\* bucket takes more rows than fit, and entries are of the columns' types.
THEOREM IsmTypeCorrect == Spec => []TypeOK
<1>1. IInv => TypeOK
  BY DEF IInv
<1> QED
  BY <1>1, InitIInv, NextIInv, PTL DEF Spec

----------------------------------------------------------------------------
(* The index of the file.  While rows are passed, the buckets begun so far *)
(* start at increasing rows below the row flush() is at, so a new bucket   *)
(* starts after every entry stored before it.                              *)

Ordered(b) == \A i, j \in DOMAIN b : i < j => b[i] < b[j]

Placed(es, b) ==
    \A e \in es : /\ e.bucket \in DOMAIN b
                  /\ b[e.bucket] <= e.row
                  /\ e.bucket + 1 \in DOMAIN b => e.row < b[e.bucket + 1]

IndexInv ==
    /\ IInv
    /\ scan <= 1 => starts = <<>>
    /\ scan > 1 => starts # <<>> /\ starts[1] = 1
    /\ \A i \in DOMAIN starts : starts[i] < scan
    /\ Ordered(starts)
    /\ Placed(entries, starts)
    /\ file.written => file.starts = starts

LEMMA RowIndex ==
    ASSUME IndexInv, FlushRow
    PROVE  IndexInv'
<1>1. IInv' /\ scan \in Row /\ scan' = scan + 1 /\ starts' \in Seq(Row) /\ UNCHANGED file
  BY NextIInv, RowEntries DEF Next, IndexInv, FlushRow
<1>2. /\ starts \in Seq(Row) /\ Len(starts) \in Nat /\ DOMAIN starts = 1..Len(starts)
      /\ \A i \in DOMAIN starts : starts[i] \in Row /\ starts[i] < scan
      /\ Ordered(starts)
      /\ Placed(entries, starts)
      /\ scan > 1 => starts # <<>> /\ starts[1] = 1
  BY DEF IndexInv, IInv, TypeOK
<1>3. \A e \in entries : e.bucket \in DOMAIN starts /\ e.row \in Row /\ e.row < scan
  BY DEF IndexInv, IInv, TypeOK, Stored, Placed
<1>4. ~file.written
  BY DEF FlushRow, IndexInv, IInv, TypeOK
<1>5. SUFFICES /\ starts' # <<>> /\ starts'[1] = 1
               /\ \A i \in DOMAIN starts' : starts'[i] < scan + 1
               /\ Ordered(starts')
               /\ Placed(entries', starts')
  BY <1>1, <1>4 DEF IndexInv
<1>6. CASE ~HasEntry(scan)
  <2>1. UNCHANGED <<entries, starts>>
    BY <1>6 DEF FlushRow
  <2>2. scan > 1
    BY <1>1, <1>6 DEF HasEntry
  <2>3. \A i \in DOMAIN starts : starts[i] < scan + 1
    BY <1>1, <1>2
  <2> QED
    BY <1>2, <2>1, <2>2, <2>3
<1>7. CASE HasEntry(scan)
  <2>1. /\ starts' = NextStarts(scan)
        /\ entries' = entries \cup
             {[bucket |-> Len(starts'), col |-> c, row |-> scan,
               value |-> Written(cells[c][scan])] : c \in Storing(scan)}
    BY <1>7 DEF FlushRow
  <2>2. \A e \in entries' : e \in entries \/ (e.bucket = Len(starts') /\ e.row = scan)
    BY <2>1
  <2>3. CASE BucketFull
    <3>1. starts' = Append(starts, scan)
      BY <2>1, <2>3 DEF NextStarts
    <3>2. /\ Len(starts') = Len(starts) + 1
          /\ starts'[Len(starts) + 1] = scan
          /\ \A i \in 1..Len(starts) : starts'[i] = starts[i]
      BY <1>1, <1>2, <3>1, AppendProperties
    <3>3. DOMAIN starts' = 1..(Len(starts) + 1)
      BY <1>1, <3>2
    <3> DEFINE n == Len(starts)
    <3>4. n \in Nat /\ DOMAIN starts = 1..n /\ DOMAIN starts' = 1..(n + 1)
      BY <1>2, <3>3
    <3>5. starts'[n + 1] = scan /\ scan \in Nat /\ Len(starts') = n + 1
      BY <1>1, <3>2
    <3>6. \A i \in 1..n : starts'[i] = starts[i] /\ starts[i] \in Nat /\ starts[i] < scan
      BY <1>2, <3>2
    <3> HIDE DEF n
    <3>7. \A i \in 1..(n + 1) : i \in 1..n \/ i = n + 1
      BY <3>4
    <3>8. Ordered(starts')
      <4> SUFFICES ASSUME NEW i \in 1..(n + 1), NEW j \in 1..(n + 1), i < j
                   PROVE  starts'[i] < starts'[j]
        BY <3>4 DEF Ordered
      <4>1. i \in 1..n
        BY <3>4
      <4>2. CASE j \in 1..n
        BY <1>2, <3>4, <3>6, <4>1, <4>2 DEF Ordered
      <4>3. CASE j = n + 1
        BY <3>5, <3>6, <4>1, <4>3
      <4> QED
        BY <3>7, <4>2, <4>3
    <3>9. Placed(entries', starts')
      <4>1. ASSUME NEW e \in entries
            PROVE  /\ e.bucket \in 1..(n + 1)
                   /\ starts'[e.bucket] <= e.row
                   /\ e.bucket + 1 \in 1..(n + 1) => e.row < starts'[e.bucket + 1]
        <5>1. e.bucket \in 1..n /\ e.row < scan
          BY <1>3, <3>4
        <5>2. starts'[e.bucket] <= e.row
          BY <1>2, <3>6, <5>1 DEF Placed
        <5>3. CASE e.bucket + 1 \in 1..n
          BY <1>2, <3>4, <3>6, <5>1, <5>2, <5>3 DEF Placed
        <5>4. CASE e.bucket = n
          BY <3>4, <3>5, <5>1, <5>2, <5>4
        <5> QED
          BY <3>4, <5>1, <5>3, <5>4
      <4>2. ASSUME NEW e \in entries', e.bucket = n + 1, e.row = scan
            PROVE  /\ e.bucket \in 1..(n + 1)
                   /\ starts'[e.bucket] <= e.row
                   /\ e.bucket + 1 \in 1..(n + 1) => e.row < starts'[e.bucket + 1]
        BY <3>4, <3>5, <4>2
      <4> QED
        BY <2>2, <3>4, <3>5, <4>1, <4>2 DEF Placed
    <3>10. \A i \in DOMAIN starts' : starts'[i] < scan + 1
      BY <3>4, <3>5, <3>6, <3>7
    <3>11. starts' # <<>> /\ starts'[1] = 1
      <4>1. CASE scan = 1
        <5>1. Len(starts) = 0
          BY <1>2, <4>1
        <5> QED
          BY <3>2, <3>3, <4>1, <5>1
      <4>2. CASE scan # 1
        BY <1>1, <1>2, <3>2, <3>3, <4>2, EmptySeq
      <4> QED
        BY <4>1, <4>2
    <3> QED
      BY <3>8, <3>9, <3>10, <3>11
  <2>4. CASE ~BucketFull
    <3>1. starts' = starts /\ starts # <<>>
      BY <2>1, <2>4 DEF NextStarts, BucketFull
    <3>2. Len(starts) \in DOMAIN starts /\ Len(starts) + 1 \notin DOMAIN starts
      BY <1>2, <3>1, EmptySeq
    <3>3. Placed(entries', starts')
      BY <1>1, <1>2, <2>2, <3>1, <3>2 DEF Placed
    <3>4. scan > 1
      BY <1>1, <1>2, <3>2
    <3>5. \A i \in DOMAIN starts : starts[i] < scan + 1
      BY <1>1, <1>2
    <3> QED
      BY <1>2, <3>1, <3>3, <3>4, <3>5
  <2> QED
    BY <2>3, <2>4
<1> QED
  BY <1>6, <1>7

\* For every table and bucket size, the index of the file sends every row to the
\* bucket that holds the entries stored at it.
THEOREM IndexCorrect == Spec => []IndexFindsEntries
<1>1. Init => IndexInv
  BY InitIInv DEF Init, IndexInv, Ordered, Placed
<1>2. IndexInv /\ [Next]_vars => IndexInv'
  <2> SUFFICES ASSUME IndexInv, [Next]_vars PROVE IndexInv'
    OBVIOUS
  <2>1. IInv'
    BY NextIInv DEF IndexInv
  <2>2. ASSUME NEW n \in 0..MaxRows, Setup(n) PROVE IndexInv'
    BY <2>1, <2>2 DEF Setup, IndexInv
  <2>3. ASSUME NEW c \in Column, NEW r \in Row, NEW v \in Val, WriteCell(c, r, v) PROVE IndexInv'
    BY <2>1, <2>3 DEF WriteCell, IndexInv
  <2>4. CASE FlushBegin
    BY <2>1, <2>4 DEF FlushBegin, IndexInv
  <2>5. CASE WriteFile
    BY <2>1, <2>5 DEF WriteFile, IndexInv
  <2>6. CASE UNCHANGED vars
    BY <2>1, <2>6 DEF vars, IndexInv
  <2> QED
    BY <2>2, <2>3, <2>4, <2>5, <2>6, RowIndex DEF Next
<1>3. IndexInv => IndexFindsEntries
  BY DEF IndexInv, IInv, TypeOK, IndexFindsEntries, Ordered, Placed
<1> QED
  BY <1>1, <1>2, <1>3, PTL DEF Spec

HIDE IsmAssumption DEF Row, Cells, Entry

----------------------------------------------------------------------------
(* IndirectArrays.  WrittenArraysReadBack speaks of the two files at the   *)
(* end of a flush.  What makes it true are the writer's offsets and buffer *)
(* at any time: the offset of a row that was written leads, in the file    *)
(* that the buffer will become (ToWrite), to the whole entry of its last   *)
(* array (OffsetsLead), and the files follow the writer step by step       *)
(* (FilesFollow).                                                          *)
(*                                                                         *)
(* MixedFilesShowThePast pairs offsets and words of different moments.  As *)
(* long as the creator alone writes, every table.f0i anybody has is a      *)
(* beginning of ToWrite (WordsArePrefixes) and every offset anybody has    *)
(* leads to an entry of this row in ToWrite (AllOffsetsLead); once it is   *)
(* gone, the pairs stay as they are (PairsShowThePast).                    *)

\* What table.f0i holds when the writer's buffer is written out.
ToWrite == FileHeader \o buf

\* The whole entry of an array is in the words at an offset.
EntryAt(words, at, array) ==
    /\ at \in Nat \ {0} /\ at + 1 + Len(array) <= Len(words)
    /\ words[at + 1] = Len(array)
    /\ \A i \in 1..Len(array) : words[at + 1 + i] = array[i]

\* As much of it as the words go.
EntryCut(words, at, array) ==
    at < Len(words) =>
        /\ words[at + 1] = Len(array)
        /\ \A i \in 1..Len(array) : at + 1 + i <= Len(words) => words[at + 1 + i] = array[i]

Begins(words, all) ==
    Len(words) <= Len(all) /\ \A i \in 1..Len(words) : words[i] = all[i]

PastTyped == past \in [ArrayRow -> Seq(Array)]

OffsetsLead ==
    \A r \in DOMAIN offs : past[r] # <<>> => EntryAt(ToWrite, offs[r], Last(past[r]))

FilesFollow ==
    /\ ~writing => pc = "idle" /\ offs = <<>> /\ buf = <<>>
    /\ pc \in {"openF0i", "f0i", "dat", "rebuild"} => f0 = [state |-> "ok", off |-> offs]
    /\ pc = "dat" => f0i = ToWrite
    /\ pc = "rebuild" => rows = Len(offs) /\ op.call \in {"add", "remove"}

OpFits ==
    /\ pc # "idle" =>
          /\ op.call = "add" => Len(offs) < MaxArrayRows
          /\ op.call = "remove" => op.row \in DOMAIN offs
          /\ op.call = "flush" => op = NoOp
    /\ pc \in {"dat", "rebuild"} => op.call # "create"

ArraysInv == ArraysTypeOK /\ PastTyped /\ OffsetsLead /\ FilesFollow /\ OpFits

----------------------------------------------------------------------------
Everybody == Readers \cup {Own}
AllOffs == {f0.off, offs} \cup {reader[p].off : p \in Everybody}
AllWords == {f0i} \cup {reader[p].words : p \in Everybody}

WordsArePrefixes == writing => \A words \in AllWords : Begins(words, ToWrite)

AllOffsetsLead ==
    writing => \A off \in AllOffs : \A r \in DOMAIN off : off[r] # 0 =>
        \E array \in Range(past[r]) : EntryAt(ToWrite, off[r], array)

PairsShowThePast ==
    ~writing => \A off \in AllOffs, words \in AllWords : \A r \in DOMAIN off : off[r] # 0 =>
        \E array \in Range(past[r]) : EntryCut(words, off[r], array)

NothingYet ==
    f0.state = "none" =>
        ~writing /\ f0.off = <<>> /\ f0i = <<>> /\ \A p \in Everybody : reader[p] = Unread

CreatorInv ==
    /\ ArraysInv /\ WordsArePrefixes /\ AllOffsetsLead /\ PairsShowThePast /\ NothingYet
    /\ op = NoOp \/ op.call = "create"

----------------------------------------------------------------------------
(***************************************************************************)
(* Entries in words.                                                       *)
(***************************************************************************)
LEMMA ArrayTyped ==
    ASSUME NEW array \in Array
    PROVE  /\ array \in Seq(Element) /\ Len(array) \in Nat \ {0}
           /\ Len(array) \notin Element
           /\ ArrayEntry(array) \in Words /\ Len(ArrayEntry(array)) = 1 + Len(array)
           /\ ArrayEntry(array)[1] = Len(array)
           /\ \A i \in 1..Len(array) : ArrayEntry(array)[1 + i] = array[i]
<1>1. array \in Seq(Element) /\ array # <<>>
  BY IndirectAssumption
<1>2. Len(array) \in Nat \ {0}
  BY <1>1, EmptySeq
<1>3. <<Len(array)>> \in Seq(Element \cup Nat) /\ array \in Seq(Element \cup Nat)
      /\ Len(<<Len(array)>>) = 1 /\ <<Len(array)>>[1] = Len(array)
  BY <1>1, <1>2
<1> QED
  BY <1>1, <1>2, <1>3, ConcatProperties, IndirectAssumption DEF ArrayEntry, Words

LEMMA ToWriteTyped ==
    ASSUME buf \in Words
    PROVE  ToWrite \in Words /\ Len(ToWrite) = 1 + Len(buf)
<1>1. FileHeader \in Words /\ Len(FileHeader) = 1
  BY DEF FileHeader, Words
<1> QED
  BY <1>1, ConcatProperties, ZenonT(30) DEF ToWrite, Words

\* An entry that is appended is where the words ended.
LEMMA EntryWritten ==
    ASSUME NEW words \in Words, words # <<>>, NEW array \in Array
    PROVE  /\ words \o ArrayEntry(array) \in Words
           /\ Len(words \o ArrayEntry(array)) = Len(words) + 1 + Len(array)
           /\ EntryAt(words \o ArrayEntry(array), Len(words), array)
<1>1. Len(words) \in Nat \ {0} /\ words \in Seq(Element \cup Nat)
  BY EmptySeq DEF Words
<1>2. /\ ArrayEntry(array) \in Seq(Element \cup Nat)
      /\ Len(ArrayEntry(array)) = 1 + Len(array) /\ Len(array) \in Nat
  BY ArrayTyped DEF Words
<1> DEFINE all == words \o ArrayEntry(array)
<1>3. /\ all \in Seq(Element \cup Nat) /\ Len(all) = Len(words) + 1 + Len(array)
      /\ \A i \in 1..Len(all) : all[i] = IF i <= Len(words) THEN words[i]
                                        ELSE ArrayEntry(array)[i - Len(words)]
  <2> HIDE DEF all
  <2>1. /\ all \in Seq(Element \cup Nat) /\ Len(all) = Len(words) + Len(ArrayEntry(array))
        /\ \A i \in 1..Len(words) + Len(ArrayEntry(array)) :
              all[i] = IF i <= Len(words) THEN words[i] ELSE ArrayEntry(array)[i - Len(words)]
    BY <1>1, <1>2, ConcatProperties DEF all
  <2> QED
    BY <1>1, <1>2, <2>1
<1> HIDE DEF all
<1>4. all[Len(words) + 1] = Len(array)
  BY <1>1, <1>3, ArrayTyped
<1>5. ASSUME NEW i \in 1..Len(array) PROVE all[Len(words) + 1 + i] = array[i]
  <2>1. Len(words) + 1 + i \in 1..Len(all) /\ ~(Len(words) + 1 + i <= Len(words))
        /\ (Len(words) + 1 + i) - Len(words) = 1 + i
    BY <1>1, <1>3, ArrayTyped
  <2> QED
    BY <1>3, <2>1, ArrayTyped
<1>6. EntryAt(all, Len(words), array)
  BY <1>1, <1>3, <1>4, <1>5, ArrayTyped DEF EntryAt
<1> QED
  BY <1>3, <1>6 DEF all, Words

\* What is appended leaves an entry where it is.
LEMMA EntryStays ==
    ASSUME NEW words \in Words, NEW more \in Words, NEW at, NEW array \in Array,
           EntryAt(words, at, array)
    PROVE  EntryAt(words \o more, at, array)
<1>1. /\ Len(words \o more) = Len(words) + Len(more) /\ Len(words) \in Nat /\ Len(more) \in Nat
      /\ \A i \in 1..Len(words) : (words \o more)[i] = words[i]
  BY ConcatProperties DEF Words
<1>2. Len(array) \in Nat
  BY ArrayTyped
<1> QED
  BY <1>1, <1>2 DEF EntryAt

LEMMA SubSeqIsArray ==
    ASSUME NEW words \in Words, NEW at \in Nat, NEW array \in Array,
           at + 1 + Len(array) <= Len(words),
           \A i \in 1..Len(array) : words[at + 1 + i] = array[i]
    PROVE  SubSeq(words, at + 2, at + 1 + Len(array)) = array
<1>1. Len(array) \in Nat /\ array \in Seq(Element) /\ Len(words) \in Nat
  BY ArrayTyped DEF Words
<1>2. /\ at + 2 \in 1..Len(words) + 1
      /\ at + 1 + Len(array) \in (at + 2) - 1..Len(words)
  BY <1>1
<1> DEFINE cut == SubSeq(words, at + 2, at + 1 + Len(array))
<1>3. /\ cut \in Seq(Element \cup Nat) /\ Len(cut) = Len(array)
      /\ \A i \in 1..Len(array) : cut[i] = words[at + 1 + i]
  BY <1>1, <1>2, SubSeqProperties DEF Words
<1> HIDE DEF cut
<1>4. cut = array
  BY <1>1, <1>3, SeqEqual
<1> QED
  BY <1>4 DEF cut

\* The reader finds a whole entry, and of one that is cut off nothing.
LEMMA EntryReads ==
    ASSUME NEW words \in Words, NEW off, NEW r \in DOMAIN off, NEW array \in Array,
           EntryAt(words, off[r], array)
    PROVE  ReadArray(off, words, r) = array
<1>1. /\ Len(array) \in Nat /\ Len(array) \notin Element /\ Len(words) \in Nat
      /\ off[r] \in Nat \ {0}
  BY ArrayTyped DEF Words, EntryAt
<1>2. /\ off[r] < Len(words) /\ words[off[r] + 1] = Len(array)
      /\ ~(Len(words) - off[r] < 1 + Len(array))
  BY <1>1 DEF EntryAt
<1>3. SubSeq(words, off[r] + 2, off[r] + 1 + Len(array)) = array
  BY <1>1, SubSeqIsArray DEF EntryAt
<1> QED
  BY <1>1, <1>2, <1>3, SMTT(20) DEF ReadArray

LEMMA CutEntryReads ==
    ASSUME NEW words \in Words, NEW off, NEW r \in DOMAIN off, NEW array \in Array,
           off[r] \in Nat, EntryCut(words, off[r], array)
    PROVE  ReadArray(off, words, r) \in {None, array}
<1>1. Len(array) \in Nat /\ Len(array) \notin Element /\ Len(words) \in Nat
  BY ArrayTyped DEF Words
<1>2. CASE off[r] >= Len(words) \/ off[r] = 0
  BY <1>2 DEF ReadArray
<1>3. CASE off[r] < Len(words) /\ off[r] # 0
  <2>1. words[off[r] + 1] = Len(array)
    BY <1>3 DEF EntryCut
  <2>2. CASE Len(words) - off[r] < 1 + Len(array)
    BY <1>1, <1>3, <2>1, <2>2 DEF ReadArray
  <2>3. CASE ~(Len(words) - off[r] < 1 + Len(array))
    <3> DEFINE at == off[r]
    <3>4. at \in Nat /\ at + 1 + Len(array) <= Len(words)
      BY <1>1, <2>3
    <3>5. \A i \in 1..Len(array) : words[at + 1 + i] = array[i]
      BY <1>1, <1>3, <3>4 DEF EntryCut
    <3>1. SubSeq(words, off[r] + 2, off[r] + 1 + Len(array)) = array
      <4> HIDE DEF at
      <4>1. SubSeq(words, at + 2, at + 1 + Len(array)) = array
        BY <3>4, <3>5, SubSeqIsArray
      <4> QED
        BY <4>1 DEF at
    <3>2. /\ ~(off[r] >= Len(words)) /\ r \in DOMAIN off /\ words[off[r] + 1] \notin Element
          /\ ~(Len(words) - off[r] < 1 + words[off[r] + 1])
      BY <1>1, <1>3, <2>1, <2>3
    <3>3. ReadArray(off, words, r) = SubSeq(words, off[r] + 2, off[r] + 1 + words[off[r] + 1])
      BY <1>3, <3>2 DEF ReadArray
    <3> QED
      BY <2>1, <3>1, <3>3
  <2> QED
    BY <2>2, <2>3
<1> QED
  BY <1>1, <1>2, <1>3

----------------------------------------------------------------------------
(***************************************************************************)
(* Types.                                                                  *)
(***************************************************************************)
LEMMA OffsetsTyped ==
    /\ \A n \in 0..MaxArrayRows : NoOffsets(n) \in Offsets
    /\ \A off \in Offsets :
          /\ Len(off) \in 0..MaxArrayRows /\ DOMAIN off = 1..Len(off)
          /\ off \in Seq(0..(MaxWords - 1)) /\ \A r \in DOMAIN off : off[r] \in 0..(MaxWords - 1)
    /\ \A n \in 0..MaxArrayRows : [1..n -> 0..(MaxWords - 1)] \subseteq Offsets
    /\ <<>> \in Offsets
<1>1. 0 \in 0..(MaxWords - 1) /\ 0 \in 0..MaxArrayRows
  BY IndirectAssumption
<1>2. \A n \in 0..MaxArrayRows : [1..n -> 0..(MaxWords - 1)] \subseteq Offsets
  BY DEF Offsets
<1>3. ASSUME NEW off \in Offsets
      PROVE  /\ Len(off) \in 0..MaxArrayRows /\ DOMAIN off = 1..Len(off)
             /\ off \in Seq(0..(MaxWords - 1))
             /\ \A r \in DOMAIN off : off[r] \in 0..(MaxWords - 1)
  <2>1. PICK n \in 0..MaxArrayRows : off \in [1..n -> 0..(MaxWords - 1)]
    BY DEF Offsets
  <2>2. n \in Nat
    BY <2>1, IndirectAssumption
  <2>3. off \in Seq(0..(MaxWords - 1))
    BY <2>1, <2>2, SeqDef
  <2>4. Len(off) = n
    BY <2>1, <2>2, <2>3, LenProperties
  <2> QED
    BY <2>1, <2>3, <2>4
<1>4. \A n \in 0..MaxArrayRows : NoOffsets(n) \in [1..n -> 0..(MaxWords - 1)]
  BY <1>1 DEF NoOffsets
<1>5. <<>> \in [1..0 -> 0..(MaxWords - 1)]
  OBVIOUS
<1> QED
  BY <1>1, <1>2, <1>3, <1>4, <1>5

LEMMA OpenedReaderTyped ==
    ASSUME ArraysTypeOK
    PROVE  /\ OpenedReader \in [state : {"unread", "failed", "open"}, off : Offsets,
                                loaded : BOOLEAN, words : Words]
           /\ Unread \in [state : {"unread", "failed", "open"}, off : Offsets,
                          loaded : BOOLEAN, words : Words]
           /\ OpenedReader.words = <<>> /\ OpenedReader.loaded = FALSE
           /\ Unread.words = <<>> /\ Unread.loaded = FALSE /\ Unread.off = <<>>
           /\ OpenedReader.off = <<>> \/ OpenedReader.off = f0.off
<1>1. <<>> \in Words
  BY DEF Words
<1> QED
  BY <1>1, OffsetsTyped DEF ArraysTypeOK, OpenedReader, Unread

----------------------------------------------------------------------------
(***************************************************************************)
(* Each step keeps ArraysInv.                                              *)
(***************************************************************************)
Record == [state : {"unread", "failed", "open"}, off : Offsets, loaded : BOOLEAN, words : Words]

LEMMA CreateKeeps ==
    ASSUME ArraysInv, NEW n \in 0..MaxArrayRows, Create(n)
    PROVE  ArraysInv'
<1>1. /\ f0' = [f0 EXCEPT !.state = "torn"] /\ offs' = NoOffsets(n) /\ buf' = <<>>
      /\ writing' = TRUE /\ rows' = n /\ pc' = "f0" /\ op' = [NoOp EXCEPT !.call = "create"]
      /\ kept' = [r \in ArrayRow |-> None] /\ past' = [r \in ArrayRow |-> <<>>]
      /\ UNCHANGED <<f0i, reader>>
  BY DEF Create
<1>2. <<>> \in Words /\ <<>> \in Seq(Array) /\ 0 \in 0..MaxArrayRows
  BY IndirectAssumption DEF Words
<1>3. op'.call = "create" /\ op'.row = 0 /\ op' \in [call : {"create"}, row : {0}]
  BY <1>1 DEF NoOp
<1>4. DOMAIN offs' \subseteq ArrayRow
  BY <1>1, IndirectAssumption DEF NoOffsets, ArrayRow
<1>5. ArraysTypeOK'
  BY <1>1, <1>2, <1>3, OffsetsTyped DEF ArraysInv, ArraysTypeOK
<1>6. PastTyped' /\ OffsetsLead'
  BY <1>1, <1>2, <1>4 DEF PastTyped, OffsetsLead
<1>7. FilesFollow' /\ OpFits'
  BY <1>1, <1>3 DEF FilesFollow, OpFits
<1> QED
  BY <1>5, <1>6, <1>7 DEF ArraysInv

LEMMA OpenRwKeeps ==
    ASSUME ArraysInv, OpenRw
    PROVE  ArraysInv'
<1>1. /\ ~writing
      /\ f0.state = "ok" => rows <= Len(f0.off)
      /\ writing' = TRUE /\ reader' = [reader EXCEPT ![Own] = OpenedReader]
      /\ offs' = IF f0.state = "ok" THEN SubSeq(f0.off, 1, rows) ELSE NoOffsets(rows)
      /\ buf' = <<>> /\ past' = [r \in ArrayRow |-> <<>>] /\ DOMAIN kept' = ArrayRow
      /\ UNCHANGED <<rows, f0, f0i, pc, op>>
  BY DEF OpenRw
<1>2. <<>> \in Words /\ <<>> \in Seq(Array)
  BY DEF Words
<1>3. /\ rows \in 0..MaxArrayRows /\ f0.off \in Offsets /\ pc = "idle"
      /\ reader \in [Readers \cup {Own} -> Record] /\ DOMAIN past = ArrayRow
  BY <1>1 DEF ArraysInv, ArraysTypeOK, FilesFollow, Record
<1>4. offs' \in [1..rows -> 0..(MaxWords - 1)]
  <2>1. CASE f0.state = "ok"
    <3>1. /\ f0.off \in Seq(0..(MaxWords - 1)) /\ Len(f0.off) \in 0..MaxArrayRows
          /\ rows <= Len(f0.off)
      BY <1>1, <1>3, <2>1, OffsetsTyped
    <3>2. \A i \in 1..rows : f0.off[i] \in 0..(MaxWords - 1)
      BY <1>3, <3>1, ElementOfSeq, IndirectAssumption
    <3>3. /\ SubSeq(f0.off, 1, rows) \in Seq(0..(MaxWords - 1))
          /\ Len(SubSeq(f0.off, 1, rows)) = rows
      BY <1>3, <3>2, SubSeqProperties
    <3> QED
      BY <1>1, <2>1, <3>3, LenProperties
  <2>2. CASE f0.state # "ok"
    BY <1>1, <2>2, IndirectAssumption DEF NoOffsets
  <2> QED
    BY <2>1, <2>2
<1>5. offs' \in Offsets
  BY <1>3, <1>4, OffsetsTyped
<1>6. DOMAIN offs' \subseteq ArrayRow
  BY <1>3, <1>4, IndirectAssumption DEF ArrayRow
<1>7. reader' \in [Readers \cup {Own} -> Record]
  BY <1>1, <1>3, OpenedReaderTyped DEF ArraysInv, Record
<1>8. ArraysTypeOK'
  BY <1>1, <1>2, <1>3, <1>5, <1>7 DEF ArraysInv, ArraysTypeOK, Record
<1>9. PastTyped' /\ OffsetsLead'
  BY <1>1, <1>2, <1>6 DEF PastTyped, OffsetsLead
<1>10. FilesFollow' /\ OpFits'
  BY <1>1, <1>3 DEF FilesFollow, OpFits
<1> QED
  BY <1>8, <1>9, <1>10 DEF ArraysInv

\* What write_indirect_array does to the words that wait to be written.
LEMMA WriteAppends ==
    ASSUME ArraysInv, NEW r \in ArrayRow, NEW array \in Array, WriteArray(r, array)
    PROVE  /\ ToWrite \in Words /\ ToWrite # <<>> /\ Len(ToWrite) = 1 + Len(buf)
           /\ ToWrite' = ToWrite \o ArrayEntry(array) /\ buf' \in Words
           /\ offs'[r] = Len(ToWrite) /\ EntryAt(ToWrite', offs'[r], array)
           /\ Len(ToWrite) \in 1..(MaxWords - 1)
           /\ \A k \in DOMAIN offs : k # r => offs'[k] = offs[k]
           /\ DOMAIN offs' = DOMAIN offs
<1>1. /\ r \in DOMAIN offs /\ buf' = buf \o ArrayEntry(array)
      /\ offs' = [offs EXCEPT ![r] = Len(FileHeader) + Len(buf)]
      /\ Len(buf) + Len(ArrayEntry(array)) <= MaxWords
  BY DEF WriteArray
<1>2. buf \in Seq(Element \cup Nat) /\ FileHeader \in Seq(Element \cup Nat)
      /\ ArrayEntry(array) \in Seq(Element \cup Nat) /\ Len(FileHeader) = 1
  BY ArrayTyped DEF ArraysInv, ArraysTypeOK, Words, FileHeader
<1>3. ToWrite \in Words /\ Len(ToWrite) = 1 + Len(buf) /\ Len(buf) \in Nat /\ ToWrite # <<>>
  <2>1. ToWrite \in Words /\ Len(ToWrite) = 1 + Len(buf) /\ Len(buf) \in Nat
    BY <1>2, ToWriteTyped DEF Words
  <2> QED
    BY <2>1, EmptySeq
<1>4. ToWrite' = ToWrite \o ArrayEntry(array)
  BY <1>1, <1>2, ConcatAssociative, SMTT(20) DEF ToWrite
<1>5. buf' \in Words
  BY <1>1, <1>2, ConcatProperties DEF Words
<1>6. offs'[r] = Len(ToWrite) /\ DOMAIN offs' = DOMAIN offs
      /\ \A k \in DOMAIN offs : k # r => offs'[k] = offs[k]
  BY <1>1, <1>2, <1>3
<1>7. Len(ToWrite) \in 1..(MaxWords - 1)
  BY <1>1, <1>3, ArrayTyped, IndirectAssumption
<1> QED
  BY <1>3, <1>4, <1>5, <1>6, <1>7, EntryWritten

LEMMA WriteArrayKeeps ==
    ASSUME ArraysInv, NEW r \in ArrayRow, NEW array \in Array, WriteArray(r, array)
    PROVE  ArraysInv'
<1>1. /\ writing /\ pc = "idle" /\ r \in DOMAIN offs
      /\ past' = [past EXCEPT ![r] = Append(@, array)]
      /\ UNCHANGED <<rows, f0, f0i, writing, pc, op, reader, kept>>
  BY DEF WriteArray
<1>2. /\ past \in [ArrayRow -> Seq(Array)] /\ offs \in Offsets
  BY DEF ArraysInv, ArraysTypeOK, PastTyped
<1>3. /\ past' \in [ArrayRow -> Seq(Array)] /\ past'[r] = Append(past[r], array)
      /\ \A k \in ArrayRow : k # r => past'[k] = past[k]
  BY <1>1, <1>2
<1>4. past[r] \in Seq(Array) /\ Last(past'[r]) = array
  BY <1>2, <1>3 DEF Last
<1>5. offs' \in Offsets
  <2>1. /\ DOMAIN offs = 1..Len(offs) /\ Len(offs) \in 0..MaxArrayRows
        /\ offs \in [1..Len(offs) -> 0..(MaxWords - 1)]
    BY <1>2, OffsetsTyped, LenProperties
  <2>2. Len(ToWrite) \in 0..(MaxWords - 1)
    BY WriteAppends
  <2>3. Len(FileHeader) + Len(buf) \in 0..(MaxWords - 1)
        /\ offs' = [offs EXCEPT ![r] = Len(FileHeader) + Len(buf)]
    BY <2>2, WriteAppends DEF WriteArray, FileHeader
  <2>4. offs' \in [1..Len(offs) -> 0..(MaxWords - 1)]
    BY <2>1, <2>3
  <2> QED
    BY <2>1, <2>4, OffsetsTyped
<1>6. ArraysTypeOK'
  <2>1. DOMAIN past' = ArrayRow
    BY <1>3
  <2> QED
    BY <1>1, <1>5, <2>1, WriteAppends DEF ArraysInv, ArraysTypeOK
<1>7. OffsetsLead'
  <2> SUFFICES ASSUME NEW k \in DOMAIN offs', (past'[k]) # <<>>
               PROVE  EntryAt(ToWrite', offs'[k], Last(past'[k]))
    BY DEF OffsetsLead
  <2>1. CASE k = r
    BY <1>4, <2>1, WriteAppends
  <2>2. CASE k # r
    <3>1. k \in ArrayRow
      <4>1. k \in 1..Len(offs) /\ Len(offs) \in 0..MaxArrayRows
        BY <1>2, OffsetsTyped, WriteAppends
      <4> QED
        BY <4>1, IndirectAssumption DEF ArrayRow
    <3>2. past'[k] = past[k] /\ offs'[k] = offs[k] /\ k \in DOMAIN offs /\ past[k] # <<>>
      BY <1>3, <2>2, <3>1, WriteAppends
    <3>3. EntryAt(ToWrite, offs[k], Last(past[k]))
      BY <3>2 DEF ArraysInv, OffsetsLead
    <3>4. Last(past[k]) \in Array
      <4>1. past[k] \in Seq(Array)
        BY <1>2, <3>1
      <4>2. Len(past[k]) \in Nat \ {0}
        BY <3>2, <4>1, EmptySeq
      <4> QED
        BY <4>1, <4>2, ElementOfSeq DEF Last
    <3>5. EntryAt(ToWrite \o ArrayEntry(array), offs[k], Last(past[k]))
      BY <3>3, <3>4, EntryStays, WriteAppends, ArrayTyped
    <3> QED
      BY <3>2, <3>5, WriteAppends
  <2> QED
    BY <2>1, <2>2
<1>8. FilesFollow' /\ OpFits'
  BY <1>1 DEF ArraysInv, FilesFollow, OpFits
<1> QED
  BY <1>3, <1>6, <1>7, <1>8 DEF ArraysInv, PastTyped

LEMMA StartFlushKeeps ==
    ASSUME ArraysInv, NEW o, StartFlush(o),
           \/ o = NoOp
           \/ o = [NoOp EXCEPT !.call = "add"] /\ Len(offs) < MaxArrayRows
           \/ \E r \in ArrayRow : r \in DOMAIN offs /\ o = [call |-> "remove", row |-> r]
    PROVE  ArraysInv'
<1>1. /\ writing /\ f0' = [state |-> "torn", off |-> <<>>] /\ pc' = "f0" /\ op' = o
      /\ UNCHANGED <<rows, f0i, writing, offs, buf, reader, kept, past>>
  BY DEF StartFlush
<1>2. /\ o \in [call : {"flush", "add", "remove"}, row : 0..MaxArrayRows]
      /\ o.call = "add" => Len(offs) < MaxArrayRows
      /\ o.call = "remove" => o.row \in DOMAIN offs
      /\ o.call = "flush" => o = NoOp
  BY IndirectAssumption DEF NoOp, ArrayRow
<1>3. ArraysTypeOK'
  BY <1>1, <1>2, OffsetsTyped DEF ArraysInv, ArraysTypeOK
<1>4. PastTyped' /\ OffsetsLead'
  BY <1>1 DEF ArraysInv, PastTyped, OffsetsLead, ToWrite
<1>5. FilesFollow' /\ OpFits'
  BY <1>1, <1>2 DEF FilesFollow, OpFits
<1> QED
  BY <1>3, <1>4, <1>5 DEF ArraysInv

LEMMA FlushF0Keeps == ASSUME ArraysInv, FlushF0 PROVE ArraysInv'
<1>1. /\ pc = "f0" /\ f0' = [state |-> "ok", off |-> offs] /\ pc' = "openF0i"
      /\ UNCHANGED <<rows, f0i, writing, offs, buf, op, reader, kept, past>>
  BY DEF FlushF0
<1>2. ArraysTypeOK' /\ PastTyped' /\ OffsetsLead'
  BY <1>1 DEF ArraysInv, ArraysTypeOK, PastTyped, OffsetsLead, ToWrite
<1>3. FilesFollow' /\ OpFits'
  BY <1>1 DEF ArraysInv, FilesFollow, OpFits
<1> QED
  BY <1>2, <1>3 DEF ArraysInv

LEMMA OpenF0iKeeps == ASSUME ArraysInv, OpenF0i PROVE ArraysInv'
<1>1. /\ pc = "openF0i" /\ f0i' = <<>> /\ pc' = "f0i"
      /\ UNCHANGED <<rows, f0, writing, offs, buf, op, reader, kept, past>>
  BY DEF OpenF0i
<1>2. <<>> \in Words
  BY DEF Words
<1>3. ArraysTypeOK' /\ PastTyped' /\ OffsetsLead'
  BY <1>1, <1>2 DEF ArraysInv, ArraysTypeOK, PastTyped, OffsetsLead, ToWrite
<1>4. FilesFollow' /\ OpFits'
  BY <1>1 DEF ArraysInv, FilesFollow, OpFits
<1> QED
  BY <1>3, <1>4 DEF ArraysInv

LEMMA FlushF0iKeeps == ASSUME ArraysInv, FlushF0i PROVE ArraysInv'
<1>1. /\ pc = "f0i" /\ f0i' = ToWrite
      /\ pc' = IF op.call = "create" THEN "idle" ELSE "dat"
      /\ op' = IF op.call = "create" THEN NoOp ELSE op
      /\ UNCHANGED <<rows, f0, writing, offs, buf, reader, kept, past>>
  BY DEF FlushF0i, ToWrite
<1>2. ToWrite \in Words /\ ToWrite' = ToWrite
  BY <1>1, ToWriteTyped DEF ArraysInv, ArraysTypeOK, ToWrite
<1>3. NoOp \in [call : {"create", "flush", "add", "remove"}, row : 0..MaxArrayRows]
  BY IndirectAssumption DEF NoOp
<1>4. ArraysTypeOK' /\ PastTyped' /\ OffsetsLead'
  BY <1>1, <1>2, <1>3 DEF ArraysInv, ArraysTypeOK, PastTyped, OffsetsLead
<1>5. FilesFollow' /\ OpFits'
  BY <1>1, <1>2 DEF ArraysInv, FilesFollow, OpFits
<1> QED
  BY <1>4, <1>5 DEF ArraysInv

LEMMA FlushDatKeeps == ASSUME ArraysInv, FlushDat PROVE ArraysInv'
<1>1. /\ pc = "dat" /\ rows' = Len(offs) /\ reader' = [reader EXCEPT ![Own] = Unread]
      /\ pc' = IF op = NoOp THEN "idle" ELSE "rebuild"
      /\ UNCHANGED <<f0, f0i, writing, offs, buf, op, kept, past>>
  BY DEF FlushDat
<1>2. rows' \in 0..MaxArrayRows
  BY <1>1, OffsetsTyped DEF ArraysInv, ArraysTypeOK
<1>3. op.call \in {"flush", "add", "remove"} /\ (op.call = "flush" => op = NoOp)
  BY <1>1 DEF ArraysInv, ArraysTypeOK, OpFits
<1>4. ArraysTypeOK' /\ PastTyped' /\ OffsetsLead'
  BY <1>1, <1>2, OpenedReaderTyped
     DEF ArraysInv, ArraysTypeOK, PastTyped, OffsetsLead, ToWrite
<1>5. FilesFollow' /\ OpFits'
  BY <1>1, <1>3 DEF ArraysInv, FilesFollow, OpFits
<1> QED
  BY <1>4, <1>5 DEF ArraysInv

LEMMA RebuildKeeps == ASSUME ArraysInv, Rebuild PROVE ArraysInv'
<1> DEFINE n == IF op.call = "add" THEN Len(offs) + 1 ELSE Len(offs) - 1
           source(r) == IF op.call = "add" \/ r < op.row THEN r ELSE r + 1
<1>1. /\ pc = "rebuild" /\ offs' = [r \in 1..n |-> IF source(r) <= rows THEN f0.off[source(r)] ELSE 0]
      /\ buf' = <<>> /\ reader' = [reader EXCEPT ![Own] = OpenedReader]
      /\ DOMAIN kept' = ArrayRow /\ past' = [r \in ArrayRow |-> <<>>]
      /\ pc' = "idle" /\ op' = NoOp /\ UNCHANGED <<rows, f0, f0i, writing>>
  BY DEF Rebuild
<1>2. /\ offs \in Offsets /\ f0.off = offs /\ rows = Len(offs) /\ op.call \in {"add", "remove"}
      /\ op.call = "add" => Len(offs) < MaxArrayRows
      /\ op.call = "remove" => op.row \in DOMAIN offs
  BY <1>1 DEF ArraysInv, ArraysTypeOK, FilesFollow, OpFits
<1>3. /\ DOMAIN offs = 1..Len(offs) /\ Len(offs) \in 0..MaxArrayRows
      /\ \A r \in 1..Len(offs) : offs[r] \in 0..(MaxWords - 1)
  BY <1>2, OffsetsTyped
<1>4. n \in 0..MaxArrayRows
  BY <1>2, <1>3, IndirectAssumption
<1>5. offs' \in [1..n -> 0..(MaxWords - 1)]
  <2>1. ASSUME NEW r \in 1..n
        PROVE  (IF source(r) <= rows THEN f0.off[source(r)] ELSE 0) \in 0..(MaxWords - 1)
    <3>1. source(r) <= rows => source(r) \in 1..Len(offs)
      BY <1>2, <1>3, <1>4
    <3>2. 0 \in 0..(MaxWords - 1)
      BY IndirectAssumption
    <3> HIDE DEF source
    <3> QED
      BY <1>2, <1>3, <3>1, <3>2
  <2> HIDE DEF n, source
  <2> QED
    BY <1>1, <2>1
<1> HIDE DEF n, source
<1>6. offs' \in Offsets /\ DOMAIN offs' \subseteq ArrayRow
  <2>1. DOMAIN offs' = 1..n
    BY <1>5
  <2>2. 1..n \subseteq ArrayRow
    BY <1>4, IndirectAssumption DEF ArrayRow
  <2> QED
    BY <1>4, <1>5, <2>1, <2>2, OffsetsTyped
<1>7. <<>> \in Words /\ <<>> \in Seq(Array)
      /\ NoOp \in [call : {"create", "flush", "add", "remove"}, row : 0..MaxArrayRows]
  BY IndirectAssumption DEF NoOp, Words
<1>8. ArraysTypeOK'
  BY <1>1, <1>6, <1>7, OpenedReaderTyped DEF ArraysInv, ArraysTypeOK
<1>9. PastTyped' /\ OffsetsLead'
  BY <1>1, <1>6, <1>7 DEF PastTyped, OffsetsLead
<1>10. FilesFollow' /\ OpFits'
  BY <1>1 DEF ArraysInv, FilesFollow, OpFits
<1> QED
  BY <1>8, <1>9, <1>10 DEF ArraysInv

LEMMA StopWritingKeeps == ASSUME ArraysInv, StopWriting PROVE ArraysInv'
<1>1. /\ writing' = FALSE /\ offs' = <<>> /\ buf' = <<>> /\ pc' = "idle" /\ op' = NoOp
      /\ reader' = [reader EXCEPT ![Own] = Unread] /\ UNCHANGED <<rows, f0, f0i, kept, past>>
  BY DEF StopWriting
<1>2. <<>> \in Words
      /\ NoOp \in [call : {"create", "flush", "add", "remove"}, row : 0..MaxArrayRows]
  BY IndirectAssumption DEF NoOp, Words
<1>3. ArraysTypeOK'
  BY <1>1, <1>2, OffsetsTyped, OpenedReaderTyped DEF ArraysInv, ArraysTypeOK
<1>4. PastTyped' /\ OffsetsLead' /\ FilesFollow' /\ OpFits'
  BY <1>1 DEF ArraysInv, PastTyped, OffsetsLead, FilesFollow, OpFits
<1> QED
  BY <1>3, <1>4 DEF ArraysInv

\* Steps of readers change nothing but a reader.
LEMMA ReaderKeeps ==
    ASSUME ArraysInv, NEW p \in Readers \cup {Own},
           OpenReader(p) \/ EnsureIndirectLoaded(p) \/ CloseReader(p)
    PROVE  ArraysInv'
<1>1. UNCHANGED <<rows, f0, f0i, writing, offs, buf, pc, op, kept, past>>
  BY DEF OpenReader, EnsureIndirectLoaded, CloseReader
<1>2. /\ reader \in [Readers \cup {Own} -> [state : {"unread", "failed", "open"}, off : Offsets,
                                          loaded : BOOLEAN, words : Words]]
      /\ f0i \in Words
  BY DEF ArraysInv, ArraysTypeOK
<1>3. \/ reader' = [reader EXCEPT ![p] = OpenedReader]
      \/ reader' = [reader EXCEPT ![p].loaded = TRUE, ![p].words = f0i]
      \/ reader' = [reader EXCEPT ![p] = Unread]
  BY DEF OpenReader, EnsureIndirectLoaded, CloseReader
<1>4. reader' \in [Readers \cup {Own} -> [state : {"unread", "failed", "open"}, off : Offsets,
                                       loaded : BOOLEAN, words : Words]]
  <2>1. ASSUME reader' = [reader EXCEPT ![p].loaded = TRUE, ![p].words = f0i]
        PROVE  reader' = [reader EXCEPT ![p] = [reader[p] EXCEPT !.loaded = TRUE, !.words = f0i]]
    BY <1>2, <2>1
  <2>2. /\ OpenedReader \in Record /\ Unread \in Record
        /\ [reader[p] EXCEPT !.loaded = TRUE, !.words = f0i] \in Record
    BY <1>2, OpenedReaderTyped DEF ArraysInv, Record
  <2> QED
    BY <1>2, <1>3, <2>1, <2>2 DEF Record
<1>5. ArraysTypeOK' /\ PastTyped' /\ OffsetsLead'
  BY <1>1, <1>4 DEF ArraysInv, ArraysTypeOK, PastTyped, OffsetsLead, ToWrite
<1>6. FilesFollow' /\ OpFits'
  BY <1>1 DEF ArraysInv, FilesFollow, OpFits, ToWrite
<1> QED
  BY <1>5, <1>6 DEF ArraysInv

LEMMA ArraysStepKeeps == ArraysInv /\ [ArraysNext]_arrayVars => ArraysInv'
<1> SUFFICES ASSUME ArraysInv, [ArraysNext]_arrayVars PROVE ArraysInv'
  OBVIOUS
<1>1. CASE Flush
  BY <1>1, StartFlushKeeps DEF Flush
<1>2. CASE AddRow
  BY <1>2, StartFlushKeeps DEF AddRow
<1>3. ASSUME NEW r \in ArrayRow, RemoveRow(r) PROVE ArraysInv'
  BY <1>3, StartFlushKeeps DEF RemoveRow
<1>4. CASE UNCHANGED arrayVars
  BY <1>4 DEF arrayVars, ArraysInv, ArraysTypeOK, PastTyped, OffsetsLead, FilesFollow, OpFits,
              ToWrite
<1>5. CASE CreateNext
  BY <1>1, <1>5, CreateKeeps, WriteArrayKeeps, FlushF0Keeps, OpenF0iKeeps, FlushF0iKeeps,
     FlushDatKeeps, StopWritingKeeps, ReaderKeeps DEF CreateNext
<1> QED
  BY <1>2, <1>3, <1>4, <1>5, CreateKeeps, OpenRwKeeps, RebuildKeeps DEF ArraysNext

LEMMA ArraysInitInv == ArraysInit => ArraysInv
<1> SUFFICES ASSUME ArraysInit PROVE ArraysInv
  OBVIOUS
<1>1. <<>> \in Words /\ <<>> \in Seq(Array) /\ 0 \in 0..MaxArrayRows
      /\ NoOp \in [call : {"create", "flush", "add", "remove"}, row : 0..MaxArrayRows]
  BY IndirectAssumption DEF NoOp, Words
<1>2. Unread \in [state : {"unread", "failed", "open"}, off : Offsets,
                 loaded : BOOLEAN, words : Words]
  BY <1>1, OffsetsTyped DEF Unread
<1>3. ArraysTypeOK
  BY <1>1, <1>2, OffsetsTyped DEF ArraysInit, ArraysTypeOK
<1>4. PastTyped /\ OffsetsLead /\ FilesFollow /\ OpFits
  BY <1>1 DEF ArraysInit, PastTyped, OffsetsLead, FilesFollow, OpFits
<1> QED
  BY <1>3, <1>4 DEF ArraysInv

----------------------------------------------------------------------------
THEOREM ArraysInvariant == ArraysSpec => []ArraysInv
<1>1. ArraysInit => ArraysInv
  BY ArraysInitInv
<1>2. ArraysInv /\ [ArraysNext]_arrayVars => ArraysInv'
  BY ArraysStepKeeps
<1> QED
  BY <1>1, <1>2, PTL DEF ArraysSpec

\* The files, the writer and all readers are well typed.
THEOREM ArraysTypeCorrect == ArraysSpec => []ArraysTypeOK
<1>1. ArraysInv => ArraysTypeOK
  BY DEF ArraysInv
<1> QED
  BY <1>1, ArraysInvariant, PTL

\* When a flush has written both files, each row that was written has in them
\* the last array that was written to it.
THEOREM WrittenArraysReadBackCorrect == ArraysSpec => []WrittenArraysReadBack
<1>1. ASSUME ArraysInv PROVE WrittenArraysReadBack
  <2> SUFFICES ASSUME pc = "dat", NEW r \in DOMAIN offs, past[r] # <<>>
               PROVE  ReadArray(f0.off, f0i, r) = Last(past[r])
    BY DEF WrittenArraysReadBack
  <2>1. /\ f0.off = offs /\ f0i = ToWrite /\ f0i \in Words
        /\ EntryAt(ToWrite, offs[r], Last(past[r]))
    BY <1>1 DEF ArraysInv, ArraysTypeOK, FilesFollow, OffsetsLead
  <2>2. past[r] \in Seq(Array)
    <3>1. r \in 1..Len(offs) /\ Len(offs) \in 0..MaxArrayRows
      BY <1>1, OffsetsTyped DEF ArraysInv, ArraysTypeOK
    <3>2. r \in ArrayRow
      BY <3>1, IndirectAssumption DEF ArrayRow
    <3> QED
      BY <1>1, <3>2 DEF ArraysInv, PastTyped
  <2>3. Last(past[r]) \in Array
    <3>1. Len(past[r]) \in Nat \ {0}
      BY <2>2, EmptySeq
    <3> QED
      BY <2>2, <3>1, ElementOfSeq DEF Last
  <2> QED
    BY <2>1, <2>3, EntryReads
<1> QED
  BY <1>1, ArraysInvariant, PTL

----------------------------------------------------------------------------
(***************************************************************************)
(* The creator alone writes: each step keeps CreatorInv.                   *)
(***************************************************************************)
LEMMA BeginsCuts ==
    ASSUME NEW words \in Words, NEW all \in Words, NEW at, NEW array \in Array,
           Begins(words, all), EntryAt(all, at, array)
    PROVE  EntryCut(words, at, array)
<1>1. Len(words) \in Nat /\ Len(all) \in Nat /\ Len(array) \in Nat /\ at \in Nat
  BY ArrayTyped DEF Words, EntryAt
<1> QED
  BY <1>1 DEF Begins, EntryAt, EntryCut

LEMMA BeginsStays ==
    ASSUME NEW words \in Words, NEW all \in Words, NEW more \in Words, Begins(words, all)
    PROVE  Begins(words, all \o more)
<1>1. /\ Len(all \o more) = Len(all) + Len(more) /\ Len(all) \in Nat /\ Len(more) \in Nat
      /\ \A i \in 1..Len(all) : (all \o more)[i] = all[i]
  BY ConcatProperties DEF Words
<1>2. Len(words) \in Nat
  BY DEF Words
<1> QED
  BY <1>1, <1>2 DEF Begins

LEMMA NothingBegins == \A all \in Words : Begins(<<>>, all) /\ Begins(all, all)
<1>1. \A all \in Words : Len(all) \in Nat
  BY DEF Words
<1> QED
  BY <1>1 DEF Begins

\* The rows that have offsets, and the words and arrays there are.
LEMMA EverythingTyped ==
    ASSUME ArraysInv
    PROVE  /\ \A off \in AllOffs : \A r \in DOMAIN off : r \in ArrayRow /\ off[r] \in Nat
           /\ AllWords \subseteq Words /\ ToWrite \in Words
           /\ \A r \in ArrayRow : past[r] \in Seq(Array) /\ Range(past[r]) \subseteq Array
<1>1. AllOffs \subseteq Offsets /\ AllWords \subseteq Words
  BY DEF ArraysInv, ArraysTypeOK, AllOffs, AllWords, Everybody
<1>2. ASSUME NEW off \in Offsets, NEW r \in DOMAIN off PROVE r \in ArrayRow /\ off[r] \in Nat
  <2>1. r \in 1..Len(off) /\ Len(off) \in 0..MaxArrayRows /\ off[r] \in 0..(MaxWords - 1)
    BY OffsetsTyped
  <2> QED
    BY <2>1, IndirectAssumption DEF ArrayRow
<1>3. ASSUME NEW r \in ArrayRow
      PROVE  past[r] \in Seq(Array) /\ Range(past[r]) \subseteq Array
  <2>1. past[r] \in Seq(Array)
    BY DEF ArraysInv, PastTyped
  <2>2. DOMAIN past[r] = 1..Len(past[r]) /\ \A i \in 1..Len(past[r]) : past[r][i] \in Array
    BY <2>1, LenProperties, ElementOfSeq
  <2> QED
    BY <2>1, <2>2 DEF Range
<1>4. ToWrite \in Words
  BY ToWriteTyped DEF ArraysInv, ArraysTypeOK
<1> QED
  BY <1>1, <1>2, <1>3, <1>4

\* Steps that bring nobody an offset or words that were not there already.
LEMMA NothingNewKeeps ==
    ASSUME CreatorInv, UNCHANGED <<writing, past>>, ToWrite' = ToWrite,
           AllOffs' \subseteq AllOffs \cup {<<>>},
           AllWords' \subseteq AllWords \cup {<<>>} \cup (IF writing THEN {ToWrite} ELSE {})
    PROVE  WordsArePrefixes' /\ AllOffsetsLead' /\ PairsShowThePast'
<1>1. DOMAIN <<>> = {} /\ Len(<<>>) = 0
  OBVIOUS
<1>2. CASE writing
  <2>1. WordsArePrefixes'
    <3>1. ASSUME NEW words \in AllWords' PROVE Begins(words, ToWrite)
      BY <1>2, <3>1, NothingBegins, EverythingTyped DEF CreatorInv, WordsArePrefixes
    <3> QED
      BY <1>2, <3>1 DEF WordsArePrefixes
  <2>2. AllOffsetsLead'
    <3>1. ASSUME NEW off \in AllOffs', NEW r \in DOMAIN off, off[r] # 0
          PROVE  \E array \in Range(past[r]) : EntryAt(ToWrite, off[r], array)
      <4>1. off \in AllOffs
        BY <1>1
      <4> QED
        BY <1>2, <3>1, <4>1 DEF CreatorInv, AllOffsetsLead
    <3> QED
      BY <1>2, <3>1 DEF AllOffsetsLead
  <2> QED
    BY <1>2, <2>1, <2>2 DEF PairsShowThePast
<1>3. CASE ~writing
  <2>1. ASSUME NEW off \in AllOffs', NEW words \in AllWords', NEW r \in DOMAIN off, off[r] # 0
        PROVE  \E array \in Range(past[r]) : EntryCut(words, off[r], array)
    <3>1. off \in AllOffs /\ off[r] \in Nat
      BY <1>1, EverythingTyped DEF CreatorInv
    <3>2. CASE words \in AllWords
      BY <1>3, <2>1, <3>1, <3>2 DEF CreatorInv, PairsShowThePast
    <3>3. CASE words = <<>>
      <4>1. PICK other \in AllWords : TRUE
        BY DEF AllWords
      <4>2. PICK array \in Range(past[r]) : EntryCut(other, off[r], array)
        BY <1>3, <2>1, <3>1, <4>1 DEF CreatorInv, PairsShowThePast
      <4>3. EntryCut(words, off[r], array)
        BY <1>1, <3>1, <3>3 DEF EntryCut
      <4> QED
        BY <4>2, <4>3
    <3> QED
      BY <1>3, <3>2, <3>3
  <2> QED
    BY <1>3, <2>1 DEF WordsArePrefixes, AllOffsetsLead, PairsShowThePast
<1> QED
  BY <1>2, <1>3

LEMMA NoOffsetsLead ==
    ASSUME NEW n, NEW r \in DOMAIN NoOffsets(n)
    PROVE  NoOffsets(n)[r] = 0
<1> QED
  BY DEF NoOffsets

LEMMA FirstCreateKeeps ==
    ASSUME CreatorInv, NEW n \in 0..MaxArrayRows, f0.state = "none", Create(n)
    PROVE  CreatorInv'
<1>1. /\ f0' = [f0 EXCEPT !.state = "torn"] /\ offs' = NoOffsets(n) /\ buf' = <<>>
      /\ writing' = TRUE /\ op' = [NoOp EXCEPT !.call = "create"] /\ UNCHANGED <<f0i, reader>>
  BY DEF Create
<1>2. f0.off = <<>> /\ f0i = <<>> /\ \A p \in Everybody : reader[p].off = <<>> /\ reader[p].words = <<>>
  BY DEF CreatorInv, NothingYet, Unread
<1>3. f0'.off = <<>> /\ f0'.state = "torn" /\ op'.call = "create"
  BY <1>1, <1>2 DEF CreatorInv, ArraysInv, ArraysTypeOK, NoOp
<1>4. ArraysInv'
  BY CreateKeeps DEF CreatorInv
<1>5. AllOffs' \subseteq {<<>>, NoOffsets(n)} /\ AllWords' \subseteq {<<>>}
  BY <1>1, <1>2, <1>3 DEF AllOffs, AllWords
<1>6. ToWrite' \in Words
  <2>1. FileHeader \in Seq(Element \cup Nat)
    BY DEF FileHeader
  <2> QED
    BY <1>1, <2>1, ConcatEmptySeq DEF ToWrite, Words
<1>7. WordsArePrefixes'
  BY <1>5, <1>6, NothingBegins DEF WordsArePrefixes
<1>8. AllOffsetsLead'
  <2>1. ASSUME NEW off \in AllOffs', NEW r \in DOMAIN off PROVE off[r] = 0
    <3>1. CASE off = <<>>
      BY <3>1
    <3>2. CASE off = NoOffsets(n)
      BY <3>2, NoOffsetsLead
    <3> QED
      BY <1>5, <3>1, <3>2
  <2> QED
    BY <2>1 DEF AllOffsetsLead
<1> QED
  BY <1>1, <1>3, <1>4, <1>7, <1>8 DEF CreatorInv, PairsShowThePast, NothingYet

LEMMA CreatorWriteKeeps ==
    ASSUME CreatorInv, NEW r \in ArrayRow, NEW array \in Array, WriteArray(r, array)
    PROVE  CreatorInv'
<1>1. /\ writing /\ r \in DOMAIN offs /\ past' = [past EXCEPT ![r] = Append(@, array)]
      /\ UNCHANGED <<f0, f0i, writing, op, reader>>
  BY DEF WriteArray
<1>2. ArraysInv /\ ArraysInv'
  BY WriteArrayKeeps DEF CreatorInv
<1>3. /\ ToWrite \in Words /\ ToWrite' = ToWrite \o ArrayEntry(array)
      /\ EntryAt(ToWrite', offs'[r], array) /\ DOMAIN offs' = DOMAIN offs
      /\ \A k \in DOMAIN offs : k # r => offs'[k] = offs[k]
  BY <1>2, WriteAppends
<1>4. ArrayEntry(array) \in Words
  BY ArrayTyped
<1>5. AllWords' = AllWords
  BY <1>1 DEF AllWords
<1>6. WordsArePrefixes'
  <2>1. ASSUME NEW words \in AllWords' PROVE Begins(words, ToWrite')
    <3>1. words \in Words /\ Begins(words, ToWrite)
      BY <1>1, <1>2, <1>5, EverythingTyped DEF CreatorInv, WordsArePrefixes
    <3> QED
      BY <1>3, <1>4, <3>1, BeginsStays
  <2> QED
    BY <2>1 DEF WordsArePrefixes
\* The arrays written to a row are still there.
<1>7. ASSUME NEW k \in ArrayRow
      PROVE  /\ Range(past[k]) \subseteq Range(past'[k])
             /\ k = r => array \in Range(past'[k])
  <2>1. past[k] \in Seq(Array) /\ past \in [ArrayRow -> Seq(Array)]
    BY <1>2 DEF ArraysInv, PastTyped
  <2>2. CASE k = r
    <3>1. past'[k] = Append(past[k], array)
      BY <1>1, <2>1, <2>2
    <3>2. /\ DOMAIN past'[k] = 1..Len(past[k]) + 1 /\ DOMAIN past[k] = 1..Len(past[k])
          /\ Len(past[k]) \in Nat /\ past'[k][Len(past[k]) + 1] = array
          /\ \A i \in 1..Len(past[k]) : past'[k][i] = past[k][i]
      BY <2>1, <3>1
    <3>3. array \in Range(past'[k])
      BY <3>2 DEF Range
    <3>4. Range(past[k]) \subseteq Range(past'[k])
      BY <3>2 DEF Range
    <3> QED
      BY <3>3, <3>4
  <2>3. CASE k # r
    BY <1>1, <2>1, <2>3
  <2> QED
    BY <2>2, <2>3
<1>8. AllOffsetsLead'
  <2>1. ASSUME NEW off \in AllOffs, NEW k \in DOMAIN off, off[k] # 0
        PROVE  \E a \in Range(past'[k]) : EntryAt(ToWrite', off[k], a)
    <3>1. k \in ArrayRow /\ Range(past[k]) \subseteq Array
      BY <1>2, EverythingTyped
    <3>2. PICK a \in Range(past[k]) : EntryAt(ToWrite, off[k], a)
      BY <1>1, <2>1 DEF CreatorInv, AllOffsetsLead
    <3>3. EntryAt(ToWrite', off[k], a)
      BY <1>3, <1>4, <3>1, <3>2, EntryStays
    <3> QED
      BY <1>7, <3>1, <3>2, <3>3
  <2>2. ASSUME NEW k \in DOMAIN offs', (offs'[k]) # 0
        PROVE  \E a \in Range(past'[k]) : EntryAt(ToWrite', offs'[k], a)
    <3>1. CASE k = r
      <4>1. array \in Range(past'[k])
        BY <1>7, <3>1
      <4> QED
        BY <1>3, <3>1, <4>1
    <3>2. CASE k # r
      <4>1. offs \in AllOffs /\ k \in DOMAIN offs /\ offs'[k] = offs[k]
        BY <1>3, <3>2 DEF AllOffs
      <4> QED
        BY <2>1, <2>2, <4>1
    <3> QED
      BY <3>1, <3>2
  <2>3. AllOffs' \subseteq AllOffs \cup {offs'}
    BY <1>1 DEF AllOffs
  <2>4. ASSUME NEW off \in AllOffs', NEW k \in DOMAIN off, off[k] # 0
        PROVE  \E a \in Range(past'[k]) : EntryAt(ToWrite', off[k], a)
    BY <2>1, <2>2, <2>3, <2>4
  <2> QED
    BY <2>4 DEF AllOffsetsLead
<1>9. f0.state # "none"
  BY <1>1 DEF CreatorInv, NothingYet
<1> QED
  BY <1>1, <1>2, <1>6, <1>8, <1>9 DEF CreatorInv, PairsShowThePast, NothingYet

LEMMA StopKeeps == ASSUME CreatorInv, StopWriting PROVE CreatorInv'
<1>1. /\ writing /\ writing' = FALSE /\ offs' = <<>> /\ op' = NoOp
      /\ reader' = [reader EXCEPT ![Own] = Unread] /\ UNCHANGED <<f0, f0i, past>>
  BY DEF StopWriting
<1>2. ArraysInv /\ ArraysInv'
  BY StopWritingKeeps DEF CreatorInv
<1>3. AllOffs' \subseteq AllOffs \cup {<<>>} /\ AllWords' \subseteq AllWords \cup {<<>>}
  <2>1. \A p \in Everybody : reader'[p] \in {reader[p], Unread}
    BY <1>1, <1>2 DEF ArraysInv, ArraysTypeOK, Everybody
  <2>2. Unread.off = <<>> /\ Unread.words = <<>>
    BY DEF Unread
  <2> QED
    BY <1>1, <2>1, <2>2 DEF AllOffs, AllWords
<1>4. ASSUME NEW off \in AllOffs', NEW words \in AllWords', NEW r \in DOMAIN off, off[r] # 0
      PROVE  \E array \in Range(past[r]) : EntryCut(words, off[r], array)
  <2>1. off \in AllOffs
    BY <1>3
  <2>2. r \in ArrayRow /\ Range(past[r]) \subseteq Array /\ ToWrite \in Words
        /\ AllWords \subseteq Words
    BY <1>2, <2>1, EverythingTyped
  <2>3. PICK array \in Range(past[r]) : EntryAt(ToWrite, off[r], array)
    BY <1>1, <1>4, <2>1 DEF CreatorInv, AllOffsetsLead
  <2>4. words \in Words /\ Begins(words, ToWrite)
    BY <1>1, <1>3, <2>2, NothingBegins, EmptySeq DEF CreatorInv, WordsArePrefixes, Words
  <2> QED
    BY <2>2, <2>3, <2>4, BeginsCuts
<1>5. f0.state # "none"
  BY <1>1 DEF CreatorInv, NothingYet
<1> QED
  BY <1>1, <1>2, <1>4, <1>5
     DEF CreatorInv, WordsArePrefixes, AllOffsetsLead, PairsShowThePast, NothingYet

LEMMA CreatorStep == CreatorInv /\ [CreateNext]_arrayVars => CreatorInv'
<1> SUFFICES ASSUME CreatorInv, [CreateNext]_arrayVars PROVE CreatorInv'
  OBVIOUS
<1>1. ArraysInv /\ ArraysInv'
  BY ArraysStepKeeps DEF CreatorInv, ArraysNext
<1>2. pc # "idle" => writing
  BY <1>1 DEF ArraysInv, FilesFollow
<1>3. writing => f0.state # "none"
  BY DEF CreatorInv, NothingYet
<1>4. Unread.off = <<>> /\ Unread.words = <<>>
  BY DEF Unread
<1>5. CASE Flush
  <2>1. /\ writing /\ f0' = [state |-> "torn", off |-> <<>>] /\ op' = NoOp
        /\ UNCHANGED <<f0i, writing, offs, buf, reader, past>>
    BY <1>5 DEF Flush, StartFlush
  <2>2. AllOffs' \subseteq AllOffs \cup {<<>>} /\ AllWords' = AllWords /\ ToWrite' = ToWrite
    BY <2>1 DEF AllOffs, AllWords, ToWrite
  <2> QED
    BY <1>1, <2>1, <2>2, NothingNewKeeps DEF CreatorInv, NothingYet
<1>6. CASE FlushF0
  <2>1. /\ pc = "f0" /\ f0' = [state |-> "ok", off |-> offs]
        /\ UNCHANGED <<f0i, writing, offs, buf, op, reader, past>>
    BY <1>6 DEF FlushF0
  <2>2. AllOffs' \subseteq AllOffs /\ AllWords' = AllWords /\ ToWrite' = ToWrite
    BY <2>1 DEF AllOffs, AllWords, ToWrite
  <2> QED
    BY <1>1, <2>1, <2>2, NothingNewKeeps DEF CreatorInv, NothingYet
<1>7. CASE OpenF0i
  <2>1. /\ pc = "openF0i" /\ f0i' = <<>>
        /\ UNCHANGED <<f0, writing, offs, buf, op, reader, past>>
    BY <1>7 DEF OpenF0i
  <2>2. AllOffs' = AllOffs /\ AllWords' \subseteq AllWords \cup {<<>>} /\ ToWrite' = ToWrite
    BY <2>1 DEF AllOffs, AllWords, ToWrite
  <2> QED
    BY <1>1, <1>2, <1>3, <2>1, <2>2, NothingNewKeeps DEF CreatorInv, NothingYet
<1>8. CASE FlushF0i
  <2>1. /\ pc = "f0i" /\ f0i' = ToWrite /\ op' = IF op.call = "create" THEN NoOp ELSE op
        /\ UNCHANGED <<f0, writing, offs, buf, reader, past>>
    BY <1>8 DEF FlushF0i, ToWrite
  <2>2. AllOffs' = AllOffs /\ AllWords' \subseteq AllWords \cup {ToWrite} /\ ToWrite' = ToWrite
    BY <2>1 DEF AllOffs, AllWords, ToWrite
  <2>3. op' = NoOp \/ op'.call = "create"
    BY <2>1 DEF CreatorInv
  <2> QED
    BY <1>1, <1>2, <1>3, <2>1, <2>2, <2>3, NothingNewKeeps DEF CreatorInv, NothingYet
<1>9. CASE FlushDat
  <2>1. /\ pc = "dat" /\ reader' = [reader EXCEPT ![Own] = Unread]
        /\ UNCHANGED <<f0, f0i, writing, offs, buf, op, past>>
    BY <1>9 DEF FlushDat
  <2>2. \A p \in Everybody : reader'[p] \in {reader[p], Unread}
    BY <1>1, <2>1 DEF ArraysInv, ArraysTypeOK, Everybody
  <2>3. /\ AllOffs' \subseteq AllOffs \cup {<<>>} /\ AllWords' \subseteq AllWords \cup {<<>>}
        /\ ToWrite' = ToWrite
    BY <1>4, <2>1, <2>2 DEF AllOffs, AllWords, ToWrite
  <2> QED
    BY <1>1, <1>2, <1>3, <2>1, <2>3, NothingNewKeeps DEF CreatorInv, NothingYet
<1>10. ASSUME NEW p \in Everybody, OpenReader(p) \/ EnsureIndirectLoaded(p) \/ CloseReader(p)
       PROVE  CreatorInv'
  <2>1. UNCHANGED <<f0, f0i, writing, offs, buf, op, past>>
    BY <1>10 DEF OpenReader, EnsureIndirectLoaded, CloseReader
  <2>2. reader \in [Everybody -> Record]
    BY <1>1 DEF ArraysInv, ArraysTypeOK, Record, Everybody
  <2>3. /\ \/ reader' = [reader EXCEPT ![p] = OpenedReader]
           \/ reader' = [reader EXCEPT ![p] = [reader[p] EXCEPT !.loaded = TRUE, !.words = f0i]]
           \/ reader' = [reader EXCEPT ![p] = Unread]
        /\ f0.state # "none"
    <3>1. CASE OpenReader(p)
      BY <3>1 DEF OpenReader
    <3>2. CASE EnsureIndirectLoaded(p)
      <4>1. reader[p].state = "open"
        BY <3>2 DEF EnsureIndirectLoaded
      <4>2. f0.state # "none"
        BY <4>1 DEF CreatorInv, NothingYet, Unread
      <4>3. reader' = [reader EXCEPT ![p] = [reader[p] EXCEPT !.loaded = TRUE, !.words = f0i]]
        BY <2>2, <3>2 DEF EnsureIndirectLoaded, Record
      <4> QED
        BY <4>2, <4>3
    <3>3. CASE CloseReader(p)
      <4>1. reader[p].state # "unread" /\ reader' = [reader EXCEPT ![p] = Unread]
        BY <3>3 DEF CloseReader
      <4>2. f0.state # "none"
        BY <4>1 DEF CreatorInv, NothingYet, Unread
      <4> QED
        BY <4>1, <4>2
    <3> QED
      BY <1>10, <3>1, <3>2, <3>3
  <2>4. \A q \in Everybody :
           /\ reader'[q].off \in {reader[q].off, <<>>, f0.off}
           /\ reader'[q].words \in {reader[q].words, <<>>, f0i}
    <3>1. /\ OpenedReader.off \in {<<>>, f0.off} /\ OpenedReader.words = <<>>
          /\ [reader[p] EXCEPT !.loaded = TRUE, !.words = f0i].off = reader[p].off
          /\ [reader[p] EXCEPT !.loaded = TRUE, !.words = f0i].words = f0i
      BY <1>1, <2>2, OpenedReaderTyped DEF ArraysInv, Record
    <3> QED
      BY <1>4, <2>2, <2>3, <3>1
  <2>5. /\ AllOffs' \subseteq AllOffs \cup {<<>>} /\ AllWords' \subseteq AllWords \cup {<<>>}
        /\ ToWrite' = ToWrite
    BY <2>1, <2>4 DEF AllOffs, AllWords, ToWrite
  <2> QED
    BY <1>1, <2>1, <2>3, <2>5, NothingNewKeeps DEF CreatorInv, NothingYet
<1>11. CASE UNCHANGED arrayVars
  <2>1. UNCHANGED <<f0, f0i, writing, offs, buf, op, reader, past>>
    BY <1>11 DEF arrayVars
  <2>2. AllOffs' = AllOffs /\ AllWords' = AllWords /\ ToWrite' = ToWrite
    BY <2>1 DEF AllOffs, AllWords, ToWrite
  <2> QED
    BY <1>1, <2>1, <2>2, NothingNewKeeps DEF CreatorInv, NothingYet
<1> QED
  BY <1>5, <1>6, <1>7, <1>8, <1>9, <1>10, <1>11, FirstCreateKeeps, CreatorWriteKeeps, StopKeeps
     DEF CreateNext, Everybody

LEMMA CreatorInitInv == ArraysInit => CreatorInv
<1> SUFFICES ASSUME ArraysInit PROVE CreatorInv
  OBVIOUS
<1>1. ArraysInv
  BY ArraysInitInv
<1>2. /\ ~writing /\ f0.off = <<>> /\ offs = <<>> /\ f0i = <<>> /\ op = NoOp
      /\ \A p \in Everybody : reader[p] = Unread
  BY DEF ArraysInit, Everybody
<1>3. \A off \in AllOffs : off = <<>>
  BY <1>2 DEF AllOffs, Unread
<1> QED
  BY <1>1, <1>2, <1>3
     DEF CreatorInv, WordsArePrefixes, AllOffsetsLead, PairsShowThePast, NothingYet

LEMMA CreatorShowsThePast == CreatorInv => MixedFilesShowThePast
<1> SUFFICES ASSUME CreatorInv PROVE MixedFilesShowThePast
  OBVIOUS
<1> SUFFICES ASSUME NEW p \in Readers \cup {Own}, reader[p].loaded,
                    NEW r \in DOMAIN reader[p].off
             PROVE  ReadArray(reader[p].off, reader[p].words, r) \in {None} \cup Range(past[r])
  BY DEF MixedFilesShowThePast
<1> DEFINE off == reader[p].off
           words == reader[p].words
<1>1. off \in AllOffs /\ words \in AllWords
  BY DEF AllOffs, AllWords, Everybody
<1>2. /\ r \in ArrayRow /\ off[r] \in Nat /\ words \in Words /\ ToWrite \in Words
      /\ Range(past[r]) \subseteq Array
  BY <1>1, EverythingTyped DEF CreatorInv
<1> HIDE DEF off, words
<1>3. CASE off[r] = 0
  BY <1>3 DEF ReadArray, off, words
<1>4. CASE off[r] # 0
  <2>1. \E array \in Range(past[r]) : EntryCut(words, off[r], array)
    <3>1. CASE writing
      <4>1. PICK array \in Range(past[r]) : EntryAt(ToWrite, off[r], array)
        BY <1>1, <1>4, <3>1 DEF CreatorInv, AllOffsetsLead, off
      <4>2. Begins(words, ToWrite)
        BY <1>1, <3>1 DEF CreatorInv, WordsArePrefixes
      <4> QED
        BY <1>2, <4>1, <4>2, BeginsCuts
    <3>2. CASE ~writing
      BY <1>1, <1>4, <3>2 DEF CreatorInv, PairsShowThePast, off
    <3> QED
      BY <3>1, <3>2
  <2>2. PICK array \in Range(past[r]) : EntryCut(words, off[r], array)
    BY <2>1
  <2>3. r \in DOMAIN off
    BY DEF off
  <2>4. ReadArray(off, words, r) \in {None, array}
    BY <1>2, <2>2, <2>3, CutEntryReads
  <2> QED
    BY <2>2, <2>4 DEF off, words
<1> QED
  BY <1>3, <1>4

\* While the Table that created the arrays alone writes them, a reader that has
\* table.f0 and table.f0i of different moments, one of them cut off or older,
\* sees of a row nothing or an array that was written to it.
THEOREM MixedFilesShowThePastCorrect == CreateSpec => []MixedFilesShowThePast
<1>1. ArraysInit => CreatorInv
  BY CreatorInitInv
<1>2. CreatorInv /\ [CreateNext]_arrayVars => CreatorInv'
  BY CreatorStep
<1> QED
  BY <1>1, <1>2, CreatorShowsThePast, PTL DEF CreateSpec

\* The same of a table that other processes read only while its creator alone
\* writes it.
THEOREM ReadersShowThePastCorrect == SharedSpec => []ReadersShowThePast
<1> DEFINE SharedInv == ArraysInv /\ (creatorOnly => CreatorInv)
<1>1. ArraysInit => SharedInv
  BY ArraysInitInv, CreatorInitInv
<1>2. SharedInv /\ [ArraysStep /\ UNCHANGED creatorOnly]_<<arrayVars, creatorOnly>> => SharedInv'
  <2> SUFFICES ASSUME SharedInv, [ArraysStep /\ UNCHANGED creatorOnly]_<<arrayVars, creatorOnly>>
               PROVE  SharedInv'
    OBVIOUS
  <2>1. creatorOnly' = creatorOnly /\ [ArraysNext]_arrayVars
        /\ (creatorOnly => [CreateNext]_arrayVars)
    BY DEF ArraysStep, ArraysNext
  <2> QED
    BY <2>1, ArraysStepKeeps, CreatorStep
<1>3. SharedInv => ReadersShowThePast
  BY CreatorShowsThePast DEF ReadersShowThePast
<1> QED
  BY <1>1, <1>2, <1>3, PTL DEF SharedSpec

----------------------------------------------------------------------------
(* TableLock.  HeldLockShows is not inductive: what the lock file tells of *)
(* its author is right because an unlock() that is not over has left it    *)
(* empty unless another process wrote it since (UnlockEmpties), and a      *)
(* process that drops a table makes no other calls (DroppersOnlyDrop).     *)

DroppersOnlyDrop ==
    /\ \A h \in Lockers : lockPc[h] # "remove"
    /\ \A d \in Droppers : lockPc[d] \in {"idle", "remove"}

UnlockEmpties ==
    \A h \in Lockers : tableExists /\ author = h /\ lockPc[h] = "unlock" => lockFile = "empty"

AuthorShows ==
    \A h \in Lockers :
        tableExists /\ author = h /\ lockPc[h] = "idle" =>
            lockFile = IF has_lock(h) THEN held[h] ELSE "empty"

OnlyOverwrittenOverlooked ==
    \A d \in Droppers : \A lock \in locksAtCheck[d] : lock[1] # lock[2]

LockInv ==
    LockTypeOK /\ DroppersOnlyDrop /\ UnlockEmpties /\ AuthorShows /\ OnlyOverwrittenOverlooked

USE DEF LockProcess, Modes, Held

----------------------------------------------------------------------------
LEMMA LockTypeStep == LockTypeOK /\ [LockNext]_lockVars => LockTypeOK'
<1> SUFFICES ASSUME LockTypeOK, [LockNext]_lockVars PROVE LockTypeOK'
  OBVIOUS
<1> USE DEF LockTypeOK
<1>1. ASSUME NEW h \in Lockers, OpenTable(h) PROVE LockTypeOK'
  BY <1>1 DEF OpenTable
<1>2. ASSUME NEW h \in Lockers, NEW m \in Modes, set_lock_mode(h, m) PROVE LockTypeOK'
  BY <1>2 DEF set_lock_mode
<1>3. ASSUME NEW h \in Lockers, NEW kind \in {"read", "write"}, LockBegin(h, kind)
      PROVE  LockTypeOK'
  BY <1>3 DEF LockBegin
<1>4. ASSUME NEW h \in Lockers, LockEnd(h) PROVE LockTypeOK'
  BY <1>4 DEF LockEnd
<1>5. ASSUME NEW h \in Lockers, UnlockBegin(h) PROVE LockTypeOK'
  BY <1>5 DEF UnlockBegin
<1>6. ASSUME NEW h \in Lockers, UnlockEnd(h) PROVE LockTypeOK'
  BY <1>6 DEF UnlockEnd
<1>7. ASSUME NEW h \in Lockers, Stop(h) PROVE LockTypeOK'
  BY <1>7 DEF Stop
<1>8. ASSUME NEW d \in Droppers, NEW force \in Forces, DropCheck(d, force) PROVE LockTypeOK'
  <2>1. Locking \subseteq Lockers
    BY DEF Locking
  <2> QED
    BY <1>8, <2>1 DEF DropCheck
<1>9. ASSUME NEW d \in Droppers, DropRemove(d) PROVE LockTypeOK'
  BY <1>9 DEF DropRemove
<1>10. CASE UNCHANGED lockVars
  BY <1>10 DEF lockVars
<1> HIDE DEF LockTypeOK
<1> QED
  BY <1>1, <1>2, <1>3, <1>4, <1>5, <1>6, <1>7, <1>8, <1>9, <1>10 DEF LockNext

LEMMA LockInitInv == LockInit => LockInv
  BY LockAssumption
     DEF LockInit, LockInv, LockTypeOK, DroppersOnlyDrop, UnlockEmpties, AuthorShows,
         has_lock, OnlyOverwrittenOverlooked

\* Whoever locks, unlocks, drops or dies, the lock file and what the Tables know
\* of their locks stay within their types (table.cpp:1676-1740).
THEOREM LockTypeCorrect == LockSpec => []LockTypeOK
<1>1. LockInit => LockTypeOK
  BY LockInitInv DEF LockInv
<1> QED
  BY <1>1, LockTypeStep, PTL DEF LockSpec

----------------------------------------------------------------------------
\* Steps of a process that locks.
LEMMA LockerStep ==
    ASSUME LockInv, LockTypeOK', NEW h \in Lockers,
           \/ OpenTable(h) \/ \E m \in Modes : set_lock_mode(h, m)
           \/ \E kind \in {"read", "write"} : LockBegin(h, kind)
           \/ LockEnd(h) \/ UnlockBegin(h) \/ UnlockEnd(h) \/ Stop(h)
    PROVE  LockInv'
<1> USE LockAssumption
    DEF LockInv, DroppersOnlyDrop, UnlockEmpties, AuthorShows, OnlyOverwrittenOverlooked,
        has_lock
<1>1. CASE OpenTable(h)
  BY <1>1 DEF OpenTable, LockTypeOK
<1>2. ASSUME NEW m \in Modes, set_lock_mode(h, m) PROVE LockInv'
  BY <1>2 DEF set_lock_mode, LockTypeOK
<1>3. ASSUME NEW kind \in {"read", "write"}, LockBegin(h, kind) PROVE LockInv'
  BY <1>3 DEF LockBegin, LockTypeOK
<1>4. CASE LockEnd(h)
  BY <1>4 DEF LockEnd, LockTypeOK
<1>5. CASE UnlockBegin(h)
  BY <1>5 DEF UnlockBegin, LockTypeOK
<1>6. CASE UnlockEnd(h)
  BY <1>6 DEF UnlockEnd, LockTypeOK
<1>7. CASE Stop(h)
  BY <1>7 DEF Stop, LockTypeOK
<1> QED
  BY <1>1, <1>2, <1>3, <1>4, <1>5, <1>6, <1>7

\* An unforced drop_table() that goes on has found the file empty or missing: of
\* the locks it overlooks none is its author's.
LEMMA DropperStep ==
    ASSUME LockInv, LockTypeOK', NEW d \in Droppers,
           DropRemove(d) \/ \E force \in Forces : DropCheck(d, force)
    PROVE  LockInv'
<1> USE LockAssumption
    DEF LockInv, DroppersOnlyDrop, UnlockEmpties, AuthorShows, OnlyOverwrittenOverlooked,
        has_lock
<1>1. CASE DropRemove(d)
  BY <1>1 DEF DropRemove, LockTypeOK
<1>2. ASSUME NEW force \in Forces, DropCheck(d, force) PROVE LockInv'
  <2>1. ASSUME ~force, NEW h \in Locking, h = author PROVE FALSE
    <3>1. h \in Lockers /\ lockFile = held[h] /\ held[h] \in {"read", "write"}
      BY <1>2, <2>1 DEF DropCheck, Locking, LockTypeOK
    <3> QED
      BY <1>2, <2>1, <3>1 DEF DropCheck, is_locked
  <2>2. ASSUME NEW lock \in locksAtCheck'[d] PROVE lock[1] # lock[2]
    <3>1. locksAtCheck'[d] = IF force THEN {} ELSE Locking \X {author}
      BY <1>2 DEF DropCheck, LockTypeOK
    <3>2. ~force /\ lock[1] \in Locking /\ lock[2] = author
      BY <2>2, <3>1
    <3> QED
      BY <2>1, <3>2
  <2>3. OnlyOverwrittenOverlooked'
    BY <1>2, <2>2 DEF DropCheck, LockTypeOK
  <2> QED
    BY <1>2, <2>3 DEF DropCheck, LockTypeOK
<1> QED
  BY <1>1, <1>2

\* However many processes lock, unlock and drop a table: of the process that wrote
\* the lock file last and is between its calls the file tells whether it holds a
\* lock, and the locks that an unforced drop_table() overlooks are those that a
\* call of another process had written over (table.cpp:1676-1740).
THEOREM HeldLockCorrect == LockSpec => []HeldLockShows
<1>1. LockInv /\ [LockNext]_lockVars => LockInv'
  <2>1. ASSUME LockInv, LockNext PROVE LockInv'
    <3>1. LockTypeOK'
      BY <2>1, LockTypeStep DEF LockInv
    <3>2. ASSUME NEW h \in Lockers,
                 \/ OpenTable(h) \/ \E m \in Modes : set_lock_mode(h, m)
                 \/ \E kind \in {"read", "write"} : LockBegin(h, kind)
                 \/ LockEnd(h) \/ UnlockBegin(h) \/ UnlockEnd(h) \/ Stop(h)
          PROVE  LockInv'
      BY <2>1, <3>1, <3>2, LockerStep
    <3>3. ASSUME NEW d \in Droppers,
                 DropRemove(d) \/ \E force \in Forces : DropCheck(d, force)
          PROVE  LockInv'
      BY <2>1, <3>1, <3>3, DropperStep
    <3> QED
      BY <2>1, <3>2, <3>3 DEF LockNext
  <2>2. LockInv /\ UNCHANGED lockVars => LockInv'
    BY LockTypeStep
       DEF LockInv, lockVars, DroppersOnlyDrop, UnlockEmpties, AuthorShows,
           OnlyOverwrittenOverlooked, has_lock
  <2> QED
    BY <2>1, <2>2
<1>2. LockInv => HeldLockShows
  BY DEF LockInv, AuthorShows, OnlyOverwrittenOverlooked, HeldLockShows
<1> QED
  BY <1>1, <1>2, LockInitInv, PTL DEF LockSpec
=============================================================================
