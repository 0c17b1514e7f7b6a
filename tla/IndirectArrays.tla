--------------------------- MODULE IndirectArrays ---------------------------
(***************************************************************************)
(* The arrays of a variable-shape column of a StandardStMan table.  The    *)
(* bucket slot of a row in table.f0 holds an offset into table.f0i, where  *)
(* the array's header and elements are (src/src/standard_stman.cpp); the   *)
(* Table copies offsets, never arrays, when it is opened for writing or    *)
(* rebuilt (src/src/table.cpp).                                            *)
(*                                                                         *)
(* table.f0i is a sequence of words: one for the 16-byte file header, then *)
(* per array one for its header, holding the number of elements, and one   *)
(* per element.  Offsets count words from 0 and rows count from 1.         *)
(* table.dat stays the single step of TableStore's "ok": its tearing does  *)
(* not concern the arrays.                                                 *)
(***************************************************************************)
EXTENDS Naturals, SequencesExt

CONSTANTS
    Readers,    \* Table objects of other processes, opened for reading
    Own,        \* the reader inside the writing Table
    Element,    \* array elements
    Array,      \* the arrays a program stores
    None,       \* no array: what a read of an empty or unusable slot returns
    Garbage,    \* what the bytes in the middle of an array say as a header
    MaxArrayRows,   \* bound on the rows
    MaxWords    \* bound on the words a writer appends

ASSUME IndirectAssumption ==
    /\ Own \notin Readers
    /\ Array \subseteq Seq(Element) \ {<<>>}
    /\ MaxArrayRows \in Nat /\ MaxWords \in Nat \ {0}
    /\ Element \cap Nat = {}

VARIABLES
    rows,       \* table.dat: the row count
    f0,         \* table.f0: its state and the offset of each row
    f0i,        \* table.f0i; empty when it is missing or truncated
    writing,    \* a Table is open for writing
    offs,       \* the writer's bucket slots
    buf,        \* SsmWriter::indirect_data_
    pc,         \* the step a create, flush or row mutation has reached
    op,         \* what the flush under way belongs to
    reader,     \* SsmReader of every Table: offsets, and table.f0i once loaded
    kept,       \* what each row held when the writer was set up
    past        \* the arrays written to each row since then

arrayVars == <<rows, f0, f0i, writing, offs, buf, pc, op, reader, kept, past>>

ArrayRow == 1..MaxArrayRows
\* 0, or the place of a header that is followed by at least one element.
Offsets == UNION {[1..n -> 0..(MaxWords - 1)] : n \in 0..MaxArrayRows}
Words == Seq(Element \cup Nat)
NoOp == [call |-> "flush", row |-> 0]

ArraysTypeOK ==
    /\ rows \in 0..MaxArrayRows
    /\ f0 \in [state : {"none", "torn", "ok"}, off : Offsets]
    /\ f0i \in Words
    /\ writing \in BOOLEAN
    /\ offs \in Offsets
    /\ buf \in Words
    /\ pc \in {"idle", "f0", "openF0i", "f0i", "dat", "rebuild"}
    /\ op \in [call : {"create", "flush", "add", "remove"}, row : 0..MaxArrayRows]
    /\ reader \in [Readers \cup {Own} ->
                    [state : {"unread", "failed", "open"}, off : Offsets,
                     loaded : BOOLEAN, words : Words]]
    /\ DOMAIN kept = ArrayRow /\ DOMAIN past = ArrayRow

----------------------------------------------------------------------------
FileHeader == <<0>>
ArrayEntry(array) == <<Len(array)>> \o array

Unread == [state |-> "unread", off |-> <<>>, loaded |-> FALSE, words |-> <<>>]

OpenedReader ==
    IF f0.state = "ok" THEN [Unread EXCEPT !.state = "open", !.off = f0.off]
                       ELSE [Unread EXCEPT !.state = "failed"]

\* read_indirect_*: nothing for offset 0, beyond the file or cut off by its end.
ReadArray(off, words, r) ==
    LET at == off[r]
        n == words[at + 1]
    IN  IF r \notin DOMAIN off \/ at = 0 \/ at >= Len(words) THEN None
        ELSE IF n \in Element THEN Garbage
        ELSE IF Len(words) - at < 1 + n THEN None
        ELSE SubSeq(words, at + 2, at + 1 + n)

NoOffsets(n) == [r \in 1..n |-> 0]

ArraysInit ==
    /\ rows = 0
    /\ f0 = [state |-> "none", off |-> <<>>]
    /\ f0i = <<>>
    /\ writing = FALSE
    /\ offs = <<>>
    /\ buf = <<>>
    /\ pc = "idle"
    /\ op = NoOp
    /\ reader = [p \in Readers \cup {Own} |-> Unread]
    /\ kept = [r \in ArrayRow |-> None]
    /\ past = [r \in ArrayRow |-> <<>>]

----------------------------------------------------------------------------
(* The writing Table.                                                      *)

\* Table::create: table.dat is written, then table.f0 and table.f0i.
Create(n) ==
    /\ ~writing
    /\ writing' = TRUE
    /\ rows' = n
    /\ f0' = [f0 EXCEPT !.state = "torn"]
    /\ offs' = NoOffsets(n)
    /\ buf' = <<>>
    /\ pc' = "f0"
    /\ op' = [NoOp EXCEPT !.call = "create"]
    /\ kept' = [r \in ArrayRow |-> None]
    /\ past' = [r \in ArrayRow |-> <<>>]
    /\ UNCHANGED <<f0i, reader>>

\* Table::open_rw: a fresh writer takes over the offsets, not the arrays.  A
\* table.f0 that cannot be opened is passed over in silence, one without all
\* the rows of table.dat makes the copy throw.
OpenRw ==
    /\ ~writing
    /\ f0.state # "none"
    /\ f0.state = "ok" => rows <= Len(f0.off)
    /\ writing' = TRUE
    /\ reader' = [reader EXCEPT ![Own] = OpenedReader]
    /\ offs' = IF f0.state = "ok" THEN SubSeq(f0.off, 1, rows) ELSE NoOffsets(rows)
    /\ buf' = <<>>
    /\ kept' = [r \in ArrayRow |-> IF f0.state = "ok" /\ r <= rows
                                  THEN ReadArray(f0.off, f0i, r) ELSE None]
    /\ past' = [r \in ArrayRow |-> <<>>]
    /\ UNCHANGED <<rows, f0, f0i, pc, op>>

\* write_indirect_array: append the entry, remember where; what the row had
\* before stays in the buffer.
WriteArray(r, array) ==
    /\ writing /\ pc = "idle"
    /\ r \in DOMAIN offs
    /\ Len(buf) + Len(ArrayEntry(array)) <= MaxWords
    /\ offs' = [offs EXCEPT ![r] = Len(FileHeader) + Len(buf)]
    /\ buf' = buf \o ArrayEntry(array)
    /\ past' = [past EXCEPT ![r] = Append(@, array)]
    /\ UNCHANGED <<rows, f0, f0i, writing, pc, op, reader, kept>>

\* Table::flush, alone or at the start of add_row and remove_row.
StartFlush(o) ==
    /\ writing /\ pc = "idle"
    /\ f0' = [state |-> "torn", off |-> <<>>]
    /\ pc' = "f0"
    /\ op' = o
    /\ UNCHANGED <<rows, f0i, writing, offs, buf, reader, kept, past>>

Flush == StartFlush(NoOp)

AddRow == Len(offs) < MaxArrayRows /\ StartFlush([NoOp EXCEPT !.call = "add"])

RemoveRow(r) == r \in DOMAIN offs /\ StartFlush([call |-> "remove", row |-> r])

FlushF0 ==
    /\ pc = "f0"
    /\ f0' = [state |-> "ok", off |-> offs]
    /\ pc' = "openF0i"
    /\ UNCHANGED <<rows, f0i, writing, offs, buf, op, reader, kept, past>>

OpenF0i ==
    /\ pc = "openF0i"
    /\ f0i' = <<>>
    /\ pc' = "f0i"
    /\ UNCHANGED <<rows, f0, writing, offs, buf, op, reader, kept, past>>

\* Mutant: what has been written out is dropped from the buffer.
FlushF0iDrains ==
    /\ pc = "f0i"
    /\ f0i' = FileHeader \o buf
    /\ buf' = <<>>
    /\ pc' = IF op.call = "create" THEN "idle" ELSE "dat"
    /\ op' = IF op.call = "create" THEN NoOp ELSE op
    /\ UNCHANGED <<rows, f0, writing, offs, reader, kept, past>>

\* write_indirect_file: the header and the writer's buffer, also when nothing
\* has been written to the buffer.
FlushF0i ==
    /\ pc = "f0i"
    /\ f0i' = FileHeader \o buf
    /\ pc' = IF op.call = "create" THEN "idle" ELSE "dat"
    /\ op' = IF op.call = "create" THEN NoOp ELSE op
    /\ UNCHANGED <<rows, f0, writing, offs, buf, reader, kept, past>>

FlushDat ==
    /\ pc = "dat"
    /\ rows' = Len(offs)
    /\ reader' = [reader EXCEPT ![Own] = Unread]
    /\ pc' = IF op = NoOp THEN "idle" ELSE "rebuild"
    /\ UNCHANGED <<f0, f0i, writing, offs, buf, op, kept, past>>

\* The rebuild of add_row and remove_row: a fresh writer, the offsets of the
\* rows that stay copied from the file.
Rebuild ==
    LET n == IF op.call = "add" THEN Len(offs) + 1 ELSE Len(offs) - 1
        source(r) == IF op.call = "add" \/ r < op.row THEN r ELSE r + 1
    IN  /\ pc = "rebuild"
        /\ offs' = [r \in 1..n |-> IF source(r) <= rows THEN f0.off[source(r)] ELSE 0]
        /\ buf' = <<>>
        /\ reader' = [reader EXCEPT ![Own] = OpenedReader]
        /\ kept' = [r \in ArrayRow |-> IF r <= n /\ source(r) <= rows
                                      THEN ReadArray(f0.off, f0i, source(r)) ELSE None]
        /\ past' = [r \in ArrayRow |-> <<>>]
        /\ pc' = "idle"
        /\ op' = NoOp
        /\ UNCHANGED <<rows, f0, f0i, writing>>

\* The Table is destroyed or its process dies, in any step.
StopWriting ==
    /\ writing
    /\ writing' = FALSE
    /\ offs' = <<>>
    /\ buf' = <<>>
    /\ pc' = "idle"
    /\ op' = NoOp
    /\ reader' = [reader EXCEPT ![Own] = Unread]
    /\ UNCHANGED <<rows, f0, f0i, kept, past>>

----------------------------------------------------------------------------
(* Readers: table.f0 is taken into memory on first use, table.f0i on the   *)
(* first read of an array, and neither is looked at again.                 *)

OpenReader(p) ==
    /\ reader[p].state = "unread"
    /\ p = Own => writing /\ pc = "idle"
    /\ f0.state # "none"
    /\ reader' = [reader EXCEPT ![p] = OpenedReader]
    /\ UNCHANGED <<rows, f0, f0i, writing, offs, buf, pc, op, kept, past>>

EnsureIndirectLoaded(p) ==
    /\ reader[p].state = "open"
    /\ ~reader[p].loaded
    /\ p = Own => pc = "idle"
    /\ reader' = [reader EXCEPT ![p].loaded = TRUE, ![p].words = f0i]
    /\ UNCHANGED <<rows, f0, f0i, writing, offs, buf, pc, op, kept, past>>

CloseReader(p) ==
    /\ p # Own
    /\ reader[p].state # "unread"
    /\ reader' = [reader EXCEPT ![p] = Unread]
    /\ UNCHANGED <<rows, f0, f0i, writing, offs, buf, pc, op, kept, past>>

----------------------------------------------------------------------------
CreateNext ==
    \/ \E n \in 0..MaxArrayRows : f0.state = "none" /\ Create(n)
    \/ \E r \in ArrayRow, array \in Array : WriteArray(r, array)
    \/ Flush \/ FlushF0 \/ OpenF0i \/ FlushF0i \/ FlushDat \/ StopWriting
    \/ \E p \in Readers \cup {Own} :
        OpenReader(p) \/ EnsureIndirectLoaded(p) \/ CloseReader(p)

ArraysNext ==
    \/ CreateNext
    \/ \E n \in 0..MaxArrayRows : Create(n)
    \/ OpenRw
    \/ AddRow
    \/ \E r \in ArrayRow : RemoveRow(r)
    \/ Rebuild

ArraysSpec == ArraysInit /\ [][ArraysNext]_arrayVars

\* The arrays are all written by the Table that created the table.
CreateSpec == ArraysInit /\ [][CreateNext]_arrayVars

\* The two in one: other processes read only the arrays of a table that the
\* Table which created it alone writes.
VARIABLE creatorOnly

ArraysStep ==
    IF creatorOnly THEN CreateNext
    ELSE ArraysNext /\ \A p \in Readers : reader'[p].state = "unread"

SharedSpec ==
    /\ ArraysInit /\ creatorOnly \in BOOLEAN
    /\ [][ArraysStep /\ UNCHANGED creatorOnly]_<<arrayVars, creatorOnly>>

----------------------------------------------------------------------------
\* When a flush has written both files, every row that was written since the
\* writer was set up reads back as the last array written to it, whatever was
\* appended in between and however many flushes came before.
WrittenArraysReadBack ==
    pc = "dat" => \A r \in DOMAIN offs :
                    past[r] # <<>> => ReadArray(f0.off, f0i, r) = Last(past[r])

\* table.f0i only grows at its end while the Table that created it is open, so
\* a reader that pairs an old table.f0 with a newer table.f0i, or the other way
\* round, or finds one cut off, sees of every row nothing or an array that was
\* written to this very row, never another row's and never garbage.
MixedFilesShowThePast ==
    \A p \in Readers \cup {Own} : reader[p].loaded =>
        \A r \in DOMAIN reader[p].off :
            ReadArray(reader[p].off, reader[p].words, r) \in {None} \cup Range(past[r])

\* A reader that takes in table.f0 and table.f0i at different times, with
\* flushes of the Table that created them in between, sees of a row nothing or
\* an array that was written to that row (standard_stman.cpp:1025).
ReadersShowThePast == creatorOnly => MixedFilesShowThePast

\* The comment on write_indirect_offset, "preserve existing indirect offsets
\* without modifying the .f0i file": a row nobody wrote reads after a flush as
\* it did when the writer was set up.
UnwrittenArraysKept ==
    pc = "dat" => \A r \in DOMAIN offs :
                    past[r] = <<>> => ReadArray(f0.off, f0i, r) = kept[r]
=============================================================================
