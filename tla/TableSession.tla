---------------------------- MODULE TableSession ----------------------------
(***************************************************************************)
(* One Table object that may write (src/src/table.cpp), as the code above  *)
(* it uses it: an SSM table of one process.  Cell writes go to the writer  *)
(* in memory, cell reads come from the reader, which for the only writer   *)
(* of a table shows the file (TableStore!ReadersShowFile), so a write is   *)
(* not seen before flush().  add_row and remove_row flush first and then   *)
(* change the writer only.                                                 *)
(*                                                                         *)
(* A flush is one step here; TableStore has the steps inside it.  Rows     *)
(* count from 1 here and from 0 in the code.                               *)
(***************************************************************************)
EXTENDS Naturals, SequencesExt

CONSTANTS
    Column,     \* the columns
    Val,        \* cell values
    Blank,      \* the value of a cell nobody wrote
    MaxRows     \* bound on the rows of the table

ASSUME TableSessionAssumption ==
    /\ Blank \in Val
    /\ MaxRows \in Nat

VARIABLES
    file,       \* the rows on disk, which the readers show
    mem         \* the rows of the writer

table == <<file, mem>>

Row == [Column -> Val]
Rows == BoundedSeq(Row, MaxRows)

SessionTypeOK ==
    /\ file \in Rows
    /\ mem \in Rows

BlankRow == [c \in Column |-> Blank]

\* The rows the Table says it has.
nrow == Len(mem)

\* Row numbers in ascending order.
InOrder(S) == CHOOSE s \in SetToSeqs(S) : \A i, j \in DOMAIN s : i < j => s[i] < s[j]

\* read_scalar_cell(c, r) does not throw: the reader has the row.
Readable(r) == r <= Len(file)

----------------------------------------------------------------------------
Flush ==
    /\ file' = mem
    /\ UNCHANGED mem

AddRow(n) ==
    /\ n > 0
    /\ nrow + n <= MaxRows
    /\ file' = mem
    /\ mem' = mem \o [i \in 1..n |-> BlankRow]

RemoveRow(r) ==
    /\ r <= nrow
    /\ file' = mem
    /\ mem' = RemoveAt(mem, r)

WriteCell(r, c, v) ==
    /\ r <= nrow
    /\ mem' = [mem EXCEPT ![r][c] = v]
    /\ UNCHANGED file

\* The Table object goes, with its process or without, and flushes nothing;
\* open_rw copies the file into a new writer.
Reopen ==
    /\ mem' = file
    /\ UNCHANGED file
=============================================================================
