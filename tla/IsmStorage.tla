----------------------------- MODULE IsmStorage -----------------------------
(***************************************************************************)
(* The incremental storage manager, src/src/incremental_stman.cpp: the     *)
(* writer keeps every cell, its flush stores a column's value only where   *)
(* it changes and packs the rows that have a change into buckets, and the  *)
(* reader takes for a row the last value stored at or before it.           *)
(*                                                                         *)
(* flush() is one call; it is followed row by row here because its passes  *)
(* (which rows have a change, which columns store there, which bucket the  *)
(* row goes into) are decided row by row from the rows before.  It is      *)
(* const, so what a second flush writes does not depend on the first, and  *)
(* a behaviour ends when the file is written.                              *)
(***************************************************************************)
EXTENDS Naturals, Sequences

CONSTANTS
    Column,
    Val,            \* cell values of the columns' types
    Zero,           \* what write_ism_value writes for a value of another type
    Unset,          \* the CellValue of a cell nobody wrote: of no column's type
    MaxRows,        \* bound on the rows
    BucketEntries   \* rows with a change that fit into a bucket

ASSUME IsmAssumption ==
    /\ Column # {}
    /\ Zero \in Val
    /\ Unset \notin Val
    /\ MaxRows \in Nat
    /\ BucketEntries \in Nat \ {0}

VARIABLES
    nrow,       \* IsmWriter::row_count_
    cells,      \* IsmColumnInfo::row_values
    scan,       \* the row flush() looks at; 0 before flush()
    entries,    \* the column entries flush() has stored so far
    starts,     \* bucket_start_rows
    count,      \* rows in the bucket being filled
    file        \* the file: its entries and bucket starts, once it is written

vars == <<nrow, cells, scan, entries, starts, count, file>>

Row == 1..MaxRows
Cells == [Column -> [Row -> Val \cup {Unset}]]
Entry == [bucket : Nat, col : Column, row : Row, value : Val]

TypeOK ==
    /\ nrow \in 0..MaxRows
    /\ cells \in Cells
    /\ scan \in 0..(MaxRows + 1)
    /\ entries \subseteq Entry
    /\ starts \in Seq(Row)
    /\ count \in 0..BucketEntries
    /\ file.written \in BOOLEAN
    /\ file.entries \subseteq Entry
    /\ file.starts \in Seq(Row)

----------------------------------------------------------------------------
\* write_ism_value: a CellValue of the wrong type is written as zero.
Written(v) == IF v = Unset THEN Zero ELSE v

NoCells == [c \in Column |-> [r \in Row |-> Unset]]

\* The entries of a column that are last at or before a row: read_cell's
\* upper_bound over the entries of all buckets, sorted by row.
InForce(es, c, r) ==
    {e \in es : /\ e.col = c /\ e.row <= r
                /\ \A f \in es : f.col = c /\ f.row <= r => f.row <= e.row}

Init ==
    /\ nrow = 0
    /\ cells = NoCells
    /\ scan = 0
    /\ entries = {}
    /\ starts = <<>>
    /\ count = 0
    /\ file = [written |-> FALSE, entries |-> {}, starts |-> <<>>]

Setup(n) ==
    /\ scan = 0
    /\ nrow' = n
    /\ cells' = NoCells
    /\ UNCHANGED <<scan, entries, starts, count, file>>

WriteCell(c, r, v) ==
    /\ scan = 0
    /\ r <= nrow
    /\ cells' = [cells EXCEPT ![c][r] = v]
    /\ UNCHANGED <<nrow, scan, entries, starts, count, file>>

FlushBegin ==
    /\ scan = 0
    /\ scan' = 1
    /\ UNCHANGED <<nrow, cells, entries, starts, count, file>>

\* Mutant: a row is entered when every column changes.
HasEntryAll(r) == r = 1 \/ \A c \in Column : cells[c][r] # cells[c][r - 1]

\* entry_written: the first row, and every row with a change in some column.
HasEntry(r) == r = 1 \/ \E c \in Column : cells[c][r] # cells[c][r - 1]

\* The columns that store their value at such a row: all at the first row,
\* otherwise those whose value differs from the last one they stored.
Storing(r) ==
    {c \in Column :
        r = 1 \/ \E e \in InForce(entries, c, r) : cells[c][r] # cells[c][e.row]}

\* Mutant: a bucket takes one more row than fits.
BucketFullLate == starts = <<>> \/ count > BucketEntries

BucketFull == starts = <<>> \/ count = BucketEntries

\* Mutant: the number of the first entry is taken for its row.
NextStartsByEntry(r) ==
    IF BucketFull THEN Append(starts, 1 + BucketEntries * Len(starts)) ELSE starts

NextStarts(r) == IF BucketFull THEN Append(starts, r) ELSE starts

FlushRow ==
    /\ scan \in 1..nrow
    /\ IF HasEntry(scan)
           THEN /\ starts' = NextStarts(scan)
                /\ count' = IF BucketFull THEN 1 ELSE count + 1
                /\ entries' = entries \cup
                     {[bucket |-> Len(starts'), col |-> c, row |-> scan,
                       value |-> Written(cells[c][scan])] : c \in Storing(scan)}
           ELSE UNCHANGED <<entries, starts, count>>
    /\ scan' = scan + 1
    /\ UNCHANGED <<nrow, cells, file>>

WriteFile ==
    /\ scan = nrow + 1
    /\ ~file.written
    /\ file' = [written |-> TRUE, entries |-> entries, starts |-> starts]
    /\ UNCHANGED <<nrow, cells, scan, entries, starts, count>>

Next ==
    \/ \E n \in 0..MaxRows : Setup(n)
    \/ \E c \in Column, r \in Row, v \in Val : WriteCell(c, r, v)
    \/ FlushBegin
    \/ FlushRow
    \/ WriteFile

Spec == Init /\ [][Next]_vars

----------------------------------------------------------------------------
\* Every cell reads back from the file as the writer has it, zero for a cell
\* nobody wrote, although a column may store nothing at a row, or in a whole
\* bucket.
CellsReadBack ==
    file.written => \A c \in Column, r \in 1..nrow :
        /\ InForce(file.entries, c, r) # {}
        /\ \A e \in InForce(file.entries, c, r) : e.value = Written(cells[c][r])

\* The index of the file sends a row to the bucket that has its entries: the
\* buckets start at increasing rows, the first at the first row, and every
\* entry is in the last bucket that starts at or before its row.
IndexFindsEntries ==
    file.written =>
        /\ nrow > 0 => file.starts # <<>> /\ file.starts[1] = 1
        /\ \A i, j \in DOMAIN file.starts :
                i < j => file.starts[i] < file.starts[j]
        /\ \A e \in file.entries :
                /\ e.bucket \in DOMAIN file.starts
                /\ file.starts[e.bucket] <= e.row
                /\ e.bucket + 1 \in DOMAIN file.starts => e.row < file.starts[e.bucket + 1]
=============================================================================
