--------------------------- MODULE AbstractTable ---------------------------
(***************************************************************************)
(* What casacore_mini::Table promises to the one program that writes a     *)
(* table: a session holds the rows it works on, `durable` is what the      *)
(* directory would give to somebody who opens it now, and durable rows     *)
(* only ever become the rows of the session, as a whole.  While a flush is *)
(* under way, and after a process died in the middle of one, the directory *)
(* holds no particular rows (Unknown).                                     *)
(*                                                                         *)
(* The rows of one storage manager stand for the table; a row is a value.  *)
(***************************************************************************)
EXTENDS Naturals, Sequences

CONSTANTS
    Val,        \* the cell values
    Default,    \* what a cell nobody wrote holds
    MaxRows,    \* bound on the rows of a table
    Unknown     \* not a sequence of rows

VARIABLES
    session,    \* a writable Table object is alive
    rows,       \* the rows it works on
    durable     \* the rows in the directory, or Unknown

vars == <<session, rows, durable>>

Rows == UNION {[1..n -> Val] : n \in 0..MaxRows}

\* The sequence s without its element r: later rows shift down by one.
Without(s, r) == [i \in 1..(Len(s) - 1) |-> IF i < r THEN s[i] ELSE s[i + 1]]

TypeOK ==
    /\ session \in BOOLEAN
    /\ rows \in Rows
    /\ durable \in Rows \cup {Unknown}

Init ==
    /\ session = FALSE
    /\ rows = <<>>
    /\ durable = Unknown

\* A new table of n default rows replaces what was there; nothing is durable
\* before the files are.
Create ==
    /\ ~session
    /\ session' = TRUE
    /\ \E n \in 0..MaxRows : rows' = [i \in 1..n |-> Default]
    /\ durable' = Unknown

\* A session starts from the durable rows; from whatever it can salvage when
\* an earlier flush was cut short.
Open ==
    /\ ~session
    /\ session' = TRUE
    /\ \/ durable # Unknown /\ rows' = durable
       \/ durable = Unknown /\ rows' \in Rows
    /\ UNCHANGED durable

Write ==
    /\ session
    /\ \E r \in 1..Len(rows), v \in Val : rows' = [rows EXCEPT ![r] = v]
    /\ UNCHANGED <<session, durable>>

\* Rows are added and removed only when everything before is durable.
Grow ==
    /\ session
    /\ durable = rows
    /\ \E n \in 1..(MaxRows - Len(rows)) : rows' = rows \o [i \in 1..n |-> Default]
    /\ UNCHANGED <<session, durable>>

Shrink ==
    /\ session
    /\ durable = rows
    /\ \E r \in 1..Len(rows) : rows' = Without(rows, r)
    /\ UNCHANGED <<session, durable>>

\* A flush makes the directory Unknown for a while, never stale or mixed.
FlushBegin ==
    /\ session
    /\ durable' = Unknown
    /\ UNCHANGED <<session, rows>>

FlushEnd ==
    /\ session
    /\ durable' = rows
    /\ UNCHANGED <<session, rows>>

\* With nothing durable to rely on, the session's rows may be anything.
Salvage ==
    /\ session
    /\ durable = Unknown
    /\ rows' \in Rows
    /\ UNCHANGED <<session, durable>>

\* The Table object goes away, orderly or not: unflushed rows are gone.
Stop ==
    /\ session
    /\ session' = FALSE
    /\ rows' = <<>>
    /\ UNCHANGED durable

Next ==
    \/ Create \/ Open \/ Write \/ Grow \/ Shrink
    \/ FlushBegin \/ FlushEnd \/ Salvage \/ Stop

Spec == Init /\ [][Next]_vars
=============================================================================
