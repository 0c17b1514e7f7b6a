---------------------------- MODULE MCTableStore ----------------------------
(***************************************************************************)
(* Instances of TableStore for TLC, and its refinement of AbstractTable:   *)
(* with one writing process and one storage manager, the directory and the *)
(* Table object implement a session over durable rows.                     *)
(***************************************************************************)
EXTENDS TableStore, TLC

\* Tables as Table::create makes them.
SsmTable == <<"ssm">>
IsmTable == <<"ism">>

\* A table with scalar and tiled columns, as casacore's MeasurementSets have.
SsmTsmTable == <<"ssm", "tsm">>

CONSTANT Unknown

\* The only writing process.
w == CHOOSE h \in Writers : TRUE

\* The rows the session works on: those of the writer, or, for an ISM table
\* opened by open_rw, which has no writer, the file's.
SessionRows ==
    IF mode[w] # "rw" THEN <<>>
    ELSE IF writer[w][1].on THEN writer[w][1].cells
    ELSE [r \in DOMAIN file[1].cells \cap 1..dirRows[w] |-> file[1].cells[r]]

\* The directory holds rows when both files are whole and agree on how many.
DurableRows ==
    IF /\ dat.state = "ok"
       /\ file[1].kind = Managers[1]
       /\ Len(file[1].cells) = dat.rows
    THEN file[1].cells
    ELSE Unknown

Abstract == INSTANCE AbstractTable
                WITH session <- mode[w] = "rw",
                     rows <- SessionRows,
                     durable <- DurableRows

\* The files and the Table object implement the abstract table: what a new
\* Table would read is always the rows of the writing session at its last
\* flush, all of them, or nothing in particular while a flush is under way.
ImplementsAbstractTable == Abstract!Spec
=============================================================================
