---------------------------- MODULE TiledStorage ----------------------------
(***************************************************************************)
(* The tiled storage managers, src/src/tiled_stman.cpp: where               *)
(* TiledStManWriter::write_files puts the cells of its columns, what it     *)
(* tells the reader in the header, and where TiledStManReader looks.        *)
(*                                                                         *)
(* Of a shape only the number of elements is kept: the writer's tiles hold *)
(* whole cells.  A cell is a set: of its elements that are true if it is of *)
(* booleans, of what stands for its value if it is of numbers, and empty    *)
(* when it is all zero.  Rows, elements and bytes count from 0.             *)
(***************************************************************************)
EXTENDS Integers, SequencesExt

CONSTANTS
    TiledTables,    \* what the writer may be set up with
    TiledNumbers,   \* values of number cells other than zero
    MaxTiledWrites, \* bound on the cells written
    TargetPixels    \* kTargetTilePixels

\* tsm_element_size: a boolean takes one byte in the buffer, a number more.
ASSUME TiledAssumption ==
    /\ \A t \in TiledTables :
        /\ t.manager \in {"cell", "shape", "data", "column"}
        /\ t.columns \in Seq([bool : BOOLEAN, size : Nat \ {0}]) \ {<<>>}
        /\ \A c \in DOMAIN t.columns : t.columns[c].bool <=> t.columns[c].size = 1
        /\ t.pixels \in Nat \ {0}
        /\ t.rows \in Nat \ {0}
    /\ MaxTiledWrites \in Nat
    /\ TargetPixels \in Nat

VARIABLES
    tiled,          \* setup's manager, columns, elements of a cell and rows
    buffer,         \* WriterColumnInfo::data, as cells
    tilePhase,      \* what the writer does
    put,            \* the cells write_tsm_data_file has put
    tileBytes,      \* the bytes it has written to
    saved,          \* the buffer when the file was last written
    tiledWrites     \* how many cells were written

tiledVars == <<tiled, buffer, tilePhase, put, tileBytes, saved, tiledWrites>>

Columns == DOMAIN tiled.columns
IsBool(c) == tiled.columns[c].bool
TiledCells == [(Columns \X (0..(tiled.rows - 1))) ->
                SUBSET (TiledNumbers \cup 0..(tiled.pixels - 1))]

TiledTypeOK ==
    /\ tilePhase \in {"new", "open", "putting", "written", "overrun"}
    /\ tilePhase # "new" => tiled \in TiledTables /\ buffer \in TiledCells
    /\ tilePhase = "written" => saved \in TiledCells
    /\ put \in 0..(Len(tiled.columns) * tiled.rows)
    /\ DOMAIN tileBytes \subseteq Nat
    /\ tiledWrites \in 0..MaxTiledWrites

NoTable == [manager |-> "column", columns |-> <<>>, pixels |-> 1, rows |-> 1]

TiledInit ==
    /\ tiled = NoTable
    /\ buffer = <<>>
    /\ tilePhase = "new"
    /\ put = 0
    /\ tileBytes = <<>>
    /\ saved = <<>>
    /\ tiledWrites = 0

----------------------------------------------------------------------------
(* Tiles.                                                                  *)

Bits(n) == (n + 7) \div 8
Largest(m, n) == IF m > n THEN m ELSE n

\* The rows of a tile; for TiledColumnStMan compute_tile_rows, which rounds.
TileRows ==
    CASE tiled.manager \in {"cell", "shape"} -> 1
      [] tiled.manager = "data" -> tiled.rows
      [] tiled.manager = "column" ->
            Largest(1, (2 * TargetPixels + tiled.pixels) \div (2 * tiled.pixels))

TilePixels == tiled.pixels * TileRows

\* compute_sorted_col_indices: sorted by size, ascending, and turned around.
Order(size) ==
    CHOOSE order \in SetToSeqs(Columns) : \A i, j \in DOMAIN order : i < j =>
        \/ size[order[i]] > size[order[j]]
        \/ size[order[i]] = size[order[j]] /\ order[i] > order[j]

\* The writer sorts by the bytes of an element; for the reader, a boolean has
\* none.  (Mutant: sorted in ascending order, and not turned around.)
WriterOrderAscending == Reverse(Order([c \in Columns |-> tiled.columns[c].size]))
WriterOrder == Order([c \in Columns |-> tiled.columns[c].size])
ReaderOrder == Order([c \in Columns |-> IF IsBool(c) THEN 0 ELSE tiled.columns[c].size])

\* The bytes of a column in a tile: the writer forgets to pack the booleans of
\* a TiledColumnStMan, whose layout it computes without their flags.
WriterArea ==
    [c \in Columns |-> IF IsBool(c) /\ tiled.manager # "column" THEN Bits(TilePixels)
                       ELSE TilePixels * tiled.columns[c].size]

\* tsm_tile_data_bytes
ReaderArea ==
    [c \in Columns |-> IF IsBool(c) THEN Bits(TilePixels)
                       ELSE TilePixels * tiled.columns[c].size]

\* compute_col_offsets: the columns lie in a tile one after the other.
ColumnOffsets(order, area) ==
    LET offset[k \in 0..Len(order)] ==
            IF k = 0 THEN 0 ELSE offset[k - 1] + area[order[k]]
    IN  offset

AreaStart(order, area, c) ==
    ColumnOffsets(order, area)[(CHOOSE k \in DOMAIN order : order[k] = c) - 1]

BucketBytes(order, area) == ColumnOffsets(order, area)[Len(order)]

----------------------------------------------------------------------------
(* TiledStManWriter.                                                       *)

SetupTiled ==
    /\ tilePhase = "new"
    /\ \E t \in TiledTables :
        /\ tiled' = t
        /\ buffer' = [cell \in (DOMAIN t.columns) \X (0..(t.rows - 1)) |-> {}]
    /\ tilePhase' = "open"
    /\ UNCHANGED <<put, tileBytes, saved, tiledWrites>>

WriteTiled(c, r, v) ==
    /\ tilePhase \in {"open", "written"}
    /\ tiledWrites < MaxTiledWrites
    /\ r < tiled.rows
    /\ buffer' = [buffer EXCEPT ![<<c, r>>] = v]
    /\ tiledWrites' = tiledWrites + 1
    /\ tilePhase' = "open"
    /\ UNCHANGED <<tiled, put, tileBytes, saved>>

\* The file is built anew, from zeros, whenever it is written.
WriteFiles ==
    /\ tilePhase \in {"open", "written"}
    /\ tilePhase' = "putting"
    /\ put' = 0
    /\ tileBytes' = <<>>
    /\ UNCHANGED <<tiled, buffer, saved, tiledWrites>>

FileBytes == ((tiled.rows + TileRows - 1) \div TileRows) * BucketBytes(WriterOrder, WriterArea)

\* Every cell of booleans starts a byte of its own.
CellBytes(c) == IF IsBool(c) THEN Bits(tiled.pixels) ELSE tiled.pixels * tiled.columns[c].size

PutAt(c, r) ==
    (r \div TileRows) * BucketBytes(WriterOrder, WriterArea)
        + AreaStart(WriterOrder, WriterArea, c) + (r % TileRows) * CellBytes(c)

Number(v, k) == [of |-> v, part |-> IF v = {} THEN 0 ELSE k, bits |-> {}]
Packed(S, k) == [of |-> {}, part |-> 0, bits |-> {b \in 0..7 : 8 * k + b \in S}]

BytesOfCell(c, v, at) ==
    [a \in at..(at + CellBytes(c) - 1) |-> IF IsBool(c) THEN Packed(v, a - at) ELSE Number(v, a - at)]

Overwritten(bytes, new) ==
    [a \in DOMAIN bytes \cup DOMAIN new |-> IF a \in DOMAIN new THEN new[a] ELSE bytes[a]]

\* A row's columns one by one, in their order in the tile.  A cell that goes
\* behind the file's last byte is written out of the buffer's bounds: what
\* happens then is undefined, and not followed.
PutCell ==
    /\ tilePhase = "putting"
    /\ put < Len(tiled.columns) * tiled.rows
    /\ LET r == put \div Len(tiled.columns)
           c == WriterOrder[(put % Len(tiled.columns)) + 1]
           v == buffer[<<c, r>>]
           at == PutAt(c, r)
       IN  /\ tileBytes' = Overwritten(tileBytes, BytesOfCell(c, v, at))
           /\ tilePhase' = IF at + CellBytes(c) > FileBytes THEN "overrun" ELSE "putting"
    /\ put' = put + 1
    /\ UNCHANGED <<tiled, buffer, saved, tiledWrites>>

FilesWritten ==
    /\ tilePhase = "putting"
    /\ put = Len(tiled.columns) * tiled.rows
    /\ tilePhase' = "written"
    /\ saved' = buffer
    /\ UNCHANGED <<tiled, buffer, put, tileBytes, tiledWrites>>

TiledNext ==
    \/ SetupTiled
    \/ tilePhase \in {"open", "written"} /\ \E c \in Columns, r \in 0..(tiled.rows - 1) :
        \E v \in IF IsBool(c) THEN SUBSET {0, tiled.pixels - 1}
                 ELSE {{}} \cup {{n} : n \in TiledNumbers} : WriteTiled(c, r, v)
    \/ WriteFiles
    \/ PutCell
    \/ FilesWritten

TiledSpec == TiledInit /\ [][TiledNext]_tiledVars

----------------------------------------------------------------------------
(* TiledStManReader.                                                       *)

\* The cubes in the header.  TiledCellStMan has one for every row, and counts a
\* byte for every boolean before it; TiledShapeStMan has a dummy, without a file.
Cube(n, file, offset) == [rows |-> n, file |-> file, offset |-> offset]
Cubes ==
    CASE tiled.manager = "cell" ->
            [i \in 1..tiled.rows |-> Cube(1, 0, (i - 1) *
                BucketBytes(WriterOrder, [c \in Columns |-> tiled.pixels * tiled.columns[c].size]))]
      [] tiled.manager = "shape" -> <<Cube(0, -1, 0), Cube(tiled.rows, 1, 0)>>
      [] tiled.manager \in {"data", "column"} -> <<Cube(tiled.rows, 0, 0)>>

\* The last row and position of TiledShapeStMan's row map, and the first ones of
\* TiledDataStMan's, with their cubes.
ShapeRowMap == [end |-> tiled.rows - 1, cube |-> 2, pos |-> tiled.rows - 1]
DataRowMap == [start |-> 0, cube |-> 1, pos |-> 0]

\* The rows of the cubes before cube i.
RowsBefore(i) ==
    LET before[k \in 0..Len(Cubes)] ==
            IF k = 0 THEN 0
            ELSE before[k - 1] + (IF Cubes[k].file >= 0 THEN Cubes[k].rows ELSE 0)
    IN  before[i - 1]

\* locate_row: the cube of a row, and the row's position in it.
Locate(r) ==
    CASE tiled.manager = "shape" ->
            [cube |-> ShapeRowMap.cube, pos |-> ShapeRowMap.pos - (ShapeRowMap.end - r)]
      [] tiled.manager = "data" ->
            [cube |-> DataRowMap.cube, pos |-> DataRowMap.pos + (r - DataRowMap.start)]
      [] tiled.manager \in {"cell", "column"} ->
            LET i == CHOOSE k \in DOMAIN Cubes :
                        RowsBefore(k) <= r /\ r < RowsBefore(k) + Cubes[k].rows
            IN  [cube |-> i, pos |-> r - RowsBefore(i)]

\* Where the column starts in the tile of the row.
TileBase(c, r) ==
    Cubes[Locate(r).cube].offset
        + (Locate(r).pos \div TileRows) * BucketBytes(ReaderOrder, ReaderArea)
        + AreaStart(ReaderOrder, ReaderArea, c)

RowInTile(r) == Locate(r).pos % TileRows

FileByte(a) == IF a \in DOMAIN tileBytes THEN tileBytes[a] ELSE Number({}, 0)

\* The bits of a tile's rows follow each other.
ReadsBools(c, r, v) ==
    \A k \in 0..(tiled.pixels - 1) :
        LET bit == RowInTile(r) * tiled.pixels + k
            a == TileBase(c, r) + bit \div 8
        IN  a < FileBytes /\ (k \in v <=> (bit % 8) \in FileByte(a).bits)

ReadsNumbers(c, r, v) ==
    LET a == TileBase(c, r) + RowInTile(r) * tiled.pixels * tiled.columns[c].size
    IN  \A k \in 0..(tiled.pixels * tiled.columns[c].size - 1) :
            a + k < FileBytes /\ FileByte(a + k) = Number(v, k)

ReadsSaved ==
    \A c \in Columns, r \in 0..(tiled.rows - 1) :
        IF IsBool(c) THEN ReadsBools(c, r, saved[<<c, r>>])
        ELSE ReadsNumbers(c, r, saved[<<c, r>>])

----------------------------------------------------------------------------
(* Properties.                                                             *)

WholeBools ==
    \/ \A c \in Columns : ~IsBool(c)
    \/ tiled.manager = "shape"
    \/ tiled.manager = "data" /\ tiled.pixels % 8 = 0

\* What write_files wrote is what the reader finds, cell by cell, in the tiles
\* of every manager, as long as writer and reader agree on booleans: in tiles
\* of one row, or of whole bytes (tiled_stman.cpp:1800-2118 and 1161-1398).
TiledCellsReadBack ==
    /\ tilePhase = "written" /\ WholeBools => ReadsSaved
    /\ tilePhase = "overrun" => ~WholeBools
=============================================================================
