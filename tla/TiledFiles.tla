----------------------------- MODULE TiledFiles -----------------------------
(***************************************************************************)
(* The header of a tiled storage manager and what its reader makes of it   *)
(* (src/src/tiled_stman.cpp): hypercubes of several shapes, the maps from  *)
(* rows to places in them, and cells cut into tiles.                       *)
(*                                                                         *)
(* These writers make one hypercube, or one for each row, of whole cells;  *)
(* casacore makes all kinds, and headers of several versions.  A header is *)
(* big-endian always.  A place is the number of a file and of a bit in it. *)
(***************************************************************************)
LOCAL INSTANCE RecordStreams WITH TablePrefix <- "Table: ", MaxDepth <- 1

CONSTANT TilePixelTarget    \* kTargetTilePixels

NotAFile == -1
TsmCube(shape, tile, file, offset) ==
    [shape |-> shape, tile |-> tile, file |-> file, offset |-> offset]
\* A column: bytes of an element, and the shape of its cells, if table.dat has one.
TsmColumn(type, size, shape) == [type |-> type, size |-> size, shape |-> shape]
\* The rows say in which cube, counted from 0, and where along its last axis.
TsmStore(manager, columns, cubes, rows) ==
    [manager |-> manager, columns |-> columns, cubes |-> cubes, rows |-> rows]

shape_product(shape) == IF shape = <<>> THEN 0 ELSE Product(shape)
UpTo(n) == [i \in 1..n |-> i]
Ceiling(m, n) == (m + n - 1) \div n

----------------------------------------------------------------------------
(* Where things are in a tile.                                             *)

\* Sorted by size, ascending, and turned around; Bool has none.
tsm_sort_pixel_size(column) == IF column.type = "Bool" THEN 0 ELSE column.size
SortedColumns(columns) ==
    LET Size(c) == tsm_sort_pixel_size(columns[c])
    IN  SetToSortSeq(DOMAIN columns, LAMBDA b, c :
            Size(b) > Size(c) \/ (Size(b) = Size(c) /\ b > c))

tsm_tile_data_bytes(column, pixels) ==
    IF column.type = "Bool" THEN Ceiling(pixels, 8) ELSE pixels * column.size
ColumnsBytes(columns, order, n, pixels) ==
    FoldLeft(+, 0, [i \in 1..n |-> tsm_tile_data_bytes(columns[order[i]], pixels)])
BucketBytes(columns, pixels) ==
    ColumnsBytes(columns, SortedColumns(columns), Len(columns), pixels)
ColumnStart(columns, c, pixels) ==
    LET order == SortedColumns(columns)
    IN  ColumnsBytes(columns, order, (CHOOSE i \in DOMAIN order : order[i] = c) - 1, pixels)

\* The coordinates of an element in an array, and back.
Coordinates(shape, p) ==
    [d \in DOMAIN shape |-> (p \div Product(SubSeq(shape, 1, d - 1))) % shape[d]]
Linear(shape, x) ==
    FoldLeft(+, 0, [d \in DOMAIN shape |-> x[d] * Product(SubSeq(shape, 1, d - 1))])

BitsOf(column, pixel) == IF column.type = "Bool" THEN pixel ELSE 8 * pixel * column.size

\* What a hypercube is: tiles beside each other along every axis.
PlaceInCube(columns, cube, c, x) ==
    LET tiles == [d \in DOMAIN cube.shape |-> Ceiling(cube.shape[d], cube.tile[d])]
        tile == Linear(tiles, [d \in DOMAIN x |-> x[d] \div cube.tile[d]])
        inTile == Linear(cube.tile, [d \in DOMAIN x |-> x[d] % cube.tile[d]])
        pixels == Product(cube.tile)
    IN  <<cube.file, 8 * (cube.offset + tile * BucketBytes(columns, pixels)
                            + ColumnStart(columns, c, pixels))
                     + BitsOf(columns[c], inTile)>>

HasRowAxis(manager) == manager # "TiledCellStMan"
\* Cells as casacore stores them: their shapes, and the places of their elements.
CellsIn(store) ==
    [cell \in (DOMAIN store.columns) \X (0..(Len(store.rows) - 1)) |->
        LET row == store.rows[cell[2] + 1]
            cube == store.cubes[row[1] + 1]
            shape == IF HasRowAxis(store.manager) THEN Front(cube.shape) ELSE cube.shape
        IN  [shape |-> shape,
             places |-> [p \in 0..(Product(shape) - 1) |->
                PlaceInCube(store.columns, cube, cell[1],
                    IF HasRowAxis(store.manager) THEN Append(Coordinates(shape, p), row[2])
                    ELSE Coordinates(shape, p))]]]

----------------------------------------------------------------------------
(* TiledStManWriter::write_files.                                          *)

compute_tile_rows(cell) ==
    LET pixels == Product(cell)
        rounded == (2 * TilePixelTarget + pixels) \div (2 * pixels)
    IN  IF rounded > 1 THEN rounded ELSE 1

WrittenTileRows(manager, cell, n) ==
    CASE manager \in {"TiledCellStMan", "TiledShapeStMan"} -> 1
      [] manager = "TiledDataStMan" -> n
      [] OTHER -> compute_tile_rows(cell)

WrittenStore(manager, columns, cell, n) ==
    LET rows == WrittenTileRows(manager, cell, n)
        cubeBytes == BucketBytes(columns, Product(cell))
        InOne(cube) == [r \in 1..n |-> <<cube, r - 1>>]
        whole == Append(cell, n)
        tile == Append(cell, rows)
    IN  CASE manager = "TiledCellStMan" ->
               TsmStore(manager, columns,
                        [r \in 1..n |-> TsmCube(cell, cell, 0, (r - 1) * cubeBytes)],
                        [r \in 1..n |-> <<r - 1, 0>>])
          [] manager = "TiledShapeStMan" ->
               TsmStore(manager, columns,
                        <<TsmCube(<<>>, <<>>, NotAFile, 0), TsmCube(whole, tile, 1, 0)>>, InOne(1))
          [] OTHER -> TsmStore(manager, columns, <<TsmCube(whole, tile, 0, 0)>>, InOne(0))

\* write_tsm_data_file: the rows of a tile, each cell in one piece.
WrittenCells(manager, columns, cell, n) ==
    LET rows == WrittenTileRows(manager, cell, n)
        pixels == rows * Product(cell)
        Byte(c, r) == (r \div rows) * BucketBytes(columns, pixels) + ColumnStart(columns, c, pixels)
                         + (r % rows) * Product(cell) * columns[c].size
    IN  [x \in (DOMAIN columns) \X (0..(n - 1)) |->
           [shape |-> cell,
            places |-> [p \in 0..(Product(cell) - 1) |->
               <<IF manager = "TiledShapeStMan" THEN 1 ELSE 0,
                 8 * (Byte(x[1], x[2]) + p * columns[x[1]].size)>>]]]

----------------------------------------------------------------------------
(* The header.  A form of it: the versions of its objects, entries of maps *)
(* that are not used, values with the cubes, and what newer versions add.  *)

TsmForm(root, tiled, file, cube, iposition, spare, extra) ==
    [root |-> root, tiled |-> tiled, file |-> file, cube |-> cube, iposition |-> iposition,
     spare |-> spare, extra |-> extra, magic |-> FALSE]
TsmWritten(manager) == TsmForm(IF manager = "TiledDataStMan" THEN 2 ELSE 1, 2, 1, 1, 1, 0, FALSE)

TsmFiles(store) == {store.cubes[i].file : i \in DOMAIN store.cubes} \ {NotAFile}
TsmBlock(type, xs) ==
    ObjectIn([magic |-> FALSE], "Block", 1,
             Num("u32", Len(xs)) \o FlattenSeq([i \in DOMAIN xs |-> Num(type, xs[i])]))

write_tsm_record(form) ==
    ObjectIn(form, "Record", 1,
       ObjectIn(form, "RecordDesc", 2, Num("u32", 0)) \o Num("i32", 1)
       \o (IF form.extra THEN Num("f64", 5) ELSE <<>>))

write_tsm_cube(form, extensible, cube) ==
    Num("u32", form.cube) \o write_tsm_record(form) \o Num("u8", extensible)
    \o Num("u32", Len(cube.shape)) \o write_iposition(form, cube.shape)
    \o write_iposition(form, cube.tile) \o Num("i32", cube.file)
    \o Num(IF form.cube >= 2 THEN "i64" ELSE "i32", cube.offset)

write_tsm_files(form, store) ==
    LET n == 1 + (CHOOSE f \in TsmFiles(store) : \A g \in TsmFiles(store) : g <= f)
    IN  Num("u32", n) \o FlattenSeq([i \in 1..n |->
           IF (i - 1) \notin TsmFiles(store) THEN Num("u8", 0)
           ELSE Num("u8", 1) \o Num("u32", form.file) \o Num("u32", i - 1)
                \o Num(IF form.file >= 2 THEN "u64" ELSE "u32", 99)])

write_tsm_nested(form, store) ==
    ObjectIn(form, "TiledStMan", form.tiled,
       (IF form.tiled >= 2 THEN Num("u8", 0) ELSE <<>>)
       \o Num("u32", 3) \o Num("u32", Len(store.rows)) \o Num("u32", Len(store.columns))
       \o FlattenSeq([c \in DOMAIN store.columns |-> Num("i32", store.columns[c].type)])
       \o WriteText(<<"name">>) \o Num("u32", 0) \o Num("u32", 3)
       \o write_tsm_files(form, store)
       \o Num("u32", Len(store.cubes))
       \o FlattenSeq([i \in DOMAIN store.cubes |-> write_tsm_cube(form, 1, store.cubes[i])])
       \o (IF form.extra THEN Num("u32", 6) ELSE <<>>))

\* Rows that follow each other in one cube make one entry: of TiledShapeStMan
\* with the last of them, of TiledDataStMan with the first.
Follows(rows, i) == rows[i][1] = rows[i - 1][1] /\ rows[i][2] = rows[i - 1][2] + 1
RowMap(rows, last) ==
    LET chosen == SelectSeq(UpTo(Len(rows)), LAMBDA i :
                     IF last THEN i = Len(rows) \/ ~Follows(rows, i + 1)
                     ELSE i = 1 \/ ~Follows(rows, i))
    IN  [k \in DOMAIN chosen |-> <<chosen[k] - 1, rows[chosen[k]][1], rows[chosen[k]][2]>>]

write_row_map(form, map, type) ==
    LET Column(j) == [k \in 1..(Len(map) + form.spare) |-> IF k <= Len(map) THEN map[k][j] ELSE 8]
    IN  TsmBlock(type, Column(1)) \o TsmBlock("u32", Column(2)) \o TsmBlock("u32", Column(3))

write_tsm_tail(form, store) ==
    LET map == RowMap(store.rows, store.manager = "TiledShapeStMan")
        last == Num(IF form.root = 1 /\ form.tiled < 3 THEN "u32" ELSE "u64", Len(store.rows))
    IN  CASE store.manager = "TiledShapeStMan" ->
               write_iposition(form, <<2, 1>>) \o Num("u32", Len(map))
                  \o write_row_map(form, map, "u32")
          [] store.manager = "TiledDataStMan" /\ form.root = 1 ->
               last \o Num("u32", Len(map)) \o write_row_map(form, map, "u32")
          [] store.manager = "TiledDataStMan" -> last \o write_row_map(form, map, "u64")
          [] OTHER -> <<>>

write_tsm_header(form, store) ==
    ObjectIn([magic |-> TRUE], store.manager, form.root,
       (IF store.manager \in {"TiledColumnStMan", "TiledCellStMan"}
        THEN write_iposition(form, <<2>>) ELSE <<>>)
       \o write_tsm_nested(form, store) \o write_tsm_tail(form, store))

\* Objects end where their length says, whatever else they hold.
SkipTo(s, c, start, length) ==
    LET ends == {i \in c.at..(Len(s) + 1) : Bytes(SubSeq(s, start.at, i - 1)) = length}
    IN  IF ~c.ok \/ ends = {} THEN Throw(c)
        ELSE [c EXCEPT !.at = CHOOSE i \in ends : TRUE]
ObjectLength(s, c) == Token(s, c, "u32").value
read_version(s, c) == Token(s, c, "u32")

skip_aipsio_record(s, c) ==
    Then(read_embedded_object_header(s, c, {"Record", "TableRecord"}), LAMBDA header :
         SkipTo(s, header, c, ObjectLength(s, c)))

read_tsm_block(s, c, type) ==
    Then(Token(s, read_embedded_object_header(s, c, {"Block"}), "u32"), LAMBDA count :
    Then(Times(count, count.value, LAMBDA a : Token(s, a, type)), LAMBDA values :
         SkipTo(s, values, c, ObjectLength(s, c))))

parse_tsm_file(s, c) ==
    Then(Token(s, c, "u8"), LAMBDA has :
         IF has.value = 0 THEN Returns(has, <<>>)
         ELSE Then(read_version(s, has), LAMBDA version :
              Then(Token(s, version, "u32"), LAMBDA seqnr :
              Then(Token(s, seqnr, IF version.value >= 2 THEN "u64" ELSE "u32"), LAMBDA length :
                   Returns(length, <<seqnr.value>>)))))

parse_tsm_cube(s, c) ==
    Then(read_version(s, c), LAMBDA version :
    Then(Token(s, skip_aipsio_record(s, version), "u8"), LAMBDA extensible :
    Then(read_iposition(s, Token(s, extensible, "u32")), LAMBDA shape :
    Then(read_iposition(s, shape), LAMBDA tile :
    Then(Token(s, tile, "i32"), LAMBDA file :
    Then(Token(s, file, IF version.value >= 2 THEN "i64" ELSE "i32"), LAMBDA offset :
         Returns(offset, TsmCube(shape.value, tile.value, file.value, offset.value))))))))

\* Whatever else a newer version has added is skipped.
parse_tsm_nested(s, c) ==
    Then(read_embedded_object_header(s, c, {"TiledStMan"}), LAMBDA version :
    Then(IF version.value >= 2 THEN Token(s, version, "u8") ELSE version, LAMBDA order :
    Then(Each(order, <<"u32", "u32", "u32">>, LAMBDA a, t : Token(s, a, t)), LAMBDA sizes :
    Then(Times(sizes, sizes.value[3], LAMBDA a : Token(s, a, "i32")), LAMBDA types :
    Then(Each(ReadText(s, types), <<"u32", "u32", "u32">>, LAMBDA a, t : Token(s, a, t)),
         LAMBDA counts :
    Then(Times(counts, counts.value[3], LAMBDA a : parse_tsm_file(s, a)), LAMBDA files :
    Then(Token(s, files, "u32"), LAMBDA ncubes :
    Then(Times(ncubes, ncubes.value, LAMBDA a : parse_tsm_cube(s, a)), LAMBDA cubes :
         Returns(SkipTo(s, cubes, c, ObjectLength(s, c)),
                 [version |-> version.value, files |-> FlattenSeq(files.value),
                  cubes |-> cubes.value])))))))))

\* The map, from its three parts; entries that are not used are left out.
parse_row_map(s, c, type, used) ==
    Then(read_tsm_block(s, c, type), LAMBDA rows :
    Then(read_tsm_block(s, rows, "u32"), LAMBDA cubes :
    Then(read_tsm_block(s, cubes, "u32"), LAMBDA places :
         Returns(places, [k \in 1..(IF used < Len(rows.value) THEN used ELSE Len(rows.value)) |->
                            <<rows.value[k], cubes.value[k], places.value[k]>>]))))

\* TiledDataStMan has the number of rows in front.
parse_tsm_tail(s, c, manager, root, tiled) ==
    LET start == CASE manager = "TiledShapeStMan" -> read_iposition(s, c)
                   [] manager = "TiledDataStMan" /\ root = 1 /\ tiled < 3 -> Token(s, c, "u32")
                   [] manager = "TiledDataStMan" -> Token(s, c, "u64")
                   [] OTHER -> c
    IN  CASE manager \notin {"TiledShapeStMan", "TiledDataStMan"} -> Returns(c, <<>>)
          [] manager = "TiledShapeStMan" \/ root = 1 ->
               Then(Token(s, start, "u32"), LAMBDA used : parse_row_map(s, used, "u32", used.value))
          [] OTHER -> Then(start, LAMBDA last : parse_row_map(s, last, "u64", Len(s)))

parse_tsm_header(s) ==
    Then(Token(s, Start, "u32"), LAMBDA magic :
    Then(ReadText(s, Token(s, If(magic.value = Magic, magic), "u32")), LAMBDA type :
    Then(read_version(s, type), LAMBDA root :
    LET manager == type.value[1]
    IN  Then(IF manager \in {"TiledShapeStMan", "TiledDataStMan"} THEN root
             ELSE read_iposition(s, root), LAMBDA first :
        Then(parse_tsm_nested(s, first), LAMBDA nested :
        Then(parse_tsm_tail(s, nested, manager, root.value, nested.value.version), LAMBDA map :
             Returns(map, [manager |-> manager, files |-> nested.value.files,
                           cubes |-> nested.value.cubes, map |-> map.value])))))))

----------------------------------------------------------------------------
(* TiledStManReader.                                                       *)

\* The files of a manager in a table: its header, unless it is missing, and the
\* data files there are.
TsmFile(header, files, store, columns) ==
    [kind |-> "TiledStMan", header |-> header, files |-> files,
     columns |-> columns, rows |-> Len(store.rows)]

CubeLayout(index, start, rows, file, offset, cell, tile) ==
    [index |-> index, row_start |-> start, row_count |-> rows, file |-> file, offset |-> offset,
     cell |-> cell, tile |-> tile]

Valid(cube) == cube.file # NotAFile /\ cube.tile # <<>>
CellShapes(h) == {Front(h.cubes[i].shape) :
                     i \in {k \in DOMAIN h.cubes : Valid(h.cubes[k]) /\ Len(h.cubes[k].shape) >= 2}}

\* The shape of the cells of a column: none if it differs from row to row; if
\* table.dat has none, that of the first cube.
ReaderShapes(file, h, have) ==
    LET variable == have /\ (h.manager = "TiledShapeStMan" \/ Cardinality(CellShapes(h)) > 1)
        first == SelectSeq(h.cubes, Valid)
    IN  [c \in DOMAIN file.columns |->
           CASE variable -> <<>>
             [] file.columns[c].shape = <<>> /\ have /\ first # <<>> ->
                  IF Len(first[1].shape) >= 2 THEN Front(first[1].shape) ELSE <<>>
             [] OTHER -> file.columns[c].shape]

\* The data files that are loaded, in order: those that the header has, or else
\* one that is usual.
LoadedFiles(file, h, have) ==
    LET Present(fs) == SelectSeq(fs, LAMBDA f : f \in file.files)
        listed == Present(h.files \o [i \in DOMAIN h.cubes |-> h.cubes[i].file])
        usual == Present((IF have /\ h.files # <<>> THEN <<h.files[1]>> ELSE <<>>) \o <<0, 1, 2>>)
    IN  IF have /\ listed # <<>> THEN listed
        ELSE IF usual = <<>> THEN <<>> ELSE <<usual[1]>>

\* A cube of TiledCellStMan is one cell if it has as many axes as cells have.
CubeLayouts(h, ndim) ==
    FoldLeft(LAMBDA layouts, i :
        LET cube == h.cubes[i]
            start == IF layouts = <<>> THEN 0
                     ELSE Last(layouts).row_start + Last(layouts).row_count
            omits == h.manager = "TiledCellStMan" /\ Len(cube.shape) = ndim
        IN  IF ~Valid(cube) \/ cube.shape = <<>> THEN layouts
            ELSE Append(layouts,
                IF omits THEN CubeLayout(i - 1, start, 1, cube.file, cube.offset, cube.shape,
                                         IF Len(cube.tile) = ndim THEN Append(cube.tile, 1)
                                         ELSE cube.tile)
                ELSE CubeLayout(i - 1, start, Last(cube.shape), cube.file, cube.offset,
                                Front(cube.shape), cube.tile)),
        <<>>, UpTo(Len(h.cubes)))

\* Without a header, one cube with the tiles of a TiledColumnStMan.
ComputedLayout(file, cell, loaded) ==
    <<CubeLayout(0, 0, file.rows, loaded[1], 0, cell, Append(cell, compute_tile_rows(cell)))>>

\* An image of casacore: its one row is all of its cube.
CollapsesToOneRow(reader) == reader.rows = 1 /\ Len(reader.cubes) = 1
OneRow(l) ==
    LET cell == Append(l.cell, l.row_count)
    IN  [l EXCEPT !.cell = cell, !.row_count = 1, !.row_start = 0,
                  !.tile = IF Len(@) = Len(cell) THEN Append(@, 1) ELSE @]

NoHeader == [manager |-> "", files |-> <<>>, cubes |-> <<>>, map |-> <<>>]

Covered(layouts) == Last(layouts).row_start + Last(layouts).row_count

\* TiledStManReader::open.  A header that cannot be read is as good as none.
Checked(reader, covered) ==
    LET mapped == reader.manager \in {"TiledShapeStMan", "TiledDataStMan"}
        first == OneRow(reader.cubes[1])
    IN  CASE mapped /\ reader.map = <<>> -> Throw(Start)
          [] mapped \/ covered = reader.rows -> Returns(Start, reader)
          [] CollapsesToOneRow(reader) ->
               Returns(Start, [reader EXCEPT !.cubes = <<first>>,
                                             !.shapes = [c \in DOMAIN @ |-> first.cell]])
          [] OTHER -> Throw(Start)
WithLayouts(file, h, shapes, loaded, found) ==
    IF loaded = <<>> THEN Throw(Start)
    ELSE LET cubes == IF found # <<>> THEN found ELSE ComputedLayout(file, shapes[1], loaded)
         IN  Checked([shapes |-> shapes, columns |-> file.columns, loaded |-> loaded,
                      rows |-> file.rows, manager |-> h.manager, map |-> h.map,
                      cubes |-> cubes], Covered(cubes))
WithShapes(file, h, have, shapes) ==
    WithLayouts(file, h, shapes, LoadedFiles(file, h, have), CubeLayouts(h, Len(shapes[1])))
WithHeader(file, h, have) == WithShapes(file, h, have, ReaderShapes(file, h, have))
Parsed(file, parsed) ==
    WithHeader(file, IF parsed.ok THEN parsed.value ELSE NoHeader, parsed.ok)
open_tiled(file) == Parsed(file, parse_tsm_header(file.header))

\* locate_row: the cube and the place in it, by the map if there is one.
RowsOf(cubes, n) == {i \in DOMAIN cubes : cubes[i].index = n}
Located(cubes, found, place) ==
    IF found = {} \/ place < 0 THEN {}
    ELSE {<<i, place>> : i \in {k \in found : place < cubes[k].row_count}}
locate_row(reader, row) ==
    LET map == reader.map
        later == {k \in DOMAIN map : row <= map[k][1]}
        interval == map[CHOOSE k \in later : \A j \in later : k <= j]
        upTo == {k \in 1..Len(map) : \A j \in 2..k : map[j][1] <= row}
        chunk == map[CHOOSE k \in upTo : \A j \in upTo : j <= k]
        cubes == reader.cubes
        sequential == {i \in DOMAIN cubes :
                          row \in cubes[i].row_start..(cubes[i].row_start + cubes[i].row_count - 1)}
    IN  CASE reader.manager = "TiledShapeStMan" ->
               IF later = {} THEN {}
               ELSE Located(cubes, RowsOf(cubes, interval[2]), interval[3] - (interval[1] - row))
          [] reader.manager = "TiledDataStMan" ->
               IF row < chunk[1] THEN {}
               ELSE Located(cubes, RowsOf(cubes, chunk[2]), chunk[3] + row - chunk[1])
          [] OTHER -> {<<i, row - cubes[i].row_start>> : i \in sequential}

\* read_raw_cell: in one piece if a tile holds whole cells, or else from tile to
\* tile; the bits of booleans always one by one.
PlaceRead(reader, c, cube, shape, row, p) ==
    LET n == Len(shape)
        tileCell == SubSeq(cube.tile, 1, n)
        pixels == Product(cube.tile)
        rows == Last(cube.tile)
        column == reader.columns[c]
        x == Coordinates(shape, p)
        whole == tileCell = shape /\ column.type # "Bool"
        tilesPerDim == [d \in 1..n |-> Ceiling(shape[d], tileCell[d])]
        tile == Linear(tilesPerDim, [d \in 1..n |-> x[d] \div tileCell[d]])
                   + (row \div rows) * Product(tilesPerDim)
        inTile == (row % rows) * Product(tileCell)
                     + Linear(tileCell, [d \in 1..n |-> x[d] % tileCell[d]])
        start == cube.offset + ColumnStart(reader.columns, c, pixels)
        bucket == BucketBytes(reader.columns, pixels)
    IN  IF whole
        THEN 8 * (start + (row \div rows) * bucket
                    + (row % rows) * Product(shape) * column.size + p * column.size)
        ELSE 8 * (start + tile * bucket) + BitsOf(column, inTile)

ReadFrom(reader, c, cube, place, shape) ==
    [shape |-> shape,
     places |-> IF Len(cube.tile) # Len(shape) + 1 \/ cube.file \notin Range(reader.loaded)
                THEN <<>>
                ELSE [p \in 0..(Product(shape) - 1) |->
                        <<cube.file, PlaceRead(reader, c, cube, shape, place, p)>>]]
CellOfRow(reader, c, cube, place) ==
    ReadFrom(reader, c, cube, place,
             IF reader.shapes[c] # <<>> THEN reader.shapes[c] ELSE cube.cell)
CellRead(reader, c, at) == CellOfRow(reader, c, reader.cubes[at[1]], at[2])

CellsRead(reader, located) ==
    IF {} \in Range(located) THEN Throw(Start)
    ELSE Returns(Start, [x \in (DOMAIN reader.columns) \X (DOMAIN located) |->
                            CellRead(reader, x[1], CHOOSE l \in located[x[2]] : TRUE)])
read_tiled(file) ==
    Then(open_tiled(file), LAMBDA opened :
         CellsRead(opened.value,
                   [row \in 0..(file.rows - 1) |-> locate_row(opened.value, row)]))
=============================================================================
