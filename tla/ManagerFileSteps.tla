-------------------------- MODULE ManagerFileSteps --------------------------
(***************************************************************************)
(* A file of a storage manager is written, by casacore-mini or by casacore *)
(* in one of its forms, and opened in a table whose table.dat has either   *)
(* byte order.  What the reader finds is what the writer was given.        *)
(***************************************************************************)
EXTENDS ManagerFiles, TiledFiles, SequencesExt

CONSTANTS
    CasesOf(_),     \* cases_of: what a writer may be asked to write
    MakeFile(_),    \* file_of: the file that it makes
    ReadFile(_, _), \* read_file: what a reader finds, by the byte order of table.dat
    Given(_)        \* given_to: what is to be found again

VARIABLES
    fileCase,       \* what was written, and in which form
    managerFile,    \* the file
    fileRead        \* what a reader finds in it; <<>> before it is opened

fileVars == <<fileCase, managerFile, fileRead>>

----------------------------------------------------------------------------
(* The cases.  "store" is what is to be found.                             *)

Case(kind, form, order, size, offset, store) ==
    [kind |-> kind, form |-> form, order |-> order, size |-> size, offset |-> offset,
     store |-> store]

OneIndex == {<<SsmColumn(0, 0)>>, <<SsmColumn(16, 0), SsmColumn(0, 0)>>}

\* No row at all, and a last bucket that is full or not.
FlushedSsmCases ==
    {Case("ssm", SsmWritten, order, 200, OneBucket, SsmStore(columns, <<FlushedIndex(rows, n)>>)) :
        order \in Orders, columns \in OneIndex, rows \in 1..3, n \in 0..4}

\* Two indices, buckets in any order; the index behind half of a bucket.
CasacoreSsmCases ==
    LET ordinary == SsmIndex(2, <<1, 3>>, <<4, 2>>)
        other == SsmIndex(5, <<4>>, <<0>>)
        stores == {SsmStore(columns, <<ordinary>>) : columns \in OneIndex}
                     \cup {SsmStore(<<SsmColumn(0, 1), SsmColumn(4, 0)>>, <<ordinary, other>>)}
        forms == {SsmForm(header, index, spare, free, magic) :
                     header \in 1..3, index \in 1..2, spare \in 0..1, free \in 0..1,
                     magic \in BOOLEAN}
    IN  {Case("ssm", form, order, 60, Chained, store) :
            form \in forms, order \in Orders, store \in stores}
        \cup {Case("ssm", form, order, 250, offset, SsmStore(<<SsmColumn(0, 0)>>, <<ordinary>>)) :
                form \in {f \in forms : f.header >= 2}, order \in Orders, offset \in {OneBucket, 100}}

\* Arrays of texts in buckets of 8, 11 or 40 bytes, some behind other texts.
CasacoreTextCases ==
    {Case("texts", "casacore", order, room, behind, [fixed |-> fixed, shape |-> shape, texts |-> texts]) :
        order \in Orders, room \in {8, 11, 40}, behind \in {0, 5}, fixed \in BOOLEAN,
        shape \in {<<2>>, <<1, 2>>}, texts \in {<<>>, <<<<"a", "b">>, <<>>>>, <<<<>>, <<"a">>>>}}

IsmCells == {[r \in 0..2 |-> values[r + 1]] : values \in
               {<<<<0>>, <<0>>, <<1>>>>, <<<<1>>, <<0>>, <<1>>>>, <<<<1>>, <<1>>, <<1>>>>}}
TextCells == {[r \in 0..2 |-> IF r < n THEN <<"a", "b">> ELSE <<>>] : n \in 0..2}
IsmStores == {IsmStore(<<"Int", "Bool">>, <<i, b>>) : i \in IsmCells, b \in IsmCells}
TextStores == {IsmStore(<<"String", "Double">>, <<t, d>>) : t \in TextCells, d \in IsmCells}

\* A bucket of flush() begins at a row that it stores.
FlushedIsmCases ==
    {Case("ism", "written", "little", 200, 5, store) @@ [starts |-> starts] :
        store \in IsmStores, starts \in {<<0>>, <<0, 1>>, <<0, 2>>, <<0, 1, 2>>}}
Flushable(c) == \A i \in DOMAIN c.starts : Stored(c.store, c.starts[i])
CasacoreIsmCases ==
    {Case("ism", "casacore", order, 200, version, store) @@ [starts |-> starts] :
        order \in Orders, version \in 4..5, store \in IsmStores \cup TextStores,
        starts \in {<<0>>, <<0, 1>>, <<0, 1, 2>>}}

Int1(shape) == <<TsmColumn("Int", 4, shape)>>
Three(shape) == <<TsmColumn("Bool", 1, shape), TsmColumn("Int", 4, shape), TsmColumn("Double", 8, shape)>>

TiledCase(kind, form, store, files, table, header) ==
    Case(kind, form, "big", 0, 0, store) @@ [files |-> files, table |-> table, header |-> header]

\* Without a header only the tables of TiledColumnStMan are as it is computed.
WrittenTiledCases ==
    UNION {{TiledCase("written", TsmWritten(manager), WrittenStore(manager, columns, cell, n),
                      {IF manager = "TiledShapeStMan" THEN 1 ELSE 0}, columns, header) :
               columns \in {Int1(cell), Tail(Three(cell))}, n \in 1..3,
               manager \in {"TiledCellStMan", "TiledShapeStMan", "TiledDataStMan", "TiledColumnStMan"},
               header \in BOOLEAN} :
             cell \in {<<2>>, <<2, 2>>}}
Computable(c) == c.header \/ c.store.manager = "TiledColumnStMan"

TsmForms(manager) ==
    {TsmForm(root, tiled, version, version, version, spare, extra) :
        root \in (IF manager = "TiledDataStMan" THEN 1..2 ELSE {1}), tiled \in 1..3,
        version \in 1..2, spare \in (IF manager = "TiledShapeStMan" THEN 0..1 ELSE {0}),
        extra \in BOOLEAN}
    \cup (IF manager = "TiledDataStMan"
          THEN {TsmForm(1, tiled, 1, 1, 1, 1, FALSE) : tiled \in 1..3} ELSE {})

\* Cells cut into tiles, cubes of two shapes that rows take turns in, a cube for
\* each cell, and an image, whose table does not say its shape.
CasacoreTiledStores ==
    LET Empty == TsmCube(<<>>, <<>>, NotAFile, 0)
        turns == <<<<1, 0>>, <<2, 0>>, <<2, 1>>, <<1, 1>>, <<1, 2>>>>
        chunks == <<<<0, 0>>, <<0, 1>>, <<1, 1>>, <<1, 2>>, <<0, 2>>>>
        small == TsmCube(<<2, 3>>, <<2, 2>>, 1, 0)
        large == TsmCube(<<3, 2, 3>>, <<2, 2, 2>>, 2, 0)
    IN  {TsmStore("TiledColumnStMan", Three(cell), <<TsmCube(Append(cell, 3), tile, 0, 0)>>,
                  <<<<0, 0>>, <<0, 1>>, <<0, 2>>>>) :
            cell \in {<<3, 2>>}, tile \in {<<2, 2, 2>>, <<3, 2, 1>>, <<1, 1, 3>>}}
        \cup {TsmStore("TiledShapeStMan", columns, <<Empty, small, large>>, turns) :
                columns \in {Int1(<<>>), Three(<<>>)}}
        \cup {TsmStore("TiledDataStMan", columns, <<TsmCube(<<2, 3>>, <<2, 2>>, 0, 0), second>>, chunks) :
                columns \in {Int1(<<>>), Three(<<>>)},
                second \in {TsmCube(<<2, 3>>, <<1, 2>>, 0, 200), TsmCube(<<2, 2, 3>>, <<2, 1, 2>>, 1, 0)}}
        \cup {TsmStore("TiledCellStMan", Three(<<3, 2>>),
                       <<TsmCube(<<3, 2>>, <<2, 2>>, 0, 0), TsmCube(<<3, 2>>, <<3, 1>>, 0, 250)>>,
                       <<<<0, 0>>, <<1, 0>>>>),
              TsmStore("TiledCellStMan", Int1(<<>>), <<TsmCube(<<2, 3, 2>>, <<2, 2, 1>>, 0, 0)>>,
                       <<<<0, 0>>>>)}
CasacoreTiledCases ==
    UNION {{TiledCase("casacore", form, store, TsmFiles(store), store.columns, TRUE) :
               form \in TsmForms(store.manager)} : store \in CasacoreTiledStores}

----------------------------------------------------------------------------

cases_of(writer) ==
    CASE writer = "flushed ssm" -> {c \in FlushedSsmCases : FitsFlush(c.size, c.store)}
      [] writer = "casacore ssm" -> CasacoreSsmCases
      [] writer = "casacore texts" -> CasacoreTextCases
      [] writer = "flushed ism" -> {c \in FlushedIsmCases : Flushable(c)}
      [] writer = "casacore ism" -> CasacoreIsmCases
      [] writer = "written tiled" -> {c \in WrittenTiledCases : Computable(c)}
      [] writer = "casacore tiled" -> CasacoreTiledCases

file_of(c) ==
    CASE c.kind = "ssm" -> SsmFile(c.form, c.order, c.size, c.offset, c.store)
      [] c.kind = "texts" ->
           TextsFile(c.order, c.size, c.offset, c.store.fixed, c.store.shape, c.store.texts)
      [] c.kind = "ism" -> IsmFile(c.form, c.offset, c.order, c.size, c.store, c.starts)
      [] OTHER -> TsmFile(IF c.header THEN write_tsm_header(c.form, c.store) ELSE <<>>,
                          c.files, c.store, c.table)

read_file(file, hint) ==
    CASE file.kind = "StandardStMan" -> open_ssm(file, hint)
      [] file.kind = "Texts" -> read_texts(file, file.order)
      [] file.kind = "IncrementalStMan" -> open_ism(file)
      [] OTHER -> read_tiled(file)

given_to(c) ==
    CASE c.kind \in {"ssm", "ism"} -> c.store
      [] c.kind = "texts" ->
           [shape |-> c.store.shape,
            texts |-> IF c.store.texts = <<>> THEN NoTexts(c.store.shape) ELSE c.store.texts]
      [] c.kind = "written" ->
           WrittenCells(c.store.manager, c.table, c.table[1].shape, Len(c.store.rows))
      [] OTHER -> CellsIn(c.store)

----------------------------------------------------------------------------

FilesInit == fileCase = <<>> /\ managerFile = <<>> /\ fileRead = <<>>

Makes(writer) ==
    /\ managerFile = <<>>
    /\ \E c \in CasesOf(writer) : fileCase' = c /\ managerFile' = MakeFile(c)
    /\ UNCHANGED fileRead

FlushSsmFile == Makes("flushed ssm")
CasacoreSsmFile == Makes("casacore ssm")
CasacoreTexts == Makes("casacore texts")
FlushIsmFile == Makes("flushed ism")
CasacoreIsmFile == Makes("casacore ism")
WriteTiledFiles == Makes("written tiled")
CasacoreTiledFiles == Makes("casacore tiled")

OpenManagerFile ==
    /\ managerFile # <<>> /\ fileRead = <<>>
    /\ \E hint \in Orders : fileRead' = ReadFile(managerFile, hint)
    /\ UNCHANGED <<fileCase, managerFile>>

FilesNext ==
    \/ FlushSsmFile \/ CasacoreSsmFile \/ CasacoreTexts \/ FlushIsmFile \/ CasacoreIsmFile
    \/ WriteTiledFiles \/ CasacoreTiledFiles \/ OpenManagerFile

\* The rows of a file of casacore with several buckets are misread, since each
\* bucket counts its own: the place of the code that no file should come to.
RowsMisread(c) == c.kind = "ism" /\ c.form = "casacore" /\ Len(c.starts) > 1

\* What is found there: what some bucket holds so many rows behind its first, or
\* in its last row.
FromSomeBucket(c, cells) ==
    LET LastOf(b) == IF b < Len(c.starts) THEN c.starts[b + 1] - 1 ELSE Max(IsmRows(c.store))
    IN  \A n \in DOMAIN cells : \A r \in DOMAIN cells[n] : \E b \in DOMAIN c.starts :
            cells[n][r] = c.store.cells[n][Smaller(c.starts[b] + r, LastOf(b))]

\* Whoever wrote the file, in whichever form and byte order, a reader finds the
\* cells where they are: the buckets that the indices of a StandardStMan name for
\* each row, the texts and values, and every element of a tiled cell.  The one
\* exception are the IncrementalStMan files of casacore with several buckets, of
\* which every cell is a value of its column, but of a row as far into some bucket.
FilesReadBack ==
    fileRead # <<>> =>
        /\ fileRead.ok
        /\ IF RowsMisread(fileCase) THEN FromSomeBucket(fileCase, fileRead.value.cells)
           ELSE fileRead.value = Given(fileCase)
=============================================================================
