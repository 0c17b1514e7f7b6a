# A TLA+ verification of casacore-mini

casacore-mini is a C++ library that reads and writes casacore tables,
MeasurementSets and images: directories of binary files with in-memory objects
over them, a query language, and the values that go into them.  There are no
threads to speak of.  What is hard is what happens *between* objects and files:
several processes on one directory, lazy readers that keep what they once read,
writers that copy a file into memory and write it back whole, calls of many
steps that a crash or an exception cuts short, formats in which a value's place
depends on all that was written before it, and a recursive-descent language.
This project models these parts, checks them with TLC and proves the most
important results with TLAPS.

Rows count from 1 in most modules and from 0 in the code; each module says which.

Contents: 1 inventory, 2 modules, 3 runs, bounds and fairness, 4 what is
proved, 5 what is not modelled and what was met on the way, 6 plan.

## 1. Inventory

| Component (under `src/src`) | State it keeps | Operations | What is hard | What makes it correct |
|---|---|---|---|---|
| **Table** `table.cpp` | a copy of table.dat, a lazy reader per storage manager, writers with all cells | `create`, `open`, `open_rw`, cell reads and writes, `flush`, `add_row`, `remove_row` | several processes, crashes, stale readers, rebuilding writers from files | the files are what the writing session had at its last flush, or recognisably unfinished; counts, writers and readers agree |
| **StandardStMan** `standard_stman.cpp` | buckets in table.f0, string buckets, arrays in table.f0i | `setup`, `write_*`, `flush`, `SsmReader::*` | offsets into a second file that is rewritten as a whole; layout loops; versions of the file | every cell and array reads back |
| **IncrementalStMan** `incremental_stman.cpp` | entries that hold only changes, and an index | `write_cell`, `flush`, `IsmReader::read_cell` | a value may be stored many buckets earlier; two row numberings | every cell reads back |
| **TiledStMan** `tiled_stman.cpp` | tiles of hypercubes | `setup`, `write_*_cell`, `read_raw_cell` | tile addressing, partial tiles, row maps | every cell reads back |
| **Table lock** `table.cpp` 1676-1740 | table.lock, two flags per `Table` | `lock`, `unlock`, `is_locked`, `drop_table` | check-then-act between processes | the file tells of its last writer whether it holds a lock |
| **table.dat** `table_dat*.cpp`, `table_desc*.cpp` | keywords, columns, managers | parse, serialize | versions and forms of the file, in-place rewriting | what is written or was written by casacore is read back |
| **AipsIO and records** `aipsio*.cpp`, `record*.cpp` | a cursor, nested object lengths | typed reads and writes | nesting, optional forms | round trip |
| **Views** `ref_table.cpp`, `concat_table.cpp`, `table_iterator.cpp`, `columns_index.cpp` | snapshots of row numbers | `next`, `reset`, `rebuild`, lookups | the table changes under the snapshot | groups partition the rows; a lookup finds the row |
| **TaQL** `taql.cpp` | none; works on a `Table` | SELECT, UPDATE, DELETE, INSERT, ALTER, COUNT; the parser | many `Table` calls in one statement, exceptions between them; precedence | a statement does what it says to the rows it found; a text is parsed to its tree |
| **MeasurementSet, MsWriter** `measurement_set.cpp`, `ms_writer.cpp` | a cache of subtables; rows waiting for `flush` | `open`, `subtable`, `flush`; `add_*`, `validate_foreign_keys`, `flush` | replaces a tree of tables one by one under open objects | references resolve at every moment |
| **MS concatenation** `ms_concat.cpp` | id maps | `ms_concat` | renumbering every reference | each merged row means what it meant, as far as its references are mapped |
| **MS tools** `ms_flagger.cpp`, `ms_iter.cpp`, `ms_util.cpp`, `ms_metadata.cpp` | caches, entries waiting for `flush` | flagging, iteration, history, metadata | writes behind the back of an open `MeasurementSet`; caches half filled by an exception | statistics, groups and answers are those of one moment |
| **MS selection** `ms_selection.cpp` | none | `evaluate`, `to_taql_where` | twelve categories, two evaluators | selections are conjunctions; where the evaluators differ, and which way, is known |
| **Lattices and images** `lattice*.cpp`, `image*.cpp` | a `Table`, unsaved metadata, shared arrays | `put`, `make_mask`, `flush`; views and iterators | pixels, masks and keywords are saved at different moments; copies on write | a reopened image is what was saved |
| **Regions, expressions** `lattice_region.cpp`, `image_region.cpp`, `lattice_expr.cpp` | boxes and masks, named regions, a tree of nodes | compounds, conversions, save and restore, `lel_parse` | clipped and joined boxes, broadcasting, masks | a region is the set of pixels it stands for; an expression means what it says |
| **Coordinates** `*coordinate*.cpp`, `linear_xform.cpp` | axis maps | conversions, transposes, save and restore | axis numbers of world and pixel | world values select their pixels |
| **Measures and quanta** `measure*.cpp`, `table_measure*.cpp`, `unit.cpp`, `quantity.cpp` | a map of user units | parsing, conversion, columns of measures | chains of conversions, names that are parsed again | a value keeps what it measures |
| **Tools, schemas** `interop_mini_tool.cpp`, `ms_enums.cpp`, `ms_subtables.cpp` | none | drivers and constant tables | - | - |

How they interact: everything persistent goes through `Table`, which calls the
storage managers for the data files and writes table.dat itself.  A
`MeasurementSet` owns one read-only `Table` for the main table and one per
subtable used so far; `MsWriter` uses them for their schemas and then writes the
directories behind their back; `ms_concat` reads two of them and drives an
`MsWriter`; `ms_flag_rows` opens a second `Table` on the main table.  Views and
TaQL hold pointers to a `Table`.  Images are tables of the tiled manager with a
keyword record and a subtable per mask.  There are no callbacks and no messages:
processes meet only in the file system.

`PROJECT.json` lists every component with its status, the lines each definition
models, and the hazards with the properties that cover them.

## 2. Modules

Tables and their storage managers:

| Module | Models | State and actions |
|---|---|---|
| `AbstractTable` | what a table promises | a session over rows and the durable rows; `Flush` makes the session's rows durable, through a moment in which they are unknown |
| `TableStore` | `Table` over its directory | `dat`, `file` (disk); `dirRows`, `cache`, `writer`, `pc`, `op` (one `Table` object per process). One action per call, split wherever another process or a crash can come in between: `CreateBegin/Dat/Data/Read`, `CreateThrows`, `Open`, `OpenRw`, `LoadReader`, `WriteCell`, `StartFlush/FlushData/FlushHeader/FlushDat`, `Rebuild`, `RebuildThrows`, `Stop` |
| `MCTableStore` | instances, and the refinement mapping to `AbstractTable` | |
| `IndirectArrays` | variable-shape arrays of StandardStMan | `f0`, `f0i`, the writer's offsets and buffer, the readers; the calls of `TableStore` with what they do to offsets and buffer |
| `IsmStorage` | writer and reader of IncrementalStMan | `flush()` row by row: an entry where a column changes, buckets, their index; the reader's search as operators |
| `SsmLayout` | buckets of StandardStMan | what `setup` chooses, where cells, strings and booleans are put, the index, and where the reader looks |
| `TiledStorage` | the four tiled managers | the writer's cubes and tiles, the header it leaves, the reader's address of a cell |
| `ManagerFiles`, `TiledFiles`, `ManagerFileSteps` | headers, indices and buckets as files, in the versions and byte orders of casacore | a file is written in one of its forms and read: `fileCase`, `managerFile`, `fileRead` |
| `TableLock` | table.lock | `LockBegin/End`, `UnlockBegin/End`, `DropCheck/Remove`: what one process does between two steps of another; `author`, who wrote the file last, and `locksAtCheck`, the locks a drop did not see |
| `MCStorageManagers` | instance of the five above that keep files | each is followed while the others rest |

Descriptions, records and the query language:

| Module | Models | State and actions |
|---|---|---|
| `Cursors` | places in something read from left to right | an exception ends the reading |
| `RecordStreams` | records, the binary Record and AipsIO | writers and readers as operators on streams of typed tokens |
| `TableDescriptions` | table.dat as created, read, changed and written back | a description grows, is written in one of its forms, read and changed |
| `TableSession` | one writable `Table` as the code above it uses it | cells in the writer, cells in the file, rows; a flush is one step |
| `TaqlStatements` | UPDATE, DELETE, INSERT, ALTER, COUNT; SELECT with sort, distinct, limit, groups, HAVING, joins | one action per `Table` call of the loop; throws and the end of the process between any two; an answer per query |
| `TableViews` | RefTable, ConcatTable, TableIterator, ColumnsIndex | snapshots beside the changing session |
| `MCTaql` | instance of the above | |
| `TaqlParser` | lexer and parser of every statement | operators on sequences of pieces and of tokens |
| `TaqlSyntax` | the text of a statement with the fewest parentheses | a statement grows by an operator or a clause; each is parsed. The precedence is that of `taql_show` (taql.cpp:1933-1935) |
| `LatticeExprs` | nodes of lattice expressions and their parser | an expression grows; each is evaluated and parsed |

MeasurementSets:

| Module | Models | State and actions |
|---|---|---|
| `MsFill` | MsWriter and MeasurementSet | `dat`, `data` of every table on disk, `ms` (each process's objects), `pending` (the MsWriter), `pc`; `flush()` table by table in its seven steps |
| `MsConcat` | `ms_concat` | `inputs`, `out`, `remap`, the table and row the call has reached |
| `MsTools` | flagging, iteration, history, metadata | MeasurementSet objects with what they have read, the files, the caches |
| `MsSelection` | `evaluate` and `to_taql_where` | the selected rows, category by category |
| `MCMeasurementSets` | instance of the four | |

Images and values:

| Module | Models | State and actions |
|---|---|---|
| `PagedImage` | images on disk | table.dat, map and masks on disk, the object's unsaved metadata, the file writes a call has left |
| `LatticeViews` | LatticeArray, ArrayLattice, SubLattice, LatticeConcat, RebinLattice, LatticeIterator | storage shared until written, a view, an iterator |
| `LcRegions`, `LatticeRegions` | regions of a lattice; a program that combines them | the last two regions, the sets they stand for and the points doubtful after an extension |
| `CoordinateSystems`, `WorldRegions` | axes of coordinates; regions in world values, named, saved and restored | the region handler, the coordinates, what each name meant and what restores have lost |
| `MCStorageAndImages` | instance of the managers and images | |
| `Units`, `Measures` | units and quantities; conversions, records and columns of measures | a few steps of a program with one value |
| `MCTablesAndValues` | instance of a table with one writer, units, measures, manager files, world regions and the two languages | |

Proofs are in `TableStore_proof`; `StorageManagers_proof` (`TableLock`,
`IsmStorage` and `IndirectArrays`); `SsmAndTiles_proof` (`SsmLayout` and
`TiledStorage`); `Taql_proof`
(`TaqlStatements` and `TableViews`); `MsFill_proof`; `MsConcat_proof`;
`MsTools_proof` (`MsTools` and `MsSelection`); `Lattices_proof` (`PagedImage`,
`LatticeRegions` and `LatticeViews`).

How they compose: `TableStore` is the table with one column per storage
manager; `IndirectArrays` looks into the offsets that are cells there;
`IsmStorage`, `SsmLayout` and `TiledStorage` into what is a row sequence there,
`ManagerFiles` and `TiledFiles` into its file, `TableDescriptions` into its
table.dat.  `TableSession` relies on what `TableStore` proves of a sole writer
(its reader shows the file) and makes a flush one step; TaQL and views work on
it.  `MsFill` keeps `TableStore`'s order of writes for a tree of tables.
`WorldRegions` uses `LcRegions` through `CoordinateSystems`.  Machines that
share no state are put into one instance and followed one at a time.

A file is *torn* from its truncation to the end of the write: the code writes
every file with a truncating `std::ofstream`.  A process may end between any
two steps, by crash or by the end of its objects: no destructor flushes, so both
are the same.  Exceptions are modelled where the code can meet them in these
states.  An I/O error of the operating system is not.

## 3. What the runs show

Passing runs:

| Run (module) | Shows |
|---|---|
| `TableTwoWriters` (`MCTableStore`) | two writing processes that know nothing of each other, at every file write: `TypeOK`; a Table and its writer come to count different rows in one place only, a create that reads back the table.dat of the other, and agree after each opening and mutation (`RowsPartOnlyInCreate`); every call ends (`CallsEnd`) |
| `TablesAndValues` | one writing process, crashes anywhere: an open reader of the writer shows the file (`ReadersShowFile`); directory and object implement `AbstractTable`: what can be read is the rows of the last flush, whole, or nothing in particular, and mutations keep every other row (`ImplementsAbstractTable`); while rows are only added, two readers never find fewer rows than table.dat promised (`OpenedRowsExist`); units and quantities mean what their texts say (`UnitsMeanWhatTheySay`); a converted measure is where a direct conversion leads and is read back from record and column (`MeasuresHold`); files of every manager in every form are read as written (`FilesReadBack`); named regions select the pixels their world values mean, in turned coordinates too, and pixels find their world values and back (`RegionsSelectTheirPixels`); a statement's text is parsed to its tree and to its end (`StatementsParse`); a lattice expression has the value and mask its meaning gives, and its text parses to it (`LatticeExpressionsHold`) |
| `Taql` | statements have the effect they state on the rows they found (`StatementsDoWhatTheySay`), an interrupted one leaves only a beginning of it (`InterruptedStatementsStop`), SELECT answers its query (`AnswersAreTheQuery`), views lead to rows that exist and were meant (`ViewsLeadToTheRows`), groups partition the rows (`IteratorGroupsTheRows`), table.dat and records read back (`WhatIsWrittenReadsBack`) |
| `MeasurementSets` | filling: every reference somebody sees resolves to the right row or one still blank (`References`), a flush that returns has written every row (`FillIsComplete`); `ConcatKeepsReferences`; `StatsShowOneMoment`, `ChunksPartition`, `MetaDataIsWhole`; `SelectionsAreExact` |
| `StorageAndImages` | each manager's reader takes out what its writer put in (`CellsReadBack`, `IndexFindsEntries`, `SsmCellsReadBack`, `IndexFindsRows`, `WrittenArraysReadBack`, `ReadersShowThePast`, `TiledCellsReadBack`); of its last writer, between its calls, the lock file tells whether it holds a lock, and a lock that a drop overlooks was written over by another process (`HeldLockShows`); images (`ImageShowsWhatWasPut`, `SavedImageIsWhole`), views (`ViewsAreValues`), regions (`RegionIsItsSet`) |

Some of these properties have an exception where the code does not do what the
repository says or the format asks; each is stated in the property, as narrow as
it could be made, with what the code does instead:

| Property | Exception | Instead |
|---|---|---|
| `ConcatKeepsReferences` | observation and polarization of the second MeasurementSet's rows | those that the unmapped numbers lead to (`TakenFor`); `ConcatObservations` refutes the header |
| `SelectionsAreExact` | expressions for which the WHERE clause selects more rows (`SelectsMore`), fewer (`SelectsLess`) or there is none (`HasNoClause`) | inclusion in that direction; `WhereIsEquivalent` refutes the header |
| `RegionIsItsSet` | pixels outside of a rectangle that was extended (`doubtful`) | such a region may show the whole lattice to what is combined from it |
| `FilesReadBack` | files of casacore's IncrementalStMan with several buckets (`RowsMisread`) | each cell is a value of its column, of a row as far into some bucket |
| `RegionsSelectTheirPixels` | a restore that met a compound of world regions or an `LcMask` (`NeverReadBack`) | any of the regions may be gone; those that are there are right |
| `MeasuresHold` | the step between J2000 and ICRS (`IsFrameTie`) | no rotation is done |
| `StatementsParse` | a sign in front of a power (`SignOfPower`) | it goes to the base: `-a**b` is `(-a)**b` |
| `AnswersAreTheQuery` | rows of DISTINCT and GROUPBY whose keys are different and have one text (`KeysTell`) | the rows of one text are taken for one |
| `UnitsMeanWhatTheySay` | names with two readings, `das` and `min` | the shorter prefix, or none (`TakenFor`) |

Runs that find a violation, each a disagreement between the code and what the
repository says of it; `PROJECT.json` ("findings") quotes both:

| Run | The code does |
|---|---|
| `TableMixed` | `Table::flush` of a table with two storage managers writes the first one's data and both ones' row count |
| `IndirectReopen` | rows not written since `open_rw`, `add_row` or `remove_row` lose their arrays at the next flush |
| `MsFlushLoses` | a filling program that calls `MeasurementSet::flush` puts the main table back to no rows |
| `SsmBools` | with a column of numbers and one of booleans, buckets are too small for the rows counted for them |
| `LockLost` | a lock that is begun truncates the lock file of another process: `drop_table` removes a table on which a `Table` holds a lock |
| `ConcatObservations` | rows of the second MeasurementSet name an observation of the first once concatenated |
| `WhereIsEquivalent` | the feed pair `0&&1` has autocorrelations in `evaluate()` and none in `to_taql_where()` |

### Bounds, and why they are enough

- **Tables** (`MaxRows`): 2 rows, so that `remove_row` takes the first and the
  last and a row moves; 2 values; StandardStMan.  With two readers, one keeps
  what the other has not read; they look only while rows are added, as a reader
  of another process changes nothing on disk.  For row counts alone 1 value is
  enough.  The other managers' tables are covered by the proofs.
- **Arrays**: 1 and 2 elements, 2 rows, 6 words (`MaxWords`): an offset can point
  into the middle of another array.  A reader of another process is followed
  while the creator alone writes (`creatorOnly`): afterwards `IndirectReopen`
  shows what happens.
- **IncrementalStMan**: 2 columns that change at different rows, 5 rows, 2
  entries per bucket (`BucketEntries`): values two buckets back.
- **StandardStMan**: the sizes of the code with a largest bucket of 512 instead
  of 32768; rows at and around every boundary (`TestRows`); 3 writes
  (`MaxCellWrites`); strings that fit a bucket.
- **Tiled managers**: tiles of 16 elements, cells of 3 and 8 of them, 1 or 3
  rows, 2 writes (`MaxTiledWrites`); the columns of a manager have one shape.
- **Files of managers**: numbers of one byte, buckets of 60 to 250 bytes, up to 4
  rows (SSM), 3 rows in two columns (ISM), 5 rows in two cubes with tiles of 5
  (`TilePixelTarget`): last buckets full and not, tiles that cut a cell.
  TiledCellStMan with a known shape or one row; no magic values inside TSM
  headers; TSM version 3 as the reader reads it.
- **Lock**: two processes that lock, one that drops.
- **Descriptions**: two keyword names, six values, one change (`MaxChanges`);
  three kinds of table, created or in four forms of casacore; two blobs.
  Records are read in 32 forms of AipsIO, nested twice (`MaxDepth`).
- **TaQL**: 3 rows of two columns of bits, at most one unflushed cell between
  statements.  For keys a column holds integers, doubles of which some look the
  same with six decimals, or strings, of which some contain the bar that joins
  keys.  Syntax: two operators around eight atoms (`MaxOperators`), three
  clauses (`MaxClauses`), two spellings; shorthands behind AS only, no table
  options and no one-sided ranges.
- **Lattice expressions**: two operators (`MaxLelOperators`), five lattices of 2
  or 3 pixels; a pixel is a term, so that what was computed shows; whole numerals;
  `iif` only between operands of one shape.
- **MeasurementSets**: one subtable, as subtables do not interact; 2 names; 2
  rows per table and 3 in all (`MaxRows`, `MaxPending`), so that a second flush
  replaces what a first one wrote; one other process.  `ms_concat` reads pairs
  with repeated names, reordered names, two windows, two polarizations, several
  observations and a row without a state.
  The tools: two `MeasurementSet` objects, 3 calls (`MaxCalls`).
- **Images**: two pixels of 0 or 1, one mask of two forms, metadata of two
  values; one `PagedImage` at a time, created once, dying anywhere.  Views: 3 by
  2 pixels, one kept array, two writes (`MaxWrites`), one view.  Regions: 3 by 3
  pixels, two simple and two compound ones (`MaxCombined`).
- **World regions**: 3 by 3 pixels, five systems (own order, turned axes,
  transposed, spectral and Stokes swapped, one axis removed; with turned axes a
  box of world values has no meaning as a box of pixels and is left out), numbers
  in half pixels, four calls (`MaxRegionSteps`), two names.
- **Units, measures**: three steps (`MaxUnitSteps`, `MaxMeasureSteps`), three
  names, factors as powers of 10 and 60, exponents that fit; steps of a
  conversion as terms that cancel with their inverses; one row.

Deadlock is checked except where a system really stops: a written file, a query
that was answered, a call that ended, a table or image that a crash left
unreadable, a bound that is used up.

### Fairness

Only `FairSpec` of `TableStore` assumes any: weak fairness of the steps a call
takes by itself once it has begun (`Continue`).  The code justifies it, since no
such step waits for anything: no lock is taken, and a file that cannot be read
makes the call throw.  A process may still stop at any point, which ends its
calls.  All other specifications are safety only, so crashes need no action.

## 4. What is proved

TLAPS proves the following for every value of the constants (all sets of
processes, values and names, all bounds), from the named assumptions on the
constants in the modules, which TLC evaluates on each run.

| Theorem | Statement | From |
|---|---|---|
| `TypeCorrect` | `Spec => []TypeOK` (`TableStore`) | |
| `RowsPartOnlyInCreateCorrect` | `Spec => RowsPartOnlyInCreate`, any number of processes (an action property) | one storage manager |
| `ReadersShowFileCorrect` | `Spec => []ReadersShowFile` | one writing process; one manager, or StandardStMan first |
| `ImplementsAbstractTableCorrect` | `Spec => ImplementsAbstractTable` | one writing process, one manager |
| `OpenedRowsExistCorrect` | `GrowSpec => []OpenedRowsExist` | at most one writing process, one manager |
| `LockTypeCorrect`, `HeldLockCorrect` | `LockSpec => []LockTypeOK`, `[]HeldLockShows` | no process is named "nobody" (`LockAssumption`) |
| `CellsReadBackCorrect`, `IndexCorrect`, `IsmTypeCorrect` | the invariants of `IsmStorage`, any columns, rows, bucket sizes | |
| `SsmLayoutInvariant`, `IndexFindsRowsCorrect` | `SsmSpec => []LayoutInv`, `[]IndexFindsRows`, any columns, row counts and bucket sizes | |
| `SsmBytesInvariant`, `SsmCellsReadBackCorrect`, `SsmTypeCorrect` | `SsmSpec => [](LayoutInv /\ BytesInv)`, `[]SsmCellsReadBack`, `[]SsmTypeOK`, any number of writes | a column of strings has the three words of one string, a column of booleans at least a bit for each row (`SsmAssumption`) |
| `TiledTypesCorrect`, `TiledCellsAlwaysReadBack` | `TiledSpec => []TiledTypeOK`, `[]TiledCellsReadBack`, any columns, cells, rows, tile sizes and writes | the second where writer and reader agree on booleans (`WholeBools`, part of the property) |
| `ArraysTypeCorrect`, `WrittenArraysReadBackCorrect` | `ArraysSpec => []ArraysTypeOK`, `[]WrittenArraysReadBack` | |
| `MixedFilesShowThePastCorrect`, `ReadersShowThePastCorrect` | files of different moments and readers of other processes show nothing or the past | as in the specifications, the creating `Table` alone writes |
| `ImageTypeCorrect`, `ImageShowsWhatWasPutCorrect`, `SavedImageIsWholeCorrect` | the invariants of `PagedImage`, any image, masks and crashes | |
| `FillInvariant`, `FillTypeCorrect`, `ReferencesCorrect`, `FillIsCompleteCorrect` | `Spec => []TypeOK`, `[]References`, `FillIsComplete` (`MsFill`), any list of subtables, any number of processes | one MsWriter |
| `StatementsTypeCorrect`, `StatementsAlwaysDoWhatTheySay`, `InterruptedStatementsAlwaysStop` | `StatementSpec => []StatementTypeOK`, `[]StatementsDoWhatTheySay`, `[]InterruptedStatementsStop`, any table and statements | the statements are well typed (`TaqlAssumption`) |
| `ViewsTypeCorrect`, `ViewsAlwaysLeadToTheRows`, `IteratorAlwaysGroupsTheRows` | `ViewSpec => []ViewTypeOK`, `[]ViewsLeadToTheRows`, `IteratorGroupsTheRows` (an invariant and an action property), any key columns, whatever is done to the table | there is a key column (`ViewsAssumption`) |
| `ToolsTypeCorrect`, `StatsAreOfOneMoment`, `ChunksArePartitions`, `MetaDataAlwaysWhole` | `ToolsSpec => []ToolsTypeOK`, `[]StatsShowOneMoment`, `[]ChunksPartition`, `[]MetaDataIsWhole`, any rows, antennas, interval and number of objects | a time interval is not 0 (`MsToolsAssumption`) |
| `SelectionsAlwaysExact` | `SelectionSpec => []SelectionsAreExact`, any main rows, names and expressions | an expression has one of its category's forms (`MsSelectionAssumption`) |
| `RegionsAlwaysTheirSets` | `RegionSpec => []RegionIsItsSet`, any lattice of two axes | masks lie in their boxes (`RegionAssumption`); polygons are convex, with no lattice pixel's middle on the line of an edge (`PolygonAssumption`) |
| `ArraysTypesCorrect`, `LatticesAreAlwaysValues`, `ViewsAreAlwaysValues` | `ViewSpec => []ViewTypeOK`, `[](LatticesAreValues /\ IteratorVisitsOnce)`, `[]ViewsAreValues` (`LatticeViews`), any lattice of two axes, slices, cursors, bins and number of arrays | nothing is empty, strides and factors are positive (`ViewAssumption`) |
| `ConcatInvariant`, `ConcatTypeCorrect`, `ConcatKeepsReferencesCorrect` | `ConcatSpec => []ConcatTypeOK`, `[]ConcatKeepsReferences` | both inputs are MeasurementSets whose references find rows |

The extra hypotheses are those the code needs, not the prover: with two writers
a reader is stale after the other's flush; with a TiledStMan before a
StandardStMan `flush` rewrites the file of the first and resets the reader of
the second; a second manager's data is not flushed (`TableMixed`).

The inductive invariants, and why they are needed:

- **TableStore.**  `TypeOK` is not inductive: a pending `add_row` could exceed
  `MaxRows`.  `IInv` adds `OpFits`, the mutation under way fits the rows there
  are.  `WInv` adds that a closed process has no writer.  `ShowInv` adds that
  readers were read after the last flush of the sole writer (`NothingReadYet`,
  `FirstWriterLeads`, `FlushersWrite`, `CachesShowFile`).  The refinement is
  proved step by step: every step is a step of `AbstractTable` or a stutter,
  with the sole writer's rows as the session and `dat` and `file` together as
  the durable rows; it needs `RefInv`, which says at which step of which call
  the two files disagree (`CallAt`).  `GrowInv` orders rows the other way round:
  what table.dat counts never exceeds what the file, the writer and every reader
  hold (`FileReachesDat`, `WriterReachesDat`, `ReadersReached`).
- **TableLock.**  A `Table` keeps its note of a lock when another process writes
  the file, so the invariant speaks of the last writer alone: between its calls
  the file says what it notes (`AuthorShows`), while it unlocks the file is empty
  (`UnlockEmpties`), and a lock of a drop's check had another last writer
  (`OnlyOverwrittenOverlooked`).  A process that drops makes no other calls.
- **IsmStorage.**  After the first k rows, the entry in force at each of them
  has the row's value (`Followed`), which one more row preserves whether or not
  it gets an entry or opens a bucket.  Bucket starts are the first entered rows
  in order.
- **SsmLayout.**  `SsmCellsReadBack` speaks of the flushed file and of values;
  the invariant speaks of places.  `LayoutInv` is what `setup` brings about: the
  columns placed so far lie one behind the other (`ColumnsApart`), and once its
  loops have ended the index fits or the buckets cannot grow.  From it follows
  that two cells share a byte only where they are booleans of one column, and
  then differ in the bit (`RoomsApart`).  `BytesInv` is what the writes bring
  about: each cell holds the last value written where the writer has it
  (`CellsHold`), string buckets are filled from their beginning and not past
  their end (`StringsFit`), and no byte lies behind the last bucket.  That the
  reader goes to the same place is arithmetic: the search in the index and the
  writer's division name one bucket (`BucketFound`).
- **TiledStorage.**  `TiledCellsReadBack` speaks of the finished file; `TiledInv`
  says which bytes it has after each cell: those of the cells put so far, as the
  buffer has them.  A next cell leaves them alone because no two cells share a
  byte (`CellsLieApart`), which follows from the columns' order in a tile
  (`ColumnsLieApart`, a recursive sum) and from the cells of a tile's rows
  fitting into their column's area (`CellsFit`), the step that fails for
  booleans whose cells are no whole bytes.  That the reader goes to the same
  place (`ReaderFinds`) holds for another reason in each manager: TiledCellStMan
  counts cubes, the others rows of one cube.
- **IndirectArrays.**  The offset of a written row leads, in the file the buffer
  will become, to the whole entry of its last array (`OffsetsLead`), and the
  files follow the writer (`FilesFollow`).  For mixed moments: every table.f0i
  anybody has is a beginning of that file (`WordsArePrefixes`), and every offset
  leads to an entry of its own row (`AllOffsetsLead`).
- **PagedImage.**  What is on disk after a crash depends on how far the call
  was: `ImageInv` follows every call write by write (`CallsKnown`, `NewImage`,
  `DatIsFlushed`, `MapIsFlushed`, `MasksAreWhole`).
- **MsFill.**  The pending rows lead and everything follows: the main file is a
  beginning of its pending rows and refers to rows that every readable subtable
  has (`MainFileLeads`), open main tables see a beginning of that
  (`MainObjectsLead`), subtables hold beginnings of theirs, some rows blank
  (`SubtablesFollow`), a subtable opened after the main table has every row it
  needs (`OpenedLater`), and all tables before the one a flush has reached are
  whole (`FlushFollows`), which is what lets the main table come last.
- **MsConcat.**  For each table, as far as it has been merged, the rows of the
  first MeasurementSet stand at their numbers, the id map leads to rows that say
  what the merged rows said, and each name has as many rows as it should
  (`Merged`).  A table is looked through only after it is complete, by the order
  of the tables (`Place`): DATA_DESCRIPTION through the windows' map, main rows
  through all of them.  The last row of a name and the first equal data
  description exist because bounded sets of numbers have a greatest and a least
  member (`GreatestExists`, `LeastExists`).  Observations and data descriptions
  of the second keep their numbers, which in the output lead to rows of the first
  or to none (`TakenFor`).

- **TaqlStatements.**  The properties speak of statements that have ended, the
  invariant of those that run: `StatementInv` says of each command how far it
  is (`Runs`) - in an UPDATE, rows before the next one are new and the rest old,
  though all are computed from what the readers show; in a DELETE, the hits
  still to go ascend and all others are greater, and the rows gone are the
  others; in an INSERT, the rows added so far are those of the lists read -
  and that this is what the properties allow when it stops there (`RunsStops`).
  The numbers of a DELETE stay right while rows go, because taking a
  row out from among rows that lack only later ones leaves the rows without both.
  TLC checked `StatementInv` before it was proved.
- **TableViews.**  An iterator's groups are the pieces between cut points
  (`ends`), which one more group extends; an index holds each key's rows in
  order, which determines them; a ConcatTable's rows follow from where its
  tables start.  The table moves freely under the views: `ViewSpec` allows any
  change of it (`TableMoves`), of which the statements, calls and crashes of the
  run's `Next` are some, and `StatementSpec` leaves the views out.  So both are
  implied by the specification of the run.
- **MsTools.**  What a `MeasurementSet` object has read of a table is all of it
  at one moment since the object was opened (`KnowsMain`, `KnowsAntenna`), and
  it knows no more rows than there are: a table only grows, so that any later
  reading covers the rows known.  `past` keeps what the main table has been.
- **MsSelection.**  Up to the category that is next, the selected rows are those
  that all accepted expressions before it allow (`SelectionInv`); the conditions
  `to_taql_where` writes are then compared one by one with the filters: each is
  the same rows, or more or fewer for a reason of its category that is named, or
  no clause for one (`Near`, `ExpressionsAgree`).
- **LatticeRegions.**  The pixels of each simple region lie in its bounding box,
  and a compound's box takes in all its pixels (`Masking`), so that asking the
  parts within the box is asking them everywhere (`RegionsInv`).  An extended
  rectangle is everywhere, which is its set but at the points kept as doubtful.  For a polygon
  the argument is that a line of constant height crosses a convex outline once
  upwards and once downwards.
- **LatticeViews.**  `ViewsHold` says of every storage whose it is: the lattice's
  shows what was written last, an array's what it was when it was kept
  (`SharingHolds`).  There is always a storage nobody uses, because there is one
  more than can be in use (`FreshIs`).  The view is a part of the lattice
  (`ViewLies`), and where the iterator is says which pixels it has passed
  (`IteratorIs`).  The rest is about the operators: the running offsets of a
  strided copy are the places of the slice's elements in Fortran order
  (`OffsetsOfSlice`), a slice of a slice is a slice of the lattice
  (`SliceOfView`), the parts of a concatenation are apart and leave nothing out
  (`ConcatLies`), every pixel is in one bin, once (`InOneBin`).

`InOrder`, the row numbers of a set in ascending order, has a proof of existence
and uniqueness: finite sets of integers can be enumerated in order.  Induction
over natural numbers is used in the form that a set of them has a least member,
from `WellFoundedInduction`, since the induction theorems themselves cannot be
instantiated.

Only model-checked, and why:

- `CallsEnd`: liveness under fairness, like ENABLED, is out of TLAPS's reach.
- The lexer, the parsers, the readers of records, descriptions and files, the
  nodes of expressions and the growth of statements: they are recursive over
  their data, or folds with an operator, and the installed provers cannot
  instantiate an induction theorem.  They are checked against reference
  definitions over all inputs up to the bounds.
- SELECT (`AnswersAreTheQuery`), whose sorting, texts of keys and aggregates are
  operators of the libraries over sequences, defined by folds.
- Units, quanta and measures (`UnitsMeanWhatTheySay`, `MeasuresHold`): their
  grammar and the records of measures are recursive.  World regions
  (`RegionsSelectTheirPixels`) and the files of the managers (`FilesReadBack`)
  are tables of given coordinate systems and files, and stay with TLC as well.
- Conjunctions made for a run (`TypesOK` and the like): their conjuncts are
  proved where a theorem above names them.

## 5. What is not modelled, and what was met on the way

Not modelled: command-line tools and constant tables (MS schemas); floating
point arithmetic, ERFA and projections (values are terms or small numbers);
the functions of TaQL's expression evaluator, CREATE, DROP, CALC and SHOW as
executed; TempImage, SubImage, image statistics and beams; several MsWriters in
turn; units defined while others are read; I/O errors.  Descriptions leave out
the length limits of strings, the binary depth limit of 1024 and extents beyond
int32.  `PROJECT.json` says for each component what is left out.

Met while modelling.  Each is kept as the code has it, or left outside the
models' inputs; those with a run or an exception of section 3 are named there:

Tables
- No lock mode has an effect (`table.hpp:45-46` says a permanent lock is taken
  at open); `lock` and `unlock` truncate the lock file whoever wrote it
  (`LockLost`).
- `create` reads table.dat back at its end (`table.cpp:466`): of two creates on
  one directory, the first may end with the row count of the second and its own
  writer, or throw on a table.dat that is being written.
- An `open_rw` table whose columns are all IncrementalStMan has no writer, so
  keyword changes and ALTER TABLE SET KEYWORD are not flushed (`table.hpp:388`).
- `docs/phase10/exit_report.md:78-79` has the tile sizes of booleans corrected;
  they are read back from TiledShapeStMan, and from TiledDataStMan if a cell is
  of whole bytes.  Else writer and reader still disagree: from the second row of
  a TiledCellStMan (the cubes' offsets count a byte for every boolean), and in
  a TiledColumnStMan, whose writer lays out a byte for each.  `WholeBools` says
  so in `TiledCellsReadBack`.  TSM headers with
  nested magic values and TiledCellStMan tables whose cells differ in shape are
  refused or misread; `open_rw` writes the inferred shape of variable-shape
  tiled columns back.
- A later bucket of an IncrementalStMan repeats no values and has absolute row
  numbers, which only this reader accepts: those of casacore count from the
  bucket's first row, and `IsmReader::open` (`incremental_stman.cpp:399-417`)
  ignores the index, so that a file of casacore is read right only if it has one
  bucket.  The SSM index must fit one bucket, which `setup` arranges.
- Keywords of a version-1 table.dat are dropped at the next flush; arrays of
  Char and uChar that end a stream are refused by a plausibility guard of
  `aipsio_record_reader.cpp`; `keyword_record_convert.hpp` says arrays take the
  first element's type, the code takes the dominant kind; the extractors of
  record metadata and of text keywords differ on integer arrays.

TaQL
- `parse()` never looks for the end of its input: `DELETE FROM t t0 WHERE a=0`
  (taql.cpp:725-728) or a misspelt WHERE deletes every row, against
  `docs/phase11/taql_command_checklist.csv:114`.  `GIVING t AS TYPE plain` and
  the options of CREATE TABLE are not read; SELECT without FROM takes WHERE for
  a column.
- DISTINCT and GROUPBY compare texts (taql.cpp:2081-2091, 3748, 3830): doubles
  that agree in six decimals are one key, and so are strings that join to one
  text around a bar; an array makes the query throw, which is not modelled.  With
  GROUPBY, the clauses ORDERBY, DISTINCT and LIMIT are parsed and not done.
- `a[2:]` and `a[:2]` give one tree; `[a+1]` throws; `a[]` looks at an operand
  that is not there; `IN [1:3]` and `IN (SELECT ...)` stop silently and IN
  without brackets swallows an expression; `NOT NOT a` takes the second NOT for
  a column; `-x**2` is (-x)**2, against the table of `taql_show`
  (taql.cpp:1933-1935); `5--3` is a comment; a column named p, m or f
  that is divided is read as a regular expression; INCONE always throws;
  `(2 DEG) KM` loses DEG.  With NaN, `compare_values` orders nothing strictly.

Values
- Units: `das` is a tenth of an arcsecond, as the one-letter prefix is tried
  first (`unit.cpp:524-532`); `m-s` is m times s, characters behind a parenthesis are ignored, names
  are parsed again with the units defined then, exponents wrap at int8.
- `convert_measure` drops the offset (`measure_convert.hpp:128`); AZEL, HADEC and
  ICRS are listed (`measure_convert.hpp:32`, 134) and not done: J2000 and ICRS
  are taken for one frame (`measure_convert.cpp:175`, 218); an epoch in a column loses its fraction; a
  column's offset is never applied and the reference of a written measure is not
  looked at, nor are units; descriptions rewritten without units leave the old
  QuantumUnits; B1950 baselines are refused, B1950 directions are not.

MeasurementSets, images and regions
- `ms_concat` keeps no map of OBSERVATION, ARRAY, FEED or PROCESSOR, leaves the
  second one's polarizations behind and writes DATA and FLAG empty, against
  `ms_concat.hpp:44-46` (`ConcatObservations`); it does not compare the schemas.
- `to_taql_where` and `evaluate` differ (`ms_selection.hpp:66-68`): `&&` between
  feeds; `<` and `>` of fields and states, which `evaluate` applies to the ids a
  subtable has; names, ranges and frequencies of windows are left out; the uv
  distance becomes an index into a cell that no evaluator of TaQL here accepts,
  or is left out when it has a unit; an empty list makes an IN without values.
  `SelectsMore`, `SelectsLess` and `HasNoClause` list them.
- The second example of `measurement_set.hpp` (77-82) adds rows to a subtable
  that `subtable()` opens read-only.
- Neither `PagedImage` nor `Table` writes when it is destroyed, although
  `image.hpp:227` says metadata is flushed "either on `flush()` or on
  destruction".
- A crash while table.dat of a new image is written leaves one nobody can open.
- World unions, intersections, differences and complements cannot be restored
  (`WcRegion::from_record` throws, `image_region.hpp:350` promises a round
  trip), nor masks of a lattice; `RegionHandler::from_record` clears first, so that an unreadable region
  leaves half of them; `remove_region` leaves a default mask that names nothing;
  regions called "n_regions" or "default_mask" are lost.  Compound and mask
  regions of a lattice keep only their type in a record.
- World ellipsoids and polygons take axes in the order of names without mapping
  them to pixel axes; `world_to_pixel_1d` takes pixel axis and world axis for one
  number; boxes, ellipsoids and polygons wholly outside the lattice get negative
  lengths; removed axes stay in the totals; a Stokes pixel below 0 is cast from a
  negative double to an index.
- `LcExtension` ignores its axes and says it has a mask only if the inner region
  has one, although its `get_mask()` is never the whole lattice then: what is
  combined from an extended rectangle takes it for the whole lattice
  (`lattice_region.hpp:99-101`); slices of a `SubLattice` are checked against the
  parent only; `LelIif` never compares shapes.

One hazard has no property: a second MsWriter on a filled MeasurementSet
validates against its own rows only and removes the subtables that the rows of
the first refer to (`ms_writer.cpp:139`).

## 6. Plan

1. Several MsWriters in turn, with the hazard above as the finding it is.
2. The evaluator of TaQL over typed values.
