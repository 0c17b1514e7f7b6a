\* MsTools: two MeasurementSet objects and MaxCalls calls beside the flushes of
\* three rows.  MsFill: one subtable and one other process; up to two rows per
\* table, three in all, so that a second flush finds the rows of a first one.  MsConcat and
\* MsSelection: the inputs of MCMeasurementSets.
CONSTANTS
    Inputs <- ConcatInputs
    Handles = {1, 2}
    Creator = 1
    Rows <- ToolRows
    Antennas <- TwoAntennas
    Entries = {"e"}
    Interval = 2
    MaxCalls = 3
    MainCell <- SelectionRows
    Names <- SubtableNames
    DdSpw <- Windows
    Selections <- TwoCategories
    Filler = w
    Openers = {r}
    Subtables <- OneSubtable
    Main = main
    name1 = name1
    name2 = name2
    Name = {name1, name2}
    Blank = blank
    MaxRows = 2
    MaxPending = 3
SPECIFICATION SpecAll
INVARIANTS
    TypesOK
    References
    ConcatKeepsReferences
    StatsShowOneMoment ChunksPartition MetaDataIsWhole
    SelectionsAreExact
PROPERTY FillIsComplete
SYMMETRY Symmetry
\* ms_concat and evaluate() end.
CHECK_DEADLOCK FALSE
