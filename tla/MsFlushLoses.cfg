\* The filling process alone, which also calls MeasurementSet::flush.
CONSTANTS
    Inputs <- ConcatInputs
    Handles = {1, 2}
    Creator = 1
    Rows <- ToolRows
    Antennas <- TwoAntennas
    Entries = {"e"}
    Interval = 2
    MaxCalls = 0
    MainCell <- SelectionRows
    Names <- SubtableNames
    DdSpw <- Windows
    Selections <- TwoCategories
    Filler = w
    Openers = {}
    Subtables <- OneSubtable
    Main = main
    name1 = name1
    name2 = name2
    Name = {name1}
    Blank = blank
    MaxRows = 1
    MaxPending = 2
SPECIFICATION SpecAll
PROPERTY RowsStay
CHECK_DEADLOCK FALSE
