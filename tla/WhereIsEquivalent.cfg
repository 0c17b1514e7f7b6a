\* Pairs of feeds are selected and nothing else is called.
CONSTANTS
    Inputs <- ConcatInputs
    Handles = {1, 2}
    Creator = 1
    Rows <- ToolRows
    Antennas <- TwoAntennas
    Entries = {"e"}
    Interval = 2
    MaxCalls = 3
    MainCell <- SelectionRows
    Names <- SubtableNames
    DdSpw <- Windows
    Selections <- FeedPairs
    Filler = w
    Openers = {r}
    Subtables <- OneSubtable
    Main = main
    name1 = name1
    name2 = name2
    Name = {name1, name2}
    Blank = blank
    MaxRows = 2
    MaxPending = 3
SPECIFICATION SelectionCalls
INVARIANT WhereIsEquivalent
CHECK_DEADLOCK FALSE
