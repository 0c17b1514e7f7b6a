\* A StandardStMan table: one writer, two readers of other processes while rows
\* are only added; units, measures, manager files, world regions and the two
\* languages.  A process that died while it wrote table.dat leaves a table nobody
\* can open.
SPECIFICATION SpecAll
CONSTANTS
    Writers = {p1}
    Readers = {p2, p3}
    Managers <- SsmTable
    Val = {0, 1}
    Default = 0
    MaxRows = 2
    Unknown = Unknown
    ParseUnit <- try_parse_unit
    MaxUnitSteps = 3
    ToRecord <- measure_to_record
    FromRecord <- measure_from_record
    MaxMeasureSteps = 3
    CasesOf <- cases_of
    MakeFile <- file_of
    ReadFile <- read_file
    Given <- given_to
    TilePixelTarget = 5
    LatticeShape <- RegionsShape
    Systems <- SomeSystems
    Spans <- SomeSpans
    Mids <- SomeMids
    Outlines <- SomeOutlines
    LatticeMade <- SomeMade
    RegionNames = {"a", "b"}
    MaxRegionSteps = 4
    MaxRegions = 2
    Letters <- Words
    Digits <- Numerals
    Parse <- taql_parse
    MaxOperators = 2
    MaxClauses = 3
    LelSymbols <- Lattices
    LelEval <- lel_eval
    LelParse <- lel_parse
    MaxLelOperators = 2
CHECK_DEADLOCK FALSE
INVARIANTS
    ReadersShowFile OpenedRowsExist
    UnitsMeanWhatTheySay MeasuresHold FilesReadBack RegionsSelectTheirPixels
    StatementsParse LatticeExpressionsHold
PROPERTY ImplementsAbstractTable
