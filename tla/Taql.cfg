CONSTANTS
    a = a
    b = b
    Column <- TwoColumns
    Val <- Bits
    Blank = 0
    MaxRows = 3
    Statements <- SomeStatements
    NoWhere = none
    NoLimit = all
    Fail = fail
    Nothing = nothing
    Key <- BothColumns
    Others = {0, 1}
    NoView = noview
    NoGroup = nogroup
    Queries <- SomeQueries
    NumberTexts <- IntegersAndDoubles
    StringTexts <- SomeStrings
    Bar = bar
    k1 = k1
    k2 = k2
    word = word
    TablePrefix = tableprefix
    MaxDepth = 2
    CreatedTables <- SomeCreated
    CasacoreTables <- SomeCasacore
    KeywordNames = {k1, k2}
    KeywordValues <- SomeValues
    Removed = removed
    Blobs <- TwoBlobs
    CubeShape <- Cube
    MaxChanges = 1
    WriteTableDat <- write_table_dat
    ParseTableDat <- parse_table_dat_full
    CanWriteTableDat <- CanDescribe
    WriteRecord <- write_aipsio_record
    ReadRecord <- read_aipsio_record
    CanWriteRecord <- RecordFits
    WriteBinary <- write_record_binary
    ReadBinary <- read_record_binary
SPECIFICATION Spec
INVARIANTS
    TypeOK StatementsDoWhatTheySay InterruptedStatementsStop
    AnswersAreTheQuery ViewsLeadToTheRows
    WhatIsWrittenReadsBack
PROPERTY IteratorGroupsTheRows
CHECK_DEADLOCK FALSE
