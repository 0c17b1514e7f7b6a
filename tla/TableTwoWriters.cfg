\* Two writing processes on one directory.
SPECIFICATION FairSpec
CONSTANTS
    Writers = {p1, p2}
    Readers = {}
    Managers <- SsmTable
    Val = {0}
    Default = 0
    MaxRows = 2
    Unknown = Unknown
INVARIANT TypeOK
PROPERTIES CallsEnd RowsPartOnlyInCreate
