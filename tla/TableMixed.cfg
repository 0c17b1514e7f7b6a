\* A table with an SSM and a TSM storage manager, one writer that adds rows.
SPECIFICATION GrowSpec
CONSTANTS
    Writers = {p1}
    Readers = {}
    Managers <- SsmTsmTable
    Val = {0}
    Default = 0
    MaxRows = 1
    Unknown = Unknown
CHECK_DEADLOCK FALSE
INVARIANT FlushedTableIsWhole
