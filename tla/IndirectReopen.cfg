\* Two rows, arrays of one and two elements; the buffer holds two long arrays or
\* three short ones; the other storage managers and the lock rest.
CONSTANTS
    Column = {c1, c2}
    Val = {zero, one}
    Zero = zero
    Unset = unset
    MaxRows = 0
    BucketEntries = 1
    Readers = {}
    Own = own
    e1 = e1
    e2 = e2
    Element = {e1, e2}
    Array <- SmallArrays
    None = none
    Garbage = garbage
    MaxArrayRows = 2
    MaxWords = 6
    SsmTables = {}
    Texts <- SomeTexts
    Numbers = {0, 1, 2}
    TestRows = {0}
    MaxCellWrites = 0
    MinBucketSize = 128
    MaxBucketSize = 512
    TargetRows = 32
    IndexFixed = 126
    IndexPerBucket = 8
    StrHeader = 16
    TiledTables = {}
    TiledNumbers = {}
    MaxTiledWrites = 0
    TargetPixels = 16
    Lockers = {}
    Droppers = {}
    Forces = {}
SPECIFICATION StorageSpec
INVARIANT UnwrittenArraysKept
CHECK_DEADLOCK FALSE
