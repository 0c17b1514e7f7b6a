\* Tables of two rows with a column of integers and one of booleans, and the
\* sizes of the code; the other storage managers have no rows.
CONSTANTS
    Column = {c1, c2}
    Val = {zero, one}
    Zero = zero
    Unset = unset
    MaxRows = 0
    BucketEntries = 1
    Readers = {}
    Own = own
    e1 = e1
    e2 = e2
    Element = {e1, e2}
    Array <- SmallArrays
    None = none
    Garbage = garbage
    MaxArrayRows = 0
    MaxWords = 1
    SsmTables <- NumberAndBool
    Texts <- SomeTexts
    Numbers = {0, 1, 2}
    TestRows = {0, 1, 8, 31, 32, 33, 64}
    MaxCellWrites = 3
    MinBucketSize = 128
    MaxBucketSize = 32768
    TargetRows = 32
    IndexFixed = 126
    IndexPerBucket = 8
    StrHeader = 16
    TiledTables = {}
    TiledNumbers = {}
    MaxTiledWrites = 0
    TargetPixels = 16
    Lockers = {}
    Droppers = {}
    Forces = {}
SPECIFICATION StorageSpec
INVARIANT RowsFitBuckets
CHECK_DEADLOCK FALSE
