\* Ism: two columns that change at different rows, five rows in buckets of two.
\* Arrays: two rows, arrays of one and two elements; the buffer holds two long
\* arrays or three short ones; a Table of another process.
\* Lock: two processes that lock, one that drops.
\* Ssm: the sizes of the code, but a largest bucket of 512 bytes; three writes.
\* Tiled: tiles of about 16 elements; two writes.
\* Image: two pixels that are 0 or 1, one mask of two forms, metadata with two values.
\* Views: a lattice of 3 by 2, an array the program keeps, two writes.
\* Regions: a lattice of 3 by 3, two simple regions and two compound ones.
CONSTANTS
    Column = {c1, c2}
    Val = {zero, one}
    Zero = zero
    Unset = unset
    MaxRows = 5
    BucketEntries = 2
    Readers = {r1}
    Own = own
    e1 = e1
    e2 = e2
    Element = {e1, e2}
    Array <- SmallArrays
    None = none
    Garbage = garbage
    MaxArrayRows = 2
    MaxWords = 6
    SsmTables <- SomeTables
    Texts <- SomeTexts
    Numbers = {0, 1, 2}
    TestRows = {0, 1, 8, 31, 32, 33, 64}
    MaxCellWrites = 3
    MinBucketSize = 128
    MaxBucketSize = 512
    TargetRows = 32
    IndexFixed = 126
    IndexPerBucket = 8
    StrHeader = 16
    TiledTables <- SomeTiledTables
    TiledNumbers = {1001}
    MaxTiledWrites = 2
    TargetPixels = 16
    Lockers = {p, q}
    Droppers = {s}
    Forces = {TRUE, FALSE}
    Point = {1, 2}
    Pixel = {0, 1}
    Blank = 0
    Units = {noUnits, jy}
    NoUnits = noUnits
    Mask = {m1}
    NoMask = noMask
    MaskData = {a, b}
    Nothing = nothing
    Shape <- ViewShape
    Slicers <- SomeSlicers
    CursorShapes <- SomeCursorShapes
    Factors <- SomeFactors
    PixelValues = {0}
    MaxWrites = 2
    Keepers = {k1}
    NoArray = noArray
    LatticeShape <- RegionShape
    BoxCorners <- SomeCorners
    PixelSets <- SomePixelSets
    Ellipses <- SomeEllipses
    Polygons <- SomePolygons
    MaxCombined = 2
SPECIFICATION AllSpec
INVARIANTS
    AllTypesOK CellsReadBack IndexFindsEntries
    WrittenArraysReadBack ReadersShowThePast
    SsmCellsReadBack IndexFindsRows
    TiledCellsReadBack
    HeldLockShows
    ImageShowsWhatWasPut SavedImageIsWhole
    ViewsAreValues RegionIsItsSet
CHECK_DEADLOCK FALSE
