------------------------- MODULE MCStorageManagers -------------------------
(***************************************************************************)
(* An instance for TLC of the writers of column data and of the readers of *)
(* what they wrote: IncrementalStMan (IsmStorage), StandardStMan's buckets  *)
(* (SsmLayout) and its arrays (IndirectArrays), and the tiled managers     *)
(* (TiledStorage); and of the table's lock file (TableLock).  Each has its *)
(* own files and shares no state with another, so each is followed while   *)
(* the others rest.                                                        *)
(***************************************************************************)
EXTENDS IsmStorage, IndirectArrays, SsmLayout, TiledStorage, TableLock

CONSTANTS e1, e2

\* Arrays of different lengths, so that an offset of one buffer can point into
\* the middle of an array of another.
SmallArrays == {<<e1>>, <<e2, e1>>}

\* Columns of every kind, alone and before and behind booleans, with rows for
\* less than a bucket, exactly one and several; an index that makes setup
\* double the buckets, one that does not fit any, and a cell that fits none.
SomeTables ==
    LET Col(what, bytesOf, bitsOf) == [kind |-> what, size |-> bytesOf, bits |-> bitsOf]
        Num(n) == Col("number", n, 0)
        Str == Col("string", 12, 0)
        Bool == Col("bool", 0, 1)
        T(cols, n) == [columns |-> cols, nrow |-> n]
    IN  {T(<<Num(4)>>, 0), T(<<Num(8)>>, 65), T(<<Num(4), Num(8)>>, 33), T(<<Bool>>, 9),
         T(<<Num(8), Bool, Num(8)>>, 34), T(<<Bool, Str>>, 33), T(<<Str, Num(4)>>, 2),
         T(<<Num(4), Bool>>, 2), T(<<Bool, Num(12), Str>>, 17),
         T(<<Num(200)>>, 97), T(<<Num(600)>>, 1)}

\* The tables of a violation run: a column of 16- or 32-bit integers and one of
\* booleans.
NumberAndBool ==
    {[columns |-> <<[kind |-> "number", size |-> n, bits |-> 0],
                    [kind |-> "bool", size |-> 0, bits |-> 1]>>, nrow |-> 2] : n \in {2, 4}}

SomeTexts ==
    {[len |-> 0, of |-> 0], [len |-> 8, of |-> 1], [len |-> 9, of |-> 2],
     [len |-> 190, of |-> 3]}

\* Cells of whole bytes of booleans and of less, one row and more than a tile.
SomeTiledTables ==
    LET Num(n) == [bool |-> FALSE, size |-> n]
        Bool == [bool |-> TRUE, size |-> 1]
    IN  [manager : {"cell", "shape", "data", "column"}, pixels : {3, 8}, rows : {1, 3},
         columns : {<<Num(2)>>, <<Num(2), Num(4), Num(2)>>, <<Num(2), Bool>>, <<Bool, Bool>>}]

storageVars == <<vars, arrayVars, creatorOnly, ssmVars, tiledVars, lockVars>>

StorageInit ==
    Init /\ ArraysInit /\ creatorOnly \in BOOLEAN /\ SsmInit /\ TiledInit /\ LockInit

\* The state of those that rest.
IsmRests == nrow = 0 /\ scan = 0
ArraysRest == f0.state = "none"
SsmRests == phase = "new"
TiledRests == tilePhase = "new"

NextOne ==
    \/ ArraysRest /\ SsmRests /\ TiledRests /\ LockInit
       /\ Next /\ UNCHANGED <<arrayVars, ssmVars, tiledVars, lockVars>>
    \/ IsmRests /\ SsmRests /\ TiledRests /\ LockInit
       /\ ArraysStep /\ UNCHANGED <<vars, ssmVars, tiledVars, lockVars>>
    \/ IsmRests /\ ArraysRest /\ TiledRests /\ LockInit
       /\ SsmNext /\ UNCHANGED <<vars, arrayVars, tiledVars, lockVars>>
    \/ IsmRests /\ ArraysRest /\ SsmRests /\ LockInit
       /\ TiledNext /\ UNCHANGED <<vars, arrayVars, ssmVars, lockVars>>
    \/ IsmRests /\ ArraysRest /\ SsmRests /\ TiledRests
       /\ LockNext /\ UNCHANGED <<vars, arrayVars, ssmVars, tiledVars>>

StorageSpec == StorageInit /\ [][NextOne /\ UNCHANGED creatorOnly]_storageVars

TypesOK == TypeOK /\ ArraysTypeOK /\ SsmTypeOK /\ TiledTypeOK /\ LockTypeOK
=============================================================================
