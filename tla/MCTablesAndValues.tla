------------------------- MODULE MCTablesAndValues -------------------------
(***************************************************************************)
(* A table, values and texts for TLC: one writing and two reading          *)
(* processes; three steps of writing a unit and computing with it, or of   *)
(* converting a measure and putting it into a column; a file that is       *)
(* written and opened; coordinates of a lattice of 3 by 3 and four calls   *)
(* on named regions; TaQL statements of three clauses, and expressions of  *)
(* two operators around each other, of TaQL and of lattices.  They share   *)
(* nothing, so each is followed while the others rest.                     *)
(***************************************************************************)
EXTENDS MCTableStore, Units, Measures, ManagerFileSteps, WorldRegions, TaqlSyntax, LatticeExprs

VARIABLE grows      \* the writer only ever adds rows

NoTable == Init /\ grows = FALSE

\* A program that takes rows away too; then nobody else reads, which changes
\* nothing on disk.
WriterAlone == Next /\ \A h \in Readers : mode'[h] = "closed"

UnitRests == unitText = <<>> /\ unitMeaning = NoDims /\ quantity = NoUnit
             /\ measured = NoDims /\ unitSteps = 0
MeasureRests == measure = Nothing /\ began = "" /\ frame = Nothing /\ described = Nothing
                /\ keywords = Nothing /\ cells = Nothing /\ put = Nothing /\ measureSteps = 0

FilesRest == FilesInit

RegionsShape == <<3, 3>>
Sky == LinearCoordinate(<<"x", "y">>, <<20, 10>>, <<0, 2>>, <<2, -1>>, <<>>)
Turned == LinearCoordinate(<<"x", "y">>, <<0, 0>>, <<2, 0>>, <<1, 2>>, <<<<1, 1>>, <<-1, 1>>>>)
Channels == SpectralCoordinate(100, -2, 2)
Polarizations == StokesCoordinate(<<1, 4, 2>>)
Hours == TabularCoordinate(<<0, 2, 4>>, <<6, 2, 0>>, "Hour")
\* Axes that casacore put in another order, or removed.
Ordered(coordinates, numbers) ==
    [i \in DOMAIN coordinates |->
        [coord |-> coordinates[i], world_map |-> numbers[i], pixel_map |-> numbers[i],
         world_replace |-> [a \in DOMAIN numbers[i] |-> 2],
         pixel_replace |-> [a \in DOMAIN numbers[i] |-> 0]]]
SomeSystems ==
    {SystemOf(<<Sky>>), SystemOf(<<Turned>>), Ordered(<<Sky>>, <<<<1, 0>>>>),
     Ordered(<<Channels, Polarizations>>, <<<<1>>, <<0>>>>),
     Ordered(<<Polarizations, Hours, Channels>>, <<<<-1>>, <<0>>, <<1>>>>)}
SomeSpans == {<<-1, 1>>, <<5, 2>>}
SomeMids == {[center |-> <<2, 2>>, semi_axes |-> <<2, 3>>]}
SomeOutlines == {<<<<0, 0>>, <<5, 1>>, <<1, 5>>>>}
SomeMade ==
    {[type |-> "LcBox", blc |-> <<0, 1>>, trc |-> <<1, 2>>],
     [type |-> "LcPixelSet", blc |-> <<1, 0>>, len |-> <<2, 3>>, mask |-> {<<0, 1>>, <<1, 2>>}],
     [type |-> "LcMask", mask |-> {<<2, 1>>}],
     [type |-> "LcEllipsoid", center |-> <<3, 1>>, semi_axes |-> <<3, 1>>],
     [type |-> "LcPolygon", vertices |-> <<<<0, 6>>, <<7, 0>>, <<8, 7>>>>]}
RegionsRest ==
    /\ system = SystemOf(<<Sky>>) /\ handler = NoRegions /\ world = <<>> /\ worldAt = <<>>
    /\ meant = <<>> /\ masked = <<>> /\ losses = {} /\ regionSteps = 0

Words ==
    {"A", "B", "T1", "p", "INT", "KM", "TRUE", "IIF", "GMAX", "OR", "AND", "NOT", "LIKE", "ILIKE",
     "IN", "BETWEEN", "AROUND", "INCONE", "EXISTS", "WITH", "SELECT", "ALL", "DISTINCT", "FROM",
     "JOIN", "ON", "WHERE", "GROUP", "GROUPBY", "ROLLUP", "HAVING", "ORDER", "BY", "ORDERBY", "ASC",
     "DESC", "LIMIT", "OFFSET", "GIVING", "INTO", "AS", "DMINFO", "UPDATE", "SET", "INSERT", "VALUES",
     "DELETE", "COUNT", "CALC", "CREATE", "TABLE", "DROP", "ALTER", "SHOW", "TIMING", "STYLE",
     "NDIM", "UNIT", "SHAPE", "TO", "ADD", "COLUMN", "ADDCOL", "COPYCOL", "RENAMECOL", "DROPCOL",
     "KEYWORD", "SETKEY", "COPYKEY", "RENAMEKEY", "DROPKEY", "ADDROW"}
Numerals == {"1", "2", "5"}

Lattice(name, type, size, mask) == lel_array(type, [i \in 1..size |-> <<name, i>>], mask)
Lattices ==
    "a" :> Lattice("a", "float32", 2, <<TRUE, FALSE>>) @@ "b" :> Lattice("b", "float32", 2, <<>>)
    @@ "d" :> Lattice("d", "float64", 2, <<FALSE, TRUE>>)
    @@ "e" :> Lattice("e", "float32", 3, <<TRUE, TRUE, FALSE>>)
    @@ "c" :> Lattice("c", "boolean", 2, <<FALSE, TRUE>>)

StatementRests == query = <<>> /\ expr = <<>> /\ operators = 0 /\ clauses = 0
LelRests == lel = <<>> /\ lelOperators = 0

\* Units, measures, files and regions; then with the expressions.
ValuesRest == UnitRests /\ MeasureRests /\ FilesRest /\ RegionsRest
TextsRest == StatementRests /\ LelRests
valueVars == <<unitVars, measureVars, fileVars, worldVars>>
textVars == <<syntaxVars, lelVars>>

InitAll ==
    \/ Init /\ grows \in BOOLEAN /\ ValuesRest /\ TextsRest
    \/ NoTable /\ UnitInit /\ MeasureRests /\ FilesRest /\ RegionsRest /\ TextsRest
    \/ NoTable /\ UnitRests /\ MeasureInit /\ FilesRest /\ RegionsRest /\ TextsRest
    \/ NoTable /\ UnitRests /\ MeasureRests /\ FilesRest /\ WorldInit /\ TextsRest
    \/ NoTable /\ ValuesRest /\ SyntaxInit /\ LelRests
    \/ NoTable /\ ValuesRest /\ StatementRests /\ LelInit
NextAll ==
    \/ ValuesRest /\ TextsRest /\ UNCHANGED <<valueVars, textVars>>
       /\ ((grows /\ GrowNext) \/ (~grows /\ WriterAlone))
    \/ unitText # <<>> /\ UnitNext
       /\ UNCHANGED <<vars, measureVars, fileVars, worldVars, textVars>>
    \/ began # "" /\ MeasureNext
       /\ UNCHANGED <<vars, unitVars, fileVars, worldVars, textVars>>
    \/ NoTable /\ UnitRests /\ MeasureRests /\ RegionsRest /\ TextsRest /\ FilesNext
       /\ UNCHANGED <<vars, unitVars, measureVars, worldVars, textVars>>
    \/ worldAt # <<>> /\ WorldNext
       /\ UNCHANGED <<vars, unitVars, measureVars, fileVars, textVars>>
    \/ query # <<>> /\ SyntaxNext
       /\ UNCHANGED <<vars, valueVars, lelVars>>
    \/ lel # <<>> /\ LelGrow
       /\ UNCHANGED <<vars, valueVars, syntaxVars>>
SpecAll ==
    InitAll /\ [][NextAll /\ UNCHANGED grows]_<<vars, valueVars, textVars, grows>>
=============================================================================
