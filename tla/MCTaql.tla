------------------------------- MODULE MCTaql -------------------------------
(***************************************************************************)
(* An instance of TaqlStatements and TableViews for TLC: one Table of three *)
(* rows, the statements, queries and views on it, and the program's own    *)
(* calls between them.                                                     *)
(***************************************************************************)
EXTENDS TaqlStatements, TableViews, TableDescriptions

(* Descriptions of tables: each kind of storage manager and of column,     *)
(* made by a program or in the three versions of casacore's file, with and *)
(* without nested magic values, fixed subrecords and blobs.                *)
CONSTANTS k1, k2, word

RecordFits(r) == CanWrite(r, 0)

Units == Record(<<<<k1, Scalar("String", <<word>>)>>,
                  <<k2, Record(<<<<k1, Array("Double", <<2>>, <<<<1>>, <<2>>>>)>>>>)>>>>)

SomeValues ==
    {Scalar("Complex", <<1, 2>>), Scalar("String", <<TablePrefix, word>>), Scalar("uInt64", <<3>>),
     Array("String", <<>>, <<>>), Array("DComplex", <<1, 2>>, <<<<1, 2>>, <<3, 4>>>>), Units}

SpecColumn(kind, type, shape, keywords) ==
    [kind |-> kind, type |-> type, shape |-> shape, keywords |-> keywords,
     texts |-> <<<<word>>, <<>>, <<>>, <<>>>>]
ScalarSpec(type) == SpecColumn("ScalarColumnDesc", type, <<>>, Units)
ArraySpec(type, shape) == SpecColumn("ArrayColumnDesc", type, shape, Record(<<>>))

Program(manager, columns) ==
    [sm_type |-> <<manager>>, columns |-> columns, nrows |-> 2, big_endian |-> TRUE,
     keywords |-> Record(<<>>)]
SomeCreated ==
    {Program("StandardStMan",
             <<ScalarSpec("String"), ArraySpec("Float", <<4, 2>>), ArraySpec("Int", <<>>)>>),
     Program("IncrementalStMan", <<ScalarSpec("DComplex")>>),
     Program("TiledShapeStMan", <<ArraySpec("Complex", <<>>)>>)}
TwoBlobs == {<<>>, <<1, 2>>}
Cube == <<4>>

\* casacore's tables may have keywords of a byte and arrays of Bool.
OfCasacore(version, made) ==
    [made EXCEPT !.table_version = version, !.table_desc.version = 1,
        !.table_keywords_v1 = IF version = 1 THEN Units ELSE @,
        !.table_desc.keywords =
            Record(<<<<k1, Scalar("uChar", <<1>>)>>,
                     <<k2, Array("Bool", <<9>>, [i \in 1..9 |-> <<i % 2>>])>>>>)]
FormOf(version, blobs, magic, fixed) ==
    [file |-> version, blobs |-> blobs, magic |-> magic, fixed |-> fixed,
     iposition |-> 2, array |-> 2, desc |-> 1]
SomeCasacore ==
    {<<OfCasacore(f.file, TableOf(p, IF f.blobs THEN <<1>> ELSE <<>>)), f>> :
        f \in {FormOf(1, FALSE, TRUE, TRUE), FormOf(2, FALSE, FALSE, TRUE),
               FormOf(2, TRUE, TRUE, FALSE), FormOf(3, TRUE, FALSE, TRUE)},
        p \in SomeCreated}

----------------------------------------------------------------------------
(* Statements, queries and views.                                          *)
CONSTANTS a, b

TwoColumns == {a, b}
Bits == {0, 1}

A0 == {r \in Row : r[a] = 0}
Set(c, e) == [column |-> c, value |-> e]

\* UPDATE that swaps two columns, one whose assignment changes what its WHERE
\* reads, and one that throws at its second assignment; DELETE with and without
\* LIMIT; INSERT of two rows, the second of which throws in the second run.
SomeStatements ==
    {[cmd |-> "update", where |-> NoWhere, set |-> <<Set(a, b), Set(b, a)>>],
     [cmd |-> "update", where |-> A0, set |-> <<Set(a, 1), Set(b, a)>>],
     [cmd |-> "update", where |-> A0, set |-> <<Set(a, 1), Set(b, Fail)>>],
     [cmd |-> "delete", where |-> A0, limit |-> NoLimit],
     [cmd |-> "delete", where |-> NoWhere, limit |-> 2],
     [cmd |-> "insert", columns |-> <<b, a>>, lists |-> <<<<1, 0>>, <<0, 1>>>>],
     [cmd |-> "insert", columns |-> <<a, b>>, lists |-> <<<<1, 1>>, <<1, Fail>>>>],
     [cmd |-> "insert", columns |-> <<a>>, lists |-> <<<<1>>, <<1, 1>>>>],
     [cmd |-> "alter", steps |-> <<1, Fail>>],
     [cmd |-> "alter", steps |-> <<2>>],
     [cmd |-> "count", where |-> A0]}

\* No cell was written since the last flush, add_row or remove_row.  The bound:
\* the program writes one cell between two of them.
Clean ==
    \/ mem = file
    \/ \E r \in DOMAIN file : mem = RemoveAt(file, r)
    \/ nrow > Len(file) /\ mem = file \o [i \in 1..(nrow - Len(file)) |-> BlankRow]

All == [offset |-> 0, limit |-> NoLimit]
SecondOnly == [offset |-> 1, limit |-> 1]
By(c, d) == [column |-> c, descending |-> d]

Rows1(where, order, distinct, project, window) ==
    [kind |-> "rows", where |-> where, order |-> order, distinct |-> distinct,
     project |-> project, window |-> window]
Group(where, keys, having) ==
    [kind |-> "groups", where |-> where, keys |-> keys, having |-> having, arg |-> b,
     order |-> <<>>, distinct |-> FALSE, window |-> All]
Join(on, where, window) == [kind |-> "join", on |-> on, where |-> where, window |-> window]

SameA == {p \in Row \X Row : p[1][a] = p[2][a]}
LessB == {p \in Row \X Row : p[1][b] < p[2][b]}

SomeQueries ==
    {Rows1(where, order, distinct, <<b>>, window) :
        where \in {NoWhere, A0}, order \in {<<>>, <<By(a, TRUE), By(b, FALSE)>>},
        distinct \in BOOLEAN, window \in {All, SecondOnly}}
    \cup {Rows1(NoWhere, <<By(b, FALSE)>>, TRUE, <<a, b>>, [offset |-> 0, limit |-> 2])}
    \cup {Group(where, keys, having) :
            where \in {NoWhere, A0}, keys \in {<<a>>, <<b, a>>}, having \in {0, 2}}
    \cup {[Group(NoWhere, <<b, a>>, 0) EXCEPT !.arg = Nothing, !.order = <<By(a, TRUE)>>,
                                              !.distinct = TRUE, !.window = SecondOnly]}
    \cup {Join(SameA, LessB, window) : window \in {All, SecondOnly}}

\* Integers; doubles that differ by less than six decimals show; and the strings
\* "" and "|".
IntegersAndDoubles == {[v \in Val |-> <<v>>], [v \in Val |-> <<0>>]}
SomeStrings == {[v \in Val |-> IF v = 0 THEN <<>> ELSE <<Bar>>]}

\* What comes before a query or while a view is alive is calls of the Table
\* itself: they leave it in every state statements leave it in.
NextStatement ==
    /\ \/ \E s \in Statements : Begin(s)
       \/ StatementStep
    /\ UNCHANGED view

NextCall == TableCall /\ (file' = file => Clean) /\ UNCHANGED view

NextCrash == Crash /\ view' = NoView

StatementsNext ==
    \/ last = NoStatement /\ view = NoView /\ UNCHANGED view /\ \E q \in Queries : Select(q)
    \/ last = NoStatement /\ ViewNext /\ answer' = Nothing /\ UNCHANGED <<run, last>>
    \/ view = NoView /\ NextStatement /\ answer' = Nothing
    \/ NextCall /\ answer' = Nothing
    \/ NextCrash /\ answer' = Nothing

taqlVars == <<statementVars, answer, view>>

TaqlInit == InitStatements /\ answer = Nothing /\ view = NoView

\* The descriptions share no file with the rest and are followed while it rests.
Init == TaqlInit /\ DescInit

Next ==
    \/ DescInit /\ StatementsNext /\ UNCHANGED descVars
    \/ TaqlInit /\ file = <<>> /\ DescNext /\ UNCHANGED taqlVars

vars == <<taqlVars, descVars>>

Spec == Init /\ [][Next]_vars

BothColumns == <<b, a>>

TypeOK == StatementTypeOK /\ ViewTypeOK
=============================================================================
