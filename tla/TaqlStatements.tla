--------------------------- MODULE TaqlStatements ---------------------------
(***************************************************************************)
(* taql_execute for one table (src/src/taql.cpp): UPDATE, DELETE, INSERT,  *)
(* ALTER TABLE ADDROW and COUNT run as loops of Table calls.  The process  *)
(* may die between any two of them, and an expression or a cell read may   *)
(* throw in the middle, which ends the statement and undoes nothing.       *)
(*                                                                         *)
(* A WHERE clause is the set of rows it holds for; an expression is a      *)
(* literal, a column of the current row, or Fail, one that throws.         *)
(***************************************************************************)
EXTENDS TableSession, FiniteSetsExt

CONSTANTS
    Statements, \* the statements that are executed
    NoWhere,    \* there is no WHERE clause
    NoLimit,    \* there is no LIMIT clause
    Fail,       \* an expression that throws
    Nothing     \* no statement

VARIABLES
    stmt,       \* the statement that runs, or Nothing
    at,         \* the next row or value list, from 1
    hits,       \* rows to delete
    last        \* the last statement, how it ended, and the rows before it

run == <<stmt, at, hits>>
statementVars == <<file, mem, stmt, at, hits, last>>

Expression == Val \cup Column \cup {Fail}
Assignment == [column : Column, value : Expression]

Statement ==
    [cmd : {"update"}, where : {NoWhere} \cup SUBSET Row, set : Seq(Assignment)]
    \cup [cmd : {"delete"}, where : {NoWhere} \cup SUBSET Row, limit : {NoLimit} \cup Nat]
    \cup [cmd : {"insert"}, columns : Seq(Column), lists : Seq(Seq(Val \cup {Fail}))]
    \cup [cmd : {"alter"}, steps : Seq(Nat \cup {Fail})]
    \cup [cmd : {"count"}, where : {NoWhere} \cup SUBSET Row]

ASSUME TaqlAssumption ==
    /\ Statements \subseteq Statement
    /\ Nothing \notin Statements
    /\ Fail \notin Val \cup Column
    /\ Val \cap Column = {}
    /\ NoLimit \notin Nat

Ends == {"never", "running", "done", "failed", "crashed"}

StatementTypeOK ==
    /\ SessionTypeOK
    /\ stmt \in Statements \cup {Nothing}
    /\ at \in Nat
    /\ hits \in Seq(1..MaxRows)
    /\ last.stmt \in Statements \cup {Nothing}
    /\ last.end \in Ends
    /\ last.shown \in Rows
    /\ last.rows \in Rows
    /\ last.affected \in Nat

NoStatement ==
    [stmt |-> Nothing, end |-> "never", shown |-> <<>>, rows |-> <<>>, affected |-> 0]

----------------------------------------------------------------------------
(* Evaluation.                                                             *)

\* A column is read from the reader, in the row numbers of the file.
CanRead(e, r) == e \in Column => Readable(r)

\* eval_expr for row r: literals as they are, columns as the readers show them.
\* Mutant: columns as the writer has them.
ValueFromWriter(e, r) == IF e \in Column THEN mem[r][e] ELSE e

Value(e, r) == IF e \in Column THEN file[r][e] ELSE e

Evaluates(e, r) == e # Fail /\ CanRead(e, r)

\* The WHERE clause of row r throws, or is false.
WhereThrows(where, r) == where # NoWhere /\ ~Readable(r)

Matches(where, r) == where = NoWhere \/ file[r] \in where

\* The assignments of one row, in order, up to the first that throws.
Assigned(set, r) ==
    LET good == {k \in 0..Len(set) : \A i \in 1..k : Evaluates(set[i].value, r)}
        done == 1..Max(good)
    IN  [c \in Column |->
            LET here == {i \in done : set[i].column = c}
            IN  IF here = {} THEN mem[r][c] ELSE Value(set[Max(here)].value, r)]

AllEvaluate(set, r) == \A i \in DOMAIN set : Evaluates(set[i].value, r)

----------------------------------------------------------------------------
(* The statements.                                                         *)

InitStatements ==
    /\ file \in Rows
    /\ mem = file
    /\ stmt = Nothing
    /\ at = 1
    /\ hits = <<>>
    /\ last = NoStatement

Idle == stmt = Nothing

Begin(s) ==
    /\ Idle
    /\ stmt' = s
    /\ at' = 1
    /\ hits' = <<>>
    /\ last' = [stmt |-> s, end |-> "running", shown |-> file, rows |-> mem, affected |-> 0]
    /\ UNCHANGED table

\* The statement returns, or throws.
End(how) ==
    /\ stmt' = Nothing
    /\ at' = 1
    /\ hits' = <<>>
    /\ last' = [last EXCEPT !.end = how]

\* UPDATE: one row of the loop.
UpdateRow ==
    /\ stmt # Nothing /\ stmt.cmd = "update"
    /\ at <= nrow
    /\ IF WhereThrows(stmt.where, at) THEN
           End("failed") /\ UNCHANGED table
       ELSE IF ~Matches(stmt.where, at) THEN
           /\ at' = at + 1
           /\ UNCHANGED <<table, stmt, hits, last>>
       ELSE
           /\ mem' = [mem EXCEPT ![at] = Assigned(stmt.set, at)]
           /\ UNCHANGED file
           /\ IF AllEvaluate(stmt.set, at)
                  THEN /\ at' = at + 1
                       /\ last' = [last EXCEPT !.affected = @ + 1]
                       /\ UNCHANGED <<stmt, hits>>
                  ELSE End("failed")

UpdateEnd ==
    /\ stmt # Nothing /\ stmt.cmd = "update"
    /\ at > nrow
    /\ IF last.affected > 0 THEN Flush ELSE UNCHANGED table
    /\ End("done")

\* DELETE: the rows are collected first, in the numbers the readers know.
DeleteScan ==
    /\ stmt # Nothing /\ stmt.cmd = "delete"
    /\ at = 1
    /\ IF \E r \in 1..nrow : WhereThrows(stmt.where, r) THEN
           End("failed")
       ELSE
           LET found == InOrder({r \in 1..nrow : Matches(stmt.where, r)})
               kept == IF stmt.limit = NoLimit \/ stmt.limit >= Len(found)
                           THEN found ELSE SubSeq(found, 1, stmt.limit)
           IN  /\ hits' = kept
               /\ at' = 2
               /\ last' = [last EXCEPT !.affected = Len(kept)]
               /\ UNCHANGED stmt
    /\ UNCHANGED table

\* From the back, so that the numbers of the rows still to go stay right.
NextHit == [row |-> Last(hits), rest |-> Front(hits)]

DeleteRow ==
    /\ stmt # Nothing /\ stmt.cmd = "delete"
    /\ at = 2
    /\ hits # <<>>
    /\ IF NextHit.row > nrow THEN
           End("failed") /\ UNCHANGED table
       ELSE
           /\ RemoveRow(NextHit.row)
           /\ hits' = NextHit.rest
           /\ UNCHANGED <<stmt, at, last>>

DeleteEnd ==
    /\ stmt # Nothing /\ stmt.cmd = "delete"
    /\ at = 2
    /\ hits = <<>>
    /\ IF last.affected > 0 THEN Flush ELSE UNCHANGED table
    /\ End("done")

\* INSERT: the cells of one value list, up to the first that throws.
\* Mutant: a value no cell can hold is written.
InsertedRowUnchecked(columns, list) ==
    [c \in Column |->
        LET here == {i \in DOMAIN list : columns[i] = c}
        IN  IF here = {} THEN Blank ELSE list[Max(here)]]

InsertedRow(columns, list) ==
    LET done == 1..Max({k \in 0..Len(list) : \A i \in 1..k : list[i] # Fail})
    IN  [c \in Column |->
            LET here == {i \in done : columns[i] = c}
            IN  IF here = {} THEN Blank ELSE list[Max(here)]]

\* Mutant: the rows are added at once, and filled then.
InsertRowsAdded ==
    /\ stmt # Nothing /\ stmt.cmd = "insert"
    /\ at <= Len(stmt.lists)
    /\ Len(last.rows) + Len(stmt.lists) <= MaxRows
    /\ LET grown == IF at = 1 THEN mem \o [i \in 1..Len(stmt.lists) |-> BlankRow] ELSE mem
       IN  /\ file' = grown
           /\ mem' = [grown EXCEPT ![Len(last.rows) + at] =
                        InsertedRow(stmt.columns, stmt.lists[at])]
    /\ at' = at + 1
    /\ UNCHANGED <<stmt, hits, last>>

\* One value list; add_row flushes what was inserted before it.
InsertRow ==
    LET list == stmt.lists[at]
    IN  /\ stmt # Nothing /\ stmt.cmd = "insert"
        /\ at <= Len(stmt.lists)
        /\ IF Len(list) # Len(stmt.columns) THEN
               End("failed") /\ UNCHANGED table
           ELSE
               /\ nrow < MaxRows
               /\ file' = mem
               /\ mem' = Append(mem, InsertedRow(stmt.columns, list))
               /\ IF Fail \in Range(list)
                      THEN End("failed")
                      ELSE /\ at' = at + 1
                           /\ last' = [last EXCEPT !.affected = @ + 1]
                           /\ UNCHANGED <<stmt, hits>>

InsertEnd ==
    /\ stmt # Nothing /\ stmt.cmd = "insert"
    /\ at > Len(stmt.lists)
    /\ Flush
    /\ End("done")

\* ALTER TABLE: one step; a number is ADDROW, Fail an action that is not
\* supported or an expression that throws.
AlterStep ==
    /\ stmt # Nothing /\ stmt.cmd = "alter"
    /\ at <= Len(stmt.steps)
    /\ IF stmt.steps[at] = Fail THEN
           End("failed") /\ UNCHANGED table
       ELSE
           /\ AddRow(stmt.steps[at])
           /\ at' = at + 1
           /\ last' = [last EXCEPT !.affected = @ + stmt.steps[at]]
           /\ UNCHANGED <<stmt, hits>>

AlterEnd ==
    /\ stmt # Nothing /\ stmt.cmd = "alter"
    /\ at > Len(stmt.steps)
    /\ Flush
    /\ End("done")

\* COUNT changes nothing.
Count ==
    /\ stmt # Nothing /\ stmt.cmd = "count"
    /\ IF \E r \in 1..nrow : WhereThrows(stmt.where, r)
           THEN End("failed")
           ELSE /\ stmt' = Nothing
                /\ at' = 1
                /\ hits' = <<>>
                /\ last' = [last EXCEPT !.end = "done",
                            !.affected = Cardinality({r \in 1..nrow : Matches(stmt.where, r)})]
    /\ UNCHANGED table

StatementStep ==
    \/ UpdateRow \/ UpdateEnd
    \/ DeleteScan \/ DeleteRow \/ DeleteEnd
    \/ InsertRow \/ InsertEnd
    \/ AlterStep \/ AlterEnd
    \/ Count

\* The program works on the Table itself between two statements.
Overtaken == last' = NoStatement

TableCall ==
    /\ Idle
    /\ \/ Flush
       \/ AddRow(1)
       \/ \E r \in 1..MaxRows : RemoveRow(r)
       \/ \E r \in 1..MaxRows, c \in Column, v \in Val : WriteCell(r, c, v)
    /\ Overtaken
    /\ UNCHANGED run

\* The process dies, or the program lets the Table go, and it is opened again.
Crash ==
    /\ Reopen
    /\ stmt' = Nothing
    /\ at' = 1
    /\ hits' = <<>>
    /\ IF last.end = "running" THEN last' = [last EXCEPT !.end = "crashed"] ELSE Overtaken

StatementNext ==
    \/ \E s \in Statements : Begin(s)
    \/ StatementStep
    \/ TableCall
    \/ Crash

StatementSpec == InitStatements /\ [][StatementNext]_statementVars

----------------------------------------------------------------------------
(* Properties.                                                             *)

\* The rows before the last statement, and the readers, knew the same numbers.
Settled == Len(last.shown) = Len(last.rows)

\* What the last statement makes of the rows it found.
OldValue(e, r) == IF e \in Column THEN last.shown[r][e] ELSE e

OldMatch(where, r) == where = NoWhere \/ last.shown[r] \in where

Victims(s) ==
    LET found == {r \in DOMAIN last.rows : OldMatch(s.where, r)}
    IN  {r \in found : s.limit = NoLimit \/ Cardinality({q \in found : q <= r}) <= s.limit}

Updated(s) ==
    [r \in DOMAIN last.rows |->
        IF OldMatch(s.where, r)
            THEN [c \in Column |->
                    LET here == {i \in DOMAIN s.set : s.set[i].column = c}
                    IN  IF here = {} THEN last.rows[r][c] ELSE OldValue(s.set[Max(here)].value, r)]
            ELSE last.rows[r]]

Without(rows, S) ==
    LET stay == InOrder(DOMAIN rows \ S)
    IN  [i \in DOMAIN stay |-> rows[stay[i]]]

Inserted(s, k) == [i \in 1..k |-> InsertedRow(s.columns, s.lists[i])]

\* taql.cpp:3918-4176.  A statement that ran to its end has done to the rows, on
\* disk, what it says, to every row as it was when the statement began, though
\* the loop reads while it writes: an UPDATE that swaps two columns swaps them,
\* a DELETE removes what matched then.  One that affects nothing changes nothing.
StatementsDoWhatTheySay ==
    last.end = "done" /\ Settled =>
        /\ last.stmt.cmd = "update" =>
                IF last.affected = 0 THEN table = <<last.shown, last.rows>>
                ELSE file = Updated(last.stmt)
        /\ last.stmt.cmd = "delete" =>
                IF Victims(last.stmt) = {} THEN table = <<last.shown, last.rows>>
                ELSE file = Without(last.rows, Victims(last.stmt))
        /\ last.stmt.cmd = "insert" =>
                file = last.rows \o Inserted(last.stmt, Len(last.stmt.lists))
        /\ last.stmt.cmd = "alter" =>
                file = last.rows \o [i \in 1..last.affected |-> BlankRow]
        /\ last.stmt.cmd = "count" =>
                /\ table = <<last.shown, last.rows>>
                /\ last.affected = Cardinality({r \in DOMAIN file : OldMatch(last.stmt.where, r)})

\* taql.cpp:3918-3961.  Until something else is done to the table, the disk holds
\* all of an UPDATE or nothing of it, wherever it threw or the process died.
UpdateIsAllOrNothing ==
    last.end \in {"running", "failed", "crashed"} /\ last.stmt.cmd = "update" =>
        file = last.shown

\* taql.cpp:3963-4003.  A DELETE that is interrupted has removed rows it was to
\* remove and no others: every other row is on disk and in the writer, in order.
DeleteTakesOnlyMatches ==
    last.end \in {"running", "failed", "crashed"} /\ last.stmt.cmd = "delete" /\ Settled =>
        \A rows \in {file, mem} :
            \/ rows = last.shown
            \/ \E S \in SUBSET Victims(last.stmt) : rows = Without(last.rows, S)

\* taql.cpp:4036-4091.  Until something else is done to the table, the disk holds
\* the first value lists of an INSERT that was interrupted, each of them whole,
\* though add_row makes a row before its cells are written.
InsertLeavesWholeRows ==
    last.end \in {"running", "failed", "crashed"} /\ last.stmt.cmd = "insert" =>
        \/ file = last.shown
        \/ \E k \in 0..Len(last.stmt.lists) :
              /\ \A i \in 1..k : Len(last.stmt.lists[i]) = Len(last.stmt.columns)
              /\ file = last.rows \o Inserted(last.stmt, k)

\* taql.cpp:3918-4176.  A statement that throws, that has not ended or whose
\* process died has taken effect as far as it got and nowhere else: all of an
\* UPDATE or nothing, rows that a DELETE was to remove, whole rows of an INSERT.
InterruptedStatementsStop ==
    UpdateIsAllOrNothing /\ DeleteTakesOnlyMatches /\ InsertLeavesWholeRows

----------------------------------------------------------------------------
(***************************************************************************)
(* SELECT: rows filtered, sorted, made distinct and cut to a window; rows  *)
(* grouped by key, with HAVING and aggregates; and joins of two tables.  A *)
(* query runs to its end before anything else happens to the table.  Rows  *)
(* are named by their numbers.                                             *)
(***************************************************************************)
CONSTANTS
    Queries,    \* the queries that are executed
    NumberTexts, \* as_string of a column of numbers: value -> characters.  Doubles
                 \* are written with six decimals, so that some look the same
    StringTexts, \* a column of strings, which are written as they are
    Bar          \* the character put after each value of a key

VARIABLE answer     \* the last query and what it returned, or Nothing

TextsOfColumns == NumberTexts \cup StringTexts

Window == [offset : Nat, limit : {NoLimit} \cup Nat]

Query ==
    [kind : {"rows"}, where : {NoWhere} \cup SUBSET Row,
     order : Seq([column : Column, descending : BOOLEAN]),
     distinct : BOOLEAN, project : Seq(Column), window : Window]
    \cup [kind : {"groups"}, where : {NoWhere} \cup SUBSET Row, keys : Seq(Column),
          having : Nat, arg : {Nothing} \cup Column,
          order : Seq([column : Column, descending : BOOLEAN]),
          distinct : BOOLEAN, window : Window]
    \cup [kind : {"join"}, on : SUBSET (Row \X Row), where : SUBSET (Row \X Row),
          window : Window]

ASSUME QueryAssumption ==
    /\ Queries \subseteq Query
    /\ Val \subseteq Nat
    /\ \A text \in TextsOfColumns : DOMAIN text = Val /\ \A v \in Val : text[v] \in Seq(Range(text[v]))
    /\ \A text \in NumberTexts, v \in Val : Bar \notin Range(text[v])

----------------------------------------------------------------------------
(* Filtering, sorting, DISTINCT and the window.                            *)

RowNumbers == [r \in 1..nrow |-> r]

Matching(where) == SelectSeq(RowNumbers, LAMBDA r : Matches(where, r))

\* The comparison ORDERBY sorts with.
Before(order, p, q) ==
    \E i \in DOMAIN order :
        /\ \A j \in 1..(i - 1) : file[p][order[j].column] = file[q][order[j].column]
        /\ LET u == file[p][order[i].column]
               v == file[q][order[i].column]
           IN  IF order[i].descending THEN u > v ELSE u < v

\* std::sort may leave equal rows in any order.
Sortings(rows, order) ==
    IF order = <<>> THEN {rows}
    ELSE {s \in SetToSeqs(Range(rows)) :
            \A i, j \in DOMAIN s : i < j => ~Before(order, s[j], s[i])}

\* The key of a row: the text of each column followed by a bar, which a string may
\* hold as well.
KeyText(r, columns, texts) ==
    FlattenSeq([i \in DOMAIN columns |-> Append(texts[columns[i]][file[r][columns[i]]], Bar)])

DistinctRows(rows, columns, texts) ==
    LET first == {i \in DOMAIN rows : \A j \in 1..(i - 1) :
                    KeyText(rows[j], columns, texts) # KeyText(rows[i], columns, texts)}
        places == SelectSeq([i \in DOMAIN rows |-> i], LAMBDA i : i \in first)
    IN  [i \in DOMAIN places |-> rows[places[i]]]

Cut(s, window) ==
    LET rest == SubSeq(s, window.offset + 1, Len(s))
    IN  IF window.limit = NoLimit \/ window.limit >= Len(rest)
            THEN rest ELSE SubSeq(rest, 1, window.limit)

SelectedRows(q, texts) ==
    {Cut(IF q.distinct /\ q.project # <<>> THEN DistinctRows(s, q.project, texts) ELSE s, q.window) :
        s \in Sortings(Matching(q.where), q.order)}

----------------------------------------------------------------------------
(* Groups and aggregates.                                                  *)

\* The groups in the order of their first rows, the rows of each in order.
Groups(rows, keys, texts) ==
    LET first == DistinctRows(rows, keys, texts)
    IN  [g \in DOMAIN first |->
            SelectSeq(rows, LAMBDA r : KeyText(r, keys, texts) = KeyText(first[g], keys, texts))]

Ascending(vals) == SortSeq(vals, LAMBDA u, v : u < v)

\* eval_aggregate over the values of a group, which is never empty here.  A mean
\* or variance is a fraction, a median is doubled.
Aggregates(vals) ==
    LET n == Len(vals)
        sum == FoldSeq(+, 0, vals)
        squares == FoldSeq(LAMBDA v, acc : v * v + acc, 0, vals)
        true == Len(SelectSeq(vals, LAMBDA v : v # 0))
        s == Ascending(vals)
    IN  [gcount |-> n, gmin |-> Min(Range(vals)), gmax |-> Max(Range(vals)),
         gsum |-> sum, gsumsqr |-> squares,
         gproduct |-> FoldSeq(LAMBDA v, acc : v * acc, 1, vals),
         gmean |-> <<sum, n>>,
         gvariance |-> IF n < 2 THEN <<0, 1>> ELSE <<n * squares - sum * sum, n * (n - 1)>>,
         gmedian |-> IF n % 2 = 0 THEN s[n \div 2] + s[n \div 2 + 1] ELSE 2 * s[n \div 2 + 1],
         gany |-> true > 0, gall |-> true = n, gntrue |-> true, gnfalse |-> n - true,
         gfirst |-> vals[1], glast |-> vals[n]]

\* What is shown of a group: its first row, and the aggregates of a column of
\* numbers, or its count alone.
GroupRow(group, arg) ==
    [row |-> group[1],
     values |-> IF arg = Nothing THEN [gcount |-> Len(group)]
                ELSE Aggregates([i \in DOMAIN group |-> file[group[i]][arg]])]

\* One result row per group of at least "having" rows.  A GROUPBY is done before
\* ORDERBY, DISTINCT and LIMIT are looked at.
\* Mutant: HAVING looks at all rows.
GroupedRowsHavingAll(q, texts) ==
    LET rows == Matching(q.where)
        groups == IF Len(rows) >= q.having THEN Groups(rows, q.keys, texts) ELSE <<>>
    IN  [g \in DOMAIN groups |-> GroupRow(groups[g], q.arg)]

GroupedRows(q, texts) ==
    LET groups == SelectSeq(Groups(Matching(q.where), q.keys, texts), LAMBDA g : Len(g) >= q.having)
    IN  [g \in DOMAIN groups |-> GroupRow(groups[g], q.arg)]

----------------------------------------------------------------------------
(* Joins: the table with itself under two aliases.                         *)

\* The combinations, those of an earlier row of the first table first; each is
\* extended by every row of the second, filtered by ON, then by WHERE.

JoinedRows(q) ==
    LET product == FlattenSeq([i \in 1..nrow |-> [j \in 1..nrow |-> <<i, j>>]])
        joined == SelectSeq(product, LAMBDA p : <<file[p[1]], file[p[2]]>> \in q.on)
    IN  Cut(SelectSeq(joined, LAMBDA p : <<file[p[1]], file[p[2]]>> \in q.where), q.window)

----------------------------------------------------------------------------
\* The rows whose cells a query reads; one the readers do not have throws.
RowsRead(q) ==
    IF \/ q.kind # "rows"
       \/ q.where # NoWhere
       \/ q.order # <<>> /\ nrow > 1
       \/ q.distinct /\ q.project # <<>>
    THEN 1..nrow
    ELSE Range(Cut(RowNumbers, q.window))

Results(q, texts) ==
    CASE q.kind = "rows" -> SelectedRows(q, texts)
      [] q.kind = "groups" -> {GroupedRows(q, texts)}
      [] q.kind = "join" -> {JoinedRows(q)}

\* The columns whose values become text.
KeyColumns(q) ==
    CASE q.kind = "rows" /\ q.distinct -> Range(q.project)
      [] q.kind = "groups" -> Range(q.keys)
      [] OTHER -> {}

\* What the columns hold; only numbers are added up.
Select(q) ==
    /\ Idle
    /\ answer = Nothing
    /\ \E texts \in [KeyColumns(q) -> TextsOfColumns] :
          /\ q.kind = "groups" /\ q.arg \in DOMAIN texts => texts[q.arg] \in NumberTexts
          /\ IF \A r \in RowsRead(q) : Readable(r)
                 THEN \E rows \in Results(q, texts) :
                          answer' = [query |-> q, texts |-> texts, end |-> "done", rows |-> rows]
                 ELSE answer' = [query |-> q, texts |-> texts, end |-> "failed", rows |-> <<>>]
    /\ UNCHANGED statementVars

----------------------------------------------------------------------------
(* Properties.                                                             *)

Answered(kind) == answer # Nothing /\ answer.end = "done" /\ answer.query.kind = kind

Projected(r, columns) == [i \in DOMAIN columns |-> file[r][columns[i]]]

\* Keys tell rows apart unless two values of a column look the same in six decimals,
\* or bars in the strings of two columns may be taken for the ones between them.
KeysTell(columns, texts) ==
    /\ \A c \in Range(columns) : IsInjective(texts[c])
    /\ Cardinality({i \in DOMAIN columns :
                       \E v \in Val : Bar \in Range(texts[columns[i]][v])}) <= 1

\* The rows that DISTINCT and GROUPBY take for the same: those with the same values,
\* or, where keys do not tell them, with the same text.
TakenForSame(p, r, columns, texts) ==
    IF KeysTell(columns, texts) THEN Projected(p, columns) = Projected(r, columns)
    ELSE KeyText(p, columns, texts) = KeyText(r, columns, texts)

\* How many of the rows are not taken for one another.
Different(rows, columns, texts) ==
    Cardinality({{p \in rows : TakenForSame(p, r, columns, texts)} : r \in rows})

Size(n, window) ==
    LET rest == IF n > window.offset THEN n - window.offset ELSE 0
    IN  IF window.limit = NoLimit \/ window.limit > rest THEN rest ELSE window.limit

\* taql.cpp:3798-3856.  The rows a SELECT returns all match, come in the order
\* asked for, and with DISTINCT no two show the same values; as many are
\* returned as the window leaves of the rows, or distinct values, that match;
\* and no row that was left out because of LIMIT comes before one returned.
\* DISTINCT also leaves out rows whose values differ, but only where their keys do
\* not tell: one that has the same text is there instead.
SelectReturnsTheRows ==
    Answered("rows") =>
        LET q == answer.query
            rows == answer.rows
            found == {r \in 1..nrow : q.where = NoWhere \/ file[r] \in q.where}
            distinct == q.distinct /\ q.project # <<>>
            shown == {Projected(r, q.project) : r \in Range(rows)}
        IN  /\ Range(rows) \subseteq found
            /\ \A i, j \in DOMAIN rows : i < j =>
                IF q.order = <<>> THEN rows[i] < rows[j] ELSE ~Before(q.order, rows[j], rows[i])
            /\ distinct => Cardinality(shown) = Len(rows)
            /\ Len(rows) = Size(IF distinct THEN Different(found, q.project, answer.texts)
                                ELSE Cardinality(found), q.window)
            /\ q.window.offset = 0 /\ q.order # <<>> => \A r \in found : \A i \in DOMAIN rows :
                Before(q.order, r, rows[i]) =>
                    \/ r \in Range(rows)
                    \/ distinct /\ \E k \in DOMAIN rows :
                                      TakenForSame(r, rows[k], q.project, answer.texts)

\* taql.cpp:3737-3796.  GROUPBY puts every matching row in one group with all
\* rows of the same values and no other (where keys tell them: else with those of
\* the same text), HAVING keeps the groups that are large enough, and each is
\* shown by its first row and by aggregates of its own rows, in the order of these
\* first rows and all of them, whatever ORDERBY, DISTINCT and LIMIT say.
GroupsAreKeyClasses ==
    Answered("groups") =>
        LET q == answer.query
            found == {r \in 1..nrow : q.where = NoWhere \/ file[r] \in q.where}
            like(r) == {p \in found : TakenForSame(p, r, q.keys, answer.texts)}
            kept == {r \in found : Cardinality(like(r)) >= q.having}
        IN  /\ {g.row : g \in Range(answer.rows)} = {Min(like(r)) : r \in kept}
            /\ \A i, j \in DOMAIN answer.rows : i < j => answer.rows[i].row < answer.rows[j].row
            /\ \A g \in Range(answer.rows) :
                LET class == like(g.row)
                IN  /\ g.values.gcount = Cardinality(class)
                    /\ q.arg # Nothing =>
                        /\ g.values.gsum = MapThenSumSet(LAMBDA r : file[r][q.arg], class)
                        /\ g.values.gfirst = file[Min(class)][q.arg]
                        /\ g.values.glast = file[Max(class)][q.arg]
                        /\ g.values.gntrue + g.values.gnfalse = Cardinality(class)

\* taql.cpp:4252-4333.  A join returns, of all pairs of rows for which ON and
\* WHERE hold, the ones the window leaves, each once and in the order of the
\* rows of the first table and then of the second.
JoinReturnsThePairs ==
    Answered("join") =>
        LET q == answer.query
            n == nrow
            found == {p \in (1..n) \X (1..n) : <<file[p[1]], file[p[2]]>> \in q.on \cap q.where}
            rank(p) == Cardinality({o \in found : o[1] < p[1] \/ (o[1] = p[1] /\ o[2] < p[2])})
        IN  /\ Len(answer.rows) = Size(Cardinality(found), q.window)
            /\ \A i \in DOMAIN answer.rows :
                answer.rows[i] \in found /\ rank(answer.rows[i]) = q.window.offset + i - 1

\* What a SELECT or a join returns is what it asks for, but for values whose keys
\* do not tell them apart and the clauses that GROUPBY leaves alone.
AnswersAreTheQuery == SelectReturnsTheRows /\ GroupsAreKeyClasses /\ JoinReturnsThePairs
=============================================================================
