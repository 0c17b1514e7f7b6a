----------------------------- MODULE TaqlSyntax -----------------------------
(***************************************************************************)
(* TaQL as it is written: the text of a statement, with no parentheses but *)
(* those the precedence of the operators asks for, against which the       *)
(* parser is checked.  A query grows by an operator around its expression  *)
(* or by a clause with that expression; each growth is parsed.             *)
(***************************************************************************)
EXTENDS TaqlParser

CONSTANTS
    Parse(_),       \* taql_parse
    MaxOperators,   \* around each other
    MaxClauses      \* of a statement, besides those it cannot do without

VARIABLES
    query,          \* the TaqlAst of the statement, if there is one
    expr,           \* the expression in its clauses
    operators,      \* around each other in expr
    clauses         \* added so far

syntaxVars == <<query, expr, operators, clauses>>

----------------------------------------------------------------------------
(* The text of an expression.                                              *)

Symbols ==
    "logical_or" :> <<"OR">> @@ "logical_and" :> <<"AND">> @@ "logical_not" :> <<"NOT">>
    @@ "eq" :> <<"=">> @@ "ne" :> <<"!", "=">> @@ "lt" :> <<"<">> @@ "le" :> <<"<", "=">>
    @@ "gt" :> <<">">> @@ "ge" :> <<">", "=">> @@ "near_eq" :> <<"~", "=">>
    @@ "not_near_eq" :> <<"!", "~", "=">> @@ "like" :> <<"LIKE">> @@ "ilike" :> <<"ILIKE">>
    @@ "not_like" :> <<"NOT", " ", "LIKE">> @@ "in_set" :> <<"IN">>
    @@ "not_in_set" :> <<"NOT", " ", "IN">> @@ "between" :> <<"BETWEEN">>
    @@ "not_between" :> <<"NOT", " ", "BETWEEN">> @@ "tilde" :> <<"~">> @@ "not_regex" :> <<"!", "~">>
    @@ "around" :> <<"AROUND">> @@ "incone" :> <<"INCONE">> @@ "exists" :> <<"EXISTS">>
    @@ "bit_or" :> <<"|">> @@ "bit_xor" :> <<"^">> @@ "bit_and" :> <<"&">> @@ "plus" :> <<"+">>
    @@ "minus" :> <<"-">> @@ "star" :> <<"*">> @@ "slash" :> <<"/">> @@ "int_divide" :> <<"/", "/">>
    @@ "percent" :> <<"%">> @@ "power" :> <<"*", "*">> @@ "negate" :> <<"-">> @@ "bit_not" :> <<"~">>
Alternatives ==
    "logical_or" :> <<"|", "|">> @@ "logical_and" :> <<"&", "&">> @@ "logical_not" :> <<"!">>
    @@ "eq" :> <<"=", "=">> @@ "ne" :> <<"<", ">">>
Symbol(op, other) ==
    <<" ">> \o (IF other /\ op \in DOMAIN Alternatives THEN Alternatives[op] ELSE Symbols[op]) \o <<" ">>

Between(texts, separator) == FlattenSeq([i \in DOMAIN texts |->
                                IF i = 1 THEN texts[i] ELSE separator \o texts[i]])
Commas(texts) == Between(texts, <<",", " ">>)

\* How strong an operator binds, by the table that SHOW OPERATORS gives
\* (taql.cpp:1933-1945), and how strong its operands must bind: all of them in the
\* weaker case, those behind the first.  A sign behind an operator needs no
\* parentheses, one behind a sign has them.
Binary == {"logical_op", "binary_op", "comparison", "like_expr", "between_expr", "around_expr",
           "regex_expr"}
Strength(n) ==
    CASE n.unit # <<>> -> 12
      [] n.op = "logical_or" -> 1 [] n.op = "logical_and" -> 2 [] n.op = "logical_not" -> 3
      [] n.op = "bit_or" -> 5 [] n.op = "bit_xor" -> 6 [] n.op = "bit_and" -> 7
      [] n.type = "binary_op" /\ n.op \in {"plus", "minus"} -> 8
      [] n.op \in {"star", "slash", "int_divide", "percent"} -> 9
      [] n.type = "unary_op" -> 10
      [] n.op = "power" -> 11
      [] n.type \in Binary \cup {"in_expr", "cone_expr", "exists_expr"} -> 4
      [] n.type = "subscript" -> 13
      [] OTHER -> 14
LeftOperand(n) == CASE n.op = "power" -> 12 [] Strength(n) = 4 -> 5 [] OTHER -> Strength(n)
RightOperand(n) ==
    CASE n.op = "power" -> 10 [] n.type = "regex_expr" -> 14 [] OTHER -> Strength(n) + 1

RECURSIVE Text(_, _, _)
Text(n, strength, other) ==
    LET child(i, s) == Text(n.children[i], s, other)
        all(s, from) == [i \in 1..(Len(n.children) - from + 1) |-> child(i + from - 1, s)]
        plain == [n EXCEPT !.unit = <<>>]
        \* A column is all that may begin an element of [...] with a name.
        element(i) == child(i, IF n.children[i].type = "column_ref" /\ Len(n.children[i].name) = 1
                               THEN 14 ELSE 15)
        set(m) == LET texts == Commas([i \in DOMAIN m.children |-> Text(m.children[i], 1, other)])
                  IN  IF m.range_incl = "closed" THEN <<"[">> \o texts \o <<"]">>
                      ELSE <<"(">> \o texts \o <<")">>
        text ==
          CASE n.unit # <<>> -> Text(plain, 13, other) \o <<" ">> \o n.unit
            [] n.type = "unary_op" ->
                 Symbol(n.op, other) \o child(1, IF n.op = "logical_not" THEN 4 ELSE 11)
            [] n.type = "between_expr" ->
                 child(1, 5) \o Symbol(n.op, other) \o Between(all(5, 2), <<" ", "AND", " ">>)
            [] n.type = "around_expr" ->
                 child(1, 5) \o Symbol(n.op, other) \o Between(all(5, 2), <<" ", "IN", " ">>)
            [] n.type \in Binary ->
                 child(1, LeftOperand(n)) \o Symbol(n.op, other) \o child(2, RightOperand(n))
            [] n.type \in {"in_expr", "cone_expr"} ->
                 child(1, 5) \o Symbol(n.op, other) \o set(n.children[2])
            [] n.type = "exists_expr" -> child(1, 5) \o Symbol(n.op, other)
            [] n.type = "subscript" -> child(1, 13) \o <<"[">> \o Commas(all(1, 2)) \o <<"]">>
            [] n.type = "range_expr" -> Between(all(1, 1), <<":">>)
            [] n.type = "set_expr" ->
                 <<"[">> \o Commas([i \in DOMAIN n.children |-> element(i)]) \o <<"]">>
            [] n.type = "record_literal" -> <<"[">> \o Commas(all(1, 1)) \o <<"]">>
            [] n.type = "field" -> n.name \o <<"=">> \o child(1, 1)
            [] n.type = "iif_expr" -> <<"IIF", "(">> \o Commas(all(1, 1)) \o <<")">>
            [] n.type \in {"func_call", "aggregate_call"} ->
                 n.name \o <<"(">> \o Commas(all(1, 1)) \o <<")">>
            [] n.type = "wildcard" -> <<"*">>
            [] n.op = "string_lit" -> <<"'">> \o n.name \o <<"'">>
            [] OTHER -> n.name
    IN  IF Strength(n) < strength THEN <<"(">> \o text \o <<")">> ELSE text

----------------------------------------------------------------------------
(* The text of a statement.                                                *)

\* A clause that may be left out.
Optional(items, keywords, texts) ==
    IF items = <<>> THEN <<>> ELSE keywords \o <<" ">> \o texts \o <<" ">>

TableText(t) == t.name \o (IF t.shorthand = <<>> THEN <<>> ELSE <<" ", "AS", " ">> \o t.shorthand)
Tables(ts) == Commas([i \in DOMAIN ts |-> TableText(ts[i])])

QueryText(q, other) ==
    LET E(e) == Text(e, 1, other)
        Exprs(es) == Commas([i \in DOMAIN es |-> E(es[i])])
        projection(p) == E(p.expr) \o (IF p.alias = <<>> THEN <<>>
                                       ELSE <<" ", "AS", " ">> \o p.alias \o <<" ">> \o p.data_type)
        projections == Commas([i \in DOMAIN q.projections |-> projection(q.projections[i])]) \o <<" ">>
        from == Optional(q.tables, <<"FROM">>, Tables(q.tables))
        where == Optional(q.where_expr, <<"WHERE">>, Exprs(q.where_expr))
        key(k) == E(k.expr) \o (CASE k.order = "descending" -> <<" ", "DESC">>
                                  [] other -> <<" ", "ASC">> [] OTHER -> <<>>)
        order == Optional(q.order_by, (IF other THEN <<"ORDER", " ", "BY">> ELSE <<"ORDERBY">>)
                                      \o (IF q.order_distinct = <<>> THEN <<>> ELSE <<" ", "DISTINCT">>),
                          Commas([i \in DOMAIN q.order_by |-> key(q.order_by[i])]))
        limits == Optional(q.limit_expr, <<"LIMIT">>, Exprs(q.limit_expr))
                  \o Optional(q.offset_expr, <<"OFFSET">>, Exprs(q.offset_expr))
        join(j) == <<"JOIN", " ">> \o TableText(j.table) \o <<" ">>
                   \o Optional(j.on_expr, <<"ON">>, Exprs(j.on_expr))
        dminfo == Optional(q.dminfo, <<"DMINFO">>, Exprs(q.dminfo))
        select ==
          Optional(q.with_tables, <<"WITH">>, Tables(q.with_tables))
          \o <<"SELECT", " ">>
          \o (CASE q.select_distinct # <<>> -> <<"DISTINCT", " ">>
                [] other -> <<"ALL", " ">> [] OTHER -> <<>>)
          \o projections \o from \o FlattenSeq([i \in DOMAIN q.joins |-> join(q.joins[i])]) \o where
          \o Optional(q.group_by, (IF other THEN <<"GROUP", " ", "BY">> ELSE <<"GROUPBY">>)
                                  \o (IF q.has_rollup = <<>> THEN <<>> ELSE <<" ", "ROLLUP">>),
                      Exprs(q.group_by))
          \o Optional(q.having_expr, <<"HAVING">>, Exprs(q.having_expr))
          \o order \o limits
          \o Optional(q.giving_table, IF other THEN <<"INTO">> ELSE <<"GIVING">>,
                      Tables(q.giving_table))
          \o dminfo
        indices(a) == IF a.indices = <<>> THEN <<>> ELSE <<"[">> \o Exprs(a.indices) \o <<"]">>
        assignment(a) ==
          (IF a.mask_column = <<>> THEN a.column \o indices(a)
           ELSE <<"(">> \o a.column \o <<",">> \o a.mask_column \o <<")">>) \o <<"=">> \o E(a.value)
        row(es) == <<"(">> \o Exprs(es) \o <<")">>
        pair(name, e) == name \o <<"=">> \o E(e)
        number(property, name) == Optional(property, name \o <<"=">>, property)
        column(c) ==
          c.name \o <<" ">> \o c.data_type \o <<" ">>
          \o number(c.NDIM, <<"NDIM">>) \o number(c.UNIT, <<"UNIT">>)
          \o Optional(c.SHAPE, <<"SHAPE", "=">>, <<"[">> \o Commas(c.SHAPE) \o <<"]">>)
        columns(cs) == Commas([i \in DOMAIN cs |-> column(cs[i])])
        renames(rs) == Commas([i \in DOMAIN rs |-> rs[i][1] \o <<" ", "TO", " ">> \o rs[i][2]])
        step(t) ==
          (CASE t.action = "add_column" -> (IF other THEN <<"ADD", " ", "COLUMN">> ELSE <<"ADDCOL">>)
                                           \o <<"(">> \o columns(t.items) \o <<")">>
             [] t.action = "copy_column" -> <<"COPYCOL", " ">> \o renames(t.items)
             [] t.action = "rename_column" -> <<"RENAMECOL", " ">> \o renames(t.items)
             [] t.action = "drop_column" -> <<"DROPCOL", " ">> \o Commas(t.items)
             [] t.action = "set_keyword" ->
                  (IF other THEN <<"SET", " ", "KEYWORD", " ">> ELSE <<"SETKEY", " ">>)
                  \o Commas([i \in DOMAIN t.items |-> pair(t.items[i][1], t.items[i][2])])
             [] t.action = "copy_keyword" -> <<"COPYKEY", " ">> \o renames(t.items)
             [] t.action = "rename_keyword" -> <<"RENAMEKEY", " ">> \o renames(t.items)
             [] t.action = "drop_keyword" -> <<"DROPKEY", " ">> \o Commas(t.items)
             [] OTHER -> <<"ADDROW", " ">> \o Exprs(t.items)) \o <<" ">>
        values ==
          IF other /\ Len(q.insert_values) = 1 /\ Len(q.insert_columns) = Len(q.insert_values[1])
          THEN <<"SET", " ">> \o Commas([i \in DOMAIN q.insert_columns |->
                                   pair(q.insert_columns[i], q.insert_values[1][i])])
          ELSE Optional(q.insert_columns, <<>>, <<"[">> \o Commas(q.insert_columns) \o <<"]">>)
               \o <<"VALUES", " ">> \o Commas([i \in DOMAIN q.insert_values |-> row(q.insert_values[i])])
    IN  Optional(q.timing, <<"TIMING">>, <<>>) \o Optional(q.style, <<"STYLE">>, Commas(q.style))
        \o CASE q.command = "select_cmd" -> select
             [] q.command = "update_cmd" ->
                  <<"UPDATE", " ">> \o TableText(q.tables[1]) \o <<" ", "SET", " ">>
                  \o Commas([i \in DOMAIN q.assignments |-> assignment(q.assignments[i])]) \o <<" ">>
                  \o Optional(Tail(q.tables), <<"FROM">>, Tables(Tail(q.tables))) \o where \o order \o limits
             [] q.command = "insert_cmd" ->
                  <<"INSERT", " ", "INTO", " ">> \o Tables(q.tables) \o <<" ">> \o values \o <<" ">> \o limits
             [] q.command = "delete_cmd" -> <<"DELETE", " ">> \o from \o where \o order \o limits
             [] q.command = "count_cmd" -> <<"COUNT", " ">> \o projections \o from \o where
             [] q.command = "calc_cmd" -> <<"CALC", " ">> \o Exprs(q.calc_expr) \o <<" ">> \o from
             [] q.command = "create_table_cmd" ->
                  <<"CREATE", " ", "TABLE", " ">> \o Tables(q.tables) \o <<" ">>
                  \o Optional(q.like_table, <<"LIKE">>, Commas(q.like_table))
                  \o Optional(q.like_drop_columns, <<"DROP", " ", "COLUMN">>, Commas(q.like_drop_columns))
                  \o Optional(q.create_columns, <<>>, <<"(">> \o columns(q.create_columns) \o <<")">>)
                  \o limits \o dminfo
             [] q.command = "alter_table_cmd" ->
                  <<"ALTER", " ", "TABLE", " ">> \o Tables(q.tables) \o <<" ">>
                  \o FlattenSeq([i \in DOMAIN q.alter_steps |-> step(q.alter_steps[i])])
             [] q.command = "drop_table_cmd" -> <<"DROP", " ", "TABLE", " ">> \o Commas(q.drop_tables)
             [] OTHER -> <<"SHOW", " ">> \o q.show_topic

----------------------------------------------------------------------------
(* Queries that grow.                                                      *)

Column(name) == Node("column_ref", "", name, <<>>)
Literal(type, text) == Node("literal", type, text, <<>>)
A == Column(<<"A">>)
One1 == Literal("integer_lit", <<"1">>)
Atoms == {A, One1, Column(<<"T1", ".", "B">>), Literal("float_lit", <<"1", ".", "5">>),
          Literal("string_lit", <<"B">>), Literal("regex_lit", <<"p", "/", "B", "/">>),
          Literal("", <<"TRUE">>), Node("keyword_ref", "", <<"T1", ":", ":", "B">>, <<>>)}

Twos(type, ops, e) == UNION {{Op(type, op, <<e, A>>), Op(type, op, <<A, e>>)} : op \in ops}
SetOf(incl, e) == [Op("set_expr", "", <<One1, e>>) EXCEPT !.range_incl = incl]
Bounds(bounds) == Op("range_expr", "", bounds)
Around(e) ==
    Twos("logical_op", {"logical_or", "logical_and"}, e)
    \cup Twos("comparison", Comparisons, e)
    \cup Twos("like_expr", {"like", "not_like", "ilike"}, e)
    \cup Twos("regex_expr", {"tilde", "not_regex"}, e)
    \cup Twos("binary_op", {"bit_or", "bit_xor", "bit_and", "plus", "minus", "star", "slash",
                            "int_divide", "percent", "power"}, e)
    \cup {Op("unary_op", op, <<e>>) : op \in {"logical_not", "negate", "bit_not"}}
    \cup {Op("between_expr", op, es) : op \in {"between", "not_between"},
                                       es \in {<<e, A, A>>, <<A, e, A>>, <<A, A, e>>}}
    \cup {Op("around_expr", "around", es) : es \in {<<e, A>>, <<A, e, A>>, <<A, A, e>>}}
    \cup {Op("in_expr", op, <<e, SetOf("closed", A)>>) : op \in {"in_set", "not_in_set"}}
    \cup {Op("in_expr", "in_set", <<A, SetOf(incl, e)>>) : incl \in {"closed", "left_open"}}
    \cup {Op("cone_expr", "incone", <<e, SetOf("closed", A)>>), Op("exists_expr", "exists", <<e>>),
          Op("subscript", "", <<e, A>>), Op("subscript", "", <<A, e, One1>>),
          Op("subscript", "", <<A, Bounds(<<e, One1>>)>>), Op("subscript", "", <<A, Bounds(<<One1, A, e>>)>>),
          Node("func_call", "", <<"B">>, <<A, e>>), Node("aggregate_call", "", <<"GMAX">>, <<e>>),
          Node("iif_expr", "", <<>>, <<A, e, One1>>), SetOf("closed", e),
          Op("record_literal", "", <<Node("field", "", <<"B">>, <<e>>), Node("field", "", <<"A">>, <<A>>)>>)}
    \cup (IF e.unit = <<>> THEN {[e EXCEPT !.unit = <<"KM">>]} ELSE {})

T1 == TableRef(<<"T1">>, <<>>)
T2 == TableRef(<<"T1", ":", ":", "B">>, <<"A">>)
Calc(e) == [TaqlAst("calc_cmd") EXCEPT !.calc_expr = <<e>>]
Beginning(e) ==
    {[TaqlAst("select_cmd") EXCEPT !.tables = <<T1>>],
     [TaqlAst("update_cmd") EXCEPT !.tables = <<T1>>,
                                   !.assignments = <<Assignment(<<"A">>, <<>>, <<>>, e)>>],
     [TaqlAst("insert_cmd") EXCEPT !.tables = <<T1>>, !.insert_columns = <<<<"A">>, <<"B">>>>,
                                   !.insert_values = <<<<A, e>>>>],
     [TaqlAst("delete_cmd") EXCEPT !.tables = <<T1>>], [TaqlAst("count_cmd") EXCEPT !.tables = <<T1>>],
     Calc(e),
     [TaqlAst("create_table_cmd") EXCEPT !.tables = <<T1>>],
     [TaqlAst("alter_table_cmd") EXCEPT !.tables = <<T1>>],
     [TaqlAst("drop_table_cmd") EXCEPT !.drop_tables = <<<<"T1">>, <<"B">>>>],
     [TaqlAst("show_cmd") EXCEPT !.show_topic = <<"TABLE">>]}

Keyed == {"select_cmd", "update_cmd", "delete_cmd"}
Limited == Keyed \cup {"insert_cmd", "create_table_cmd"}
Projection(e, alias, type) == [expr |-> e, alias |-> alias, data_type |-> type]
NewColumn == [ColumnDef(<<"B">>, <<"INT">>) EXCEPT !.NDIM = <<"2">>, !.SHAPE = <<<<"2">>, <<"1">>>>,
                                                   !.UNIT = <<"KM">>]

Steps(e) ==
    LET pairs == <<<<<<"A">>, <<"B">>>>, <<<<"B">>, <<"A">>>>>>
    IN  <<AlterStep("add_column", <<NewColumn, ColumnDef(<<"A">>, <<"INT">>)>>),
          AlterStep("copy_column", pairs), AlterStep("rename_column", pairs),
          AlterStep("drop_column", pairs[1]), AlterStep("set_keyword", <<<<<<"A">>, e>>, <<<<"B">>, A>>>>),
          AlterStep("copy_keyword", pairs), AlterStep("rename_keyword", pairs),
          AlterStep("drop_keyword", pairs[1]), AlterStep("add_row", <<e>>)>>

\* The commands that a clause, or one more item of it, may be added to.
Addable(e) ==
    <<<<Keyed \cup {"count_cmd"}, "where_expr", e>>, <<Keyed, "order_by", SortKey(e, "descending")>>,
     <<Keyed, "order_by", SortKey(e, "ascending")>>, <<Limited, "limit_expr", e>>,
     <<Limited, "offset_expr", e>>, <<{"update_cmd", "calc_cmd", "select_cmd"}, "tables", T2>>,
     <<{"select_cmd", "count_cmd"}, "projections", Projection(e, <<>>, <<>>)>>,
     <<{"select_cmd"}, "projections", Projection(Op("wildcard", "", <<>>), <<>>, <<>>)>>,
     <<{"select_cmd"}, "projections", Projection(e, <<"B">>, <<"INT">>)>>,
     <<{"select_cmd"}, "with_tables", T2>>, <<{"select_cmd"}, "select_distinct", TRUE>>,
     <<{"select_cmd"}, "joins", [table |-> T2, on_expr |-> <<e>>]>>, <<{"select_cmd"}, "group_by", e>>,
     <<{"select_cmd"}, "having_expr", e>>, <<{"select_cmd"}, "giving_table", T1>>,
     <<{"select_cmd", "create_table_cmd"}, "dminfo", SetOf("closed", e)>>,
     <<{"update_cmd"}, "assignments", Assignment(<<"B">>, <<"A">>, <<>>, e)>>,
     <<{"update_cmd"}, "assignments", Assignment(<<"B">>, <<>>, <<e, A>>, e)>>,
     <<{"insert_cmd"}, "insert_values", <<e, A>>>>,
     <<{"create_table_cmd"}, "create_columns", NewColumn>>,
     <<{"create_table_cmd"}, "like_table", <<"T1">>>>,
      <<{"select_cmd"}, "style", <<"B">>>>, <<{q.command : q \in Beginning(e)}, "timing", TRUE>>>>
    \o [i \in DOMAIN Steps(e) |-> <<{"alter_table_cmd"}, "alter_steps", Steps(e)[i]>>]

\* What there is one of, and what needs something else.
Once == {"where_expr", "limit_expr", "offset_expr", "having_expr", "giving_table", "dminfo",
         "select_distinct", "order_distinct", "has_rollup", "like_table", "timing", "style"}

SyntaxInit ==
    /\ operators = 0 /\ clauses = 0
    /\ \/ expr \in Atoms /\ query = Calc(expr)
       \/ expr = Op("logical_op", "logical_or", <<A, One1>>) /\ query \in Beginning(expr)

\* CALC has nothing but an expression.
Grow ==
    /\ query = Calc(expr) /\ operators < MaxOperators
    /\ expr' \in Around(expr) /\ query' = Calc(expr')
    /\ operators' = operators + 1
    /\ UNCHANGED clauses

Add ==
    /\ operators = 0 /\ clauses < MaxClauses
    /\ \E i \in DOMAIN Addable(expr) :
          LET add == Addable(expr)[i] IN
          /\ query.command \in add[1]
          /\ add[2] \in Once => query[add[2]] = <<>>
          /\ query' = [query EXCEPT ![add[2]] = Append(@, add[3])]
    /\ clauses' = clauses + 1
    /\ UNCHANGED <<expr, operators>>

\* Words behind a clause.
Distinguish ==
    /\ \/ query.order_by # <<>> /\ query.command = "select_cmd" /\ query.order_distinct = <<>>
          /\ query' = [query EXCEPT !.order_distinct = <<TRUE>>]
       \/ query.group_by # <<>> /\ query.has_rollup = <<>>
          /\ query' = [query EXCEPT !.has_rollup = <<TRUE>>]
       \/ query.like_table # <<>> /\ query.like_drop_columns = <<>>
          /\ query' = [query EXCEPT !.like_drop_columns = <<<<"A">>, <<"B">>>>]
    /\ UNCHANGED <<expr, operators, clauses>>

SyntaxNext == Grow \/ Add \/ Distinguish

----------------------------------------------------------------------------
(* Properties.                                                             *)

\* The one place where the parser does not follow that table: a sign in front of a
\* power is the sign of its base, -a**b the power of -a (parse_power, taql.cpp:1523).
SignOfPower(n) ==
    /\ n.type = "unary_op" /\ n.op \in {"negate", "bit_not"}
    /\ n.children[1].op = "power" /\ n.children[1].unit = <<>>
RECURSIVE WithSignsOnBases(_)
WithSignsOnBases(n) ==
    LET children == [i \in DOMAIN n.children |-> WithSignsOnBases(n.children[i])]
        power == children[1].children
    IN  IF SignOfPower(n)
        THEN [children[1] EXCEPT !.unit = n.unit,
                                 !.children = <<Op("unary_op", n.op, <<power[1]>>), power[2]>>]
        ELSE [n EXCEPT !.children = children]
AsParsed(q) == [q EXCEPT !.calc_expr = [i \in DOMAIN @ |-> WithSignsOnBases(@[i])]]

\* A statement is parsed to what it says: with each operator around the operands
\* that the documented precedence and its side give it (a sign in front of a power
\* apart, which goes to the base), with every clause it has and no other, however
\* its operators and keywords are spelled, and to its end.
StatementsParse ==
    query # <<>> => \A other \in BOOLEAN :
       Parse(QueryText(query, other)) = [ok |-> TRUE, ast |-> AsParsed(query), unread |-> <<>>]
=============================================================================
