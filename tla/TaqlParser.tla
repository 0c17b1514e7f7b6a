------------------------------ MODULE TaqlParser ------------------------------
(***************************************************************************)
(* The lexer and the parser of TaQL (src/src/taql.cpp).  The text of a     *)
(* query is a sequence of pieces: a character, or letters that only ever   *)
(* stand together, such as a keyword.  Upper and lower case are one.  The  *)
(* lexer makes tokens of the pieces, each with its type and its text, and  *)
(* the parser makes a TaqlAst of the tokens: keywords are identifiers, and *)
(* a name is the sequence of the texts that the parser joins.              *)
(***************************************************************************)
EXTENDS Cursors

CONSTANTS
    Letters,    \* the pieces that are letters
    Digits      \* the pieces that are digits

Blanks == {" ", "\t", "\n"}
HexDigits == Digits \cup (Letters \cap {"a", "b", "c", "d", "e", "f"})

Piece(s, at) == IF at \in DOMAIN s THEN s[at] ELSE ""

\* The first place from one on whose piece is in the set, or is not.
Upto(s, at, set) == Min({Len(s) + 1} \cup {i \in at..Len(s) : s[i] \in set})
Past(s, at, set) == Min({Len(s) + 1} \cup {i \in at..Len(s) : s[i] \notin set})

Token(type, text, value) == [type |-> type, text |-> text, value |-> value]

\* A token of the pieces from the cursor up to a place; its value is its text.
Lexeme(s, c, end, type) ==
    LET text == SubSeq(s, c.at, end - 1)
    IN  [c EXCEPT !.at = end, !.value = Token(type, text, text)]

TwoOrMore ==
    <<"*", "*">> :> "power" @@ <<"/", "/">> :> "int_divide" @@ <<"=", "=">> :> "eq"
    @@ <<"!", "=">> :> "ne" @@ <<"<", ">">> :> "ne" @@ <<"<", "=">> :> "le"
    @@ <<">", "=">> :> "ge" @@ <<":", ":">> :> "double_colon" @@ <<"~", "=">> :> "near_eq"
    @@ <<"!", "~">> :> "not_regex" @@ <<"!", "~", "=">> :> "not_near_eq"

Single ==
    "+" :> "plus" @@ "-" :> "minus" @@ "*" :> "star" @@ "/" :> "slash" @@ "%" :> "percent"
    @@ "&" :> "ampersand" @@ "|" :> "pipe" @@ "^" :> "caret" @@ "~" :> "tilde" @@ "!" :> "bang"
    @@ "=" :> "eq" @@ "<" :> "lt" @@ ">" :> "gt" @@ "(" :> "lparen" @@ ")" :> "rparen"
    @@ "[" :> "lbracket" @@ "]" :> "rbracket" @@ "{" :> "lbrace" @@ "}" :> "rbrace"
    @@ "," :> "comma" @@ "." :> "dot" @@ ":" :> "colon" @@ ";" :> "semicolon"

\* Comments are from -- to the end of the line.
RECURSIVE skip_whitespace_and_comments(_, _)
skip_whitespace_and_comments(s, at) ==
    CASE Piece(s, at) \in Blanks -> skip_whitespace_and_comments(s, Past(s, at, Blanks))
      [] Piece(s, at) = "-" /\ Piece(s, at + 1) = "-" ->
           skip_whitespace_and_comments(s, Upto(s, at, {"\n"}))
      [] OTHER -> at

\* Behind a backslash n, t and a backslash have their meaning; any other
\* character is read as the quote.
Escaped == "n" :> "\n" @@ "t" :> "\t" @@ "\\" :> "\\"
RECURSIVE Unquoted(_, _, _, _)
Unquoted(s, at, quote, sofar) ==
    LET next == Piece(s, at + 1)
    IN  CASE at > Len(s) -> <<at, sofar>>
          [] s[at] = quote -> <<at + 1, sofar>>
          [] s[at] = "\\" /\ at < Len(s) ->
               Unquoted(s, at + 2, quote,
                        Append(sofar, IF next \in DOMAIN Escaped THEN Escaped[next] ELSE quote))
          [] OTHER -> Unquoted(s, at + 1, quote, Append(sofar, s[at]))

lex_string(s, c) ==
    LET read == Unquoted(s, c.at + 1, s[c.at], <<>>)
        quoted == Lexeme(s, c, read[1], "string_lit")
    IN  [quoted EXCEPT !.value.value = read[2]]

\* The closing slash, which a backslash hides, and the flags behind it.
RECURSIVE Slash(_, _)
Slash(s, at) ==
    CASE at > Len(s) -> at
      [] s[at] = "/" -> at + 1
      [] s[at] = "\\" /\ at < Len(s) -> Slash(s, at + 2)
      [] OTHER -> Slash(s, at + 1)
lex_regex_literal(s, c) == Lexeme(s, c, Past(s, Slash(s, c.at + 2), Letters), "regex_lit")

\* Every number takes an exponent and the suffix of an imaginary one.
lex_number(s, c) ==
    LET whole == Past(s, c.at, Digits)
        dot == Piece(s, whole) = "." /\ Piece(s, whole + 1) # "."
        fraction == IF dot THEN Past(s, whole + 1, Digits) ELSE whole
        exponent == Piece(s, fraction) \in {"e", "E"}
        sign == IF Piece(s, fraction + 1) \in {"+", "-"} THEN fraction + 2 ELSE fraction + 1
        real == IF exponent THEN Past(s, sign, Digits) ELSE fraction
        imaginary == Piece(s, real) \in {"i", "j"}
    IN  IF imaginary THEN Lexeme(s, c, real + 1, "float_lit")
        ELSE Lexeme(s, c, real, IF dot \/ exponent THEN "float_lit" ELSE "integer_lit")

lex_hex(s, c) == Lexeme(s, c, Past(s, c.at + 2, HexDigits), "integer_lit")
lex_identifier(s, c) ==
    Lexeme(s, c, Past(s, c.at, Letters \cup Digits \cup {"_", "$"}), "identifier")

\* TaqlLexer::next: the token behind a place, where it starts and where it ends.
next_token(s, at) ==
    LET c == [Start EXCEPT !.at = skip_whitespace_and_comments(s, at)]
        piece == Piece(s, c.at)
        second == Piece(s, c.at + 1)
        three == <<piece, second, Piece(s, c.at + 2)>>
    IN  CASE piece = "" -> Returns(c, Token("end_of_input", <<>>, <<>>))
          [] piece \in {"'", "\""} -> lex_string(s, c)
          [] piece \in {"p", "m", "f"} /\ second = "/" -> lex_regex_literal(s, c)
          [] piece = "0" /\ second \in {"x", "X"} -> lex_hex(s, c)
          [] piece \in Digits \/ (piece = "." /\ second \in Digits) -> lex_number(s, c)
          [] piece \in Letters \cup {"_", "$"} -> lex_identifier(s, c)
          [] three \in DOMAIN TwoOrMore -> Lexeme(s, c, c.at + 3, TwoOrMore[three])
          [] <<piece, second>> \in DOMAIN TwoOrMore ->
               Lexeme(s, c, c.at + 2, TwoOrMore[<<piece, second>>])
          [] piece \in DOMAIN Single -> Lexeme(s, c, c.at + 1, Single[piece])
          [] OTHER -> Lexeme(s, c, c.at + 1, "error_tok")

RECURSIVE Tokens(_, _, _)
Tokens(s, at, sofar) ==
    LET next == next_token(s, at)
    IN  IF next.value.type = "end_of_input" THEN sofar
        ELSE Tokens(s, next.at, Append(sofar, next.value))

----------------------------------------------------------------------------
(* The parser.  The value of a cursor is what was parsed last.             *)

TokenAt(s, c) == IF c.at \in DOMAIN s THEN s[c.at] ELSE Token("end_of_input", <<>>, <<>>)
Type(s, c) == TokenAt(s, c).type
TextOf(s, c) == TokenAt(s, c).text
Advance(c) == [c EXCEPT !.at = @ + 1]

Is(s, c, types) == c.ok /\ Type(s, c) \in types
IsKeyword(s, c, kws) == Is(s, c, {"identifier"}) /\ TextOf(s, c) \in {<<kw>> : kw \in kws}

expect(s, c, type) == If(Is(s, c, {type}), IF Is(s, c, {type}) THEN Advance(c) ELSE c)
expect_keyword(s, c, kw) ==
    If(IsKeyword(s, c, {kw}), IF IsKeyword(s, c, {kw}) THEN Advance(c) ELSE c)
match_keyword(s, c, kws) == IF IsKeyword(s, c, kws) THEN Advance(c) ELSE c

\* The text of a token of any type.
Name(s, c) == IF c.ok THEN Returns(Advance(c), TextOf(s, c)) ELSE c

is_select_clause_keyword(text) ==
    text \in {<<kw>> : kw \in {"FROM", "WHERE", "GROUPBY", "HAVING", "ORDERBY", "LIMIT", "OFFSET",
                               "GIVING", "DMINFO", "JOIN", "ON", "AS", "ASC", "DESC", "DISTINCT",
                               "ALL", "SET", "VALUES", "SELECT", "BETWEEN", "AND", "OR", "NOT", "IN",
                               "LIKE", "ILIKE", "EXISTS", "BY", "ROLLUP", "ADDCOL", "RENAMECOL",
                               "SETKEY", "ADDROW", "DROPCOL", "WITH", "TABLE", "DROP"}}
is_unit_name(text) == text \in {<<"DEG">>, <<"KM">>}
Aggregates == {<<"GCOUNT">>, <<"GMAX">>}

----------------------------------------------------------------------------
(* Expressions: recursive descent.                                         *)

Node(type, op, name, children) ==
    [type |-> type, op |-> op, name |-> name, children |-> children,
     unit |-> <<>>, range_incl |-> "closed"]
Op(type, op, children) == Node(type, op, <<>>, children)

Comparisons == {"eq", "ne", "lt", "le", "gt", "ge", "near_eq", "not_near_eq"}

\* The left-associative operators from the weakest to the strongest, with the
\* operator of a level at a place and the tokens it takes.
OrLevel == 1
AndLevel == 2
BitOrLevel == 3
StrongestLevel == 7
NoOperator == <<"", 0>>
OperatorAt(s, c, level) ==
    LET type == Type(s, c)
        twice == Type(s, Advance(c)) = type
    IN  CASE level = 1 /\ IsKeyword(s, c, {"OR"}) -> <<"logical_or", 1>>
          [] level = 1 /\ type = "pipe" /\ twice -> <<"logical_or", 2>>
          [] level = 2 /\ IsKeyword(s, c, {"AND"}) -> <<"logical_and", 1>>
          [] level = 2 /\ type = "ampersand" /\ twice -> <<"logical_and", 2>>
          [] level = 3 /\ type = "pipe" /\ ~twice -> <<"bit_or", 1>>
          [] level = 4 /\ type = "caret" -> <<"bit_xor", 1>>
          [] level = 5 /\ type = "ampersand" /\ ~twice -> <<"bit_and", 1>>
          [] level = 6 /\ type \in {"plus", "minus"} -> <<type, 1>>
          [] level = 7 /\ type \in {"star", "slash", "int_divide", "percent"} -> <<type, 1>>
          [] OTHER -> NoOperator

RECURSIVE LeftAssociative(_, _, _), Operators(_, _, _), parse_power(_, _), parse_postfix(_, _),
          parse_primary(_, _), Item(_, _, _), One(_, _, _), Another(_, _, _), Listed(_, _, _),
          Enumerated(_, _, _, _)

parse_expression(s, c) == LeftAssociative(s, c, OrLevel)
parse_bitwise_or(s, c) == LeftAssociative(s, c, BitOrLevel)

\* The operand behind what was read, and the two as a node.
Operated(x, before, type, op) ==
    IF x.ok THEN Returns(x, Op(type, op, <<before.value, x.value>>)) ELSE x

parse_between(s, c, op) ==
    LET low == parse_bitwise_or(s, Advance(c))
        high == parse_bitwise_or(s, expect_keyword(s, low, "AND"))
    IN  IF ~high.ok THEN high
        ELSE Returns(high, Op("between_expr", op, <<c.value, low.value, high.value>>))

\* Parentheses and braces make it open; any closing token will do, or none.
parse_set_or_range(s, c) ==
    LET bracket == Is(s, c, {"lbracket", "lparen", "lbrace"})
        elements == IF bracket THEN Listed(s, Advance(c), "expression") ELSE One(s, c, "expression")
        set == [Op("set_expr", "", elements.value) EXCEPT
                   !.range_incl = IF bracket /\ Type(s, c) # "lbracket" THEN "left_open" ELSE @]
    IN  CASE ~elements.ok -> elements
          [] bracket /\ Is(s, elements, {"rbracket", "rparen", "rbrace", "gt"}) ->
               Returns(Advance(elements), set)
          [] OTHER -> Returns(elements, set)

parse_comparison_expr(s, c) ==
    LET left == parse_bitwise_or(s, c)
        next == Advance(left)
        negated == IsKeyword(s, left, {"NOT"})
        not == IF negated THEN next ELSE left
        Not(op) == IF negated THEN "not_" \o op ELSE op
    IN  CASE ~left.ok -> left
          [] Is(s, left, Comparisons) ->
               Operated(parse_bitwise_or(s, next), left, "comparison", Type(s, left))
          [] IsKeyword(s, not, {"LIKE"}) ->
               Operated(parse_bitwise_or(s, Advance(not)), left, "like_expr", Not("like"))
          [] IsKeyword(s, left, {"ILIKE"}) ->
               Operated(parse_bitwise_or(s, next), left, "like_expr", "ilike")
          [] IsKeyword(s, not, {"IN"}) ->
               Operated(parse_set_or_range(s, Advance(not)), left, "in_expr", Not("in_set"))
          [] IsKeyword(s, not, {"BETWEEN"}) -> parse_between(s, not, Not("between"))
          [] negated -> Throw(left)
          [] Is(s, left, {"tilde", "not_regex"}) ->
               Operated(parse_primary(s, next), left, "regex_expr", Type(s, left))
          [] IsKeyword(s, left, {"AROUND"}) ->
               LET around == Operated(parse_bitwise_or(s, next), left, "around_expr", "around")
                   within == parse_bitwise_or(s, Advance(around))
               IN  CASE ~IsKeyword(s, around, {"IN"}) -> around
                     [] ~within.ok -> within
                     [] OTHER -> Returns(within, [around.value EXCEPT
                                                    !.children = Append(@, within.value)])
          [] IsKeyword(s, left, {"INCONE"}) ->
               Operated(parse_set_or_range(s, next), left, "cone_expr", "incone")
          [] IsKeyword(s, left, {"EXISTS"}) ->
               Returns(next, Op("exists_expr", "exists", <<left.value>>))
          [] OTHER -> left

Prefixed(x, op) == IF x.ok THEN Returns(x, Op("unary_op", op, <<x.value>>)) ELSE x

parse_not_expr(s, c) ==
    IF IsKeyword(s, c, {"NOT"}) \/ Is(s, c, {"bang"})
    THEN Prefixed(parse_comparison_expr(s, Advance(c)), "logical_not")
    ELSE parse_comparison_expr(s, c)

Operand(s, c, level) ==
    CASE level = AndLevel -> parse_not_expr(s, c)
      [] level = StrongestLevel -> parse_power(s, c)
      [] OTHER -> LeftAssociative(s, c, level + 1)

Operators(s, c, level) ==
    LET op == OperatorAt(s, c, level)
        right == Operand(s, [c EXCEPT !.at = @ + op[2]], level)
        type == IF level <= AndLevel THEN "logical_op" ELSE "binary_op"
    IN  IF ~c.ok \/ op = NoOperator THEN c
        ELSE Operators(s, Operated(right, c, type, op[1]), level)

\* Mutant: operators of one level are grouped from the right.
RightAssociative(s, c, level) ==
    LET left == Operand(s, c, level)
        op == OperatorAt(s, left, level)
        right == LeftAssociative(s, [left EXCEPT !.at = @ + op[2]], level)
    IN  IF ~left.ok \/ op = NoOperator THEN left ELSE Operated(right, left, "binary_op", op[1])

LeftAssociative(s, c, level) == Operators(s, Operand(s, c, level), level)

parse_unary(s, c) ==
    CASE Is(s, c, {"minus"}) -> Prefixed(parse_postfix(s, Advance(c)), "negate")
      [] Is(s, c, {"plus"}) -> parse_postfix(s, Advance(c))
      [] Is(s, c, {"tilde"}) -> Prefixed(parse_postfix(s, Advance(c)), "bit_not")
      [] OTHER -> parse_postfix(s, c)

\* Right-associative.
parse_power(s, c) ==
    LET left == parse_unary(s, c)
    IN  IF Is(s, left, {"power"})
        THEN Operated(parse_power(s, Advance(left)), left, "binary_op", "power")
        ELSE left

\* start:end:step, where start or end may be left out; what is left out is not
\* noted.
parse_subscript_element(s, c) ==
    LET open == Is(s, c, {"colon"})
        first == IF open THEN Returns(c, <<>>) ELSE One(s, c, "expression")
        stops == {"rbracket", "comma"} \cup (IF open THEN {} ELSE {"colon"})
        colon == Advance(first)
        last == IF Is(s, colon, stops) THEN colon ELSE Another(s, colon, "expression")
        step == IF Is(s, last, {"colon"}) THEN Another(s, Advance(last), "expression") ELSE last
    IN  CASE ~first.ok -> first
          [] ~Is(s, first, {"colon"}) -> Returns(first, first.value[1])
          [] OTHER -> IF step.ok THEN Returns(step, Op("range_expr", "", step.value)) ELSE step

RECURSIVE Subscripts(_, _)
Subscripts(s, c) ==
    LET elements == Enumerated(s, Returns(Advance(c), <<>>), "subscript", "rbracket")
        close == expect(s, elements, "rbracket")
    IN  CASE ~Is(s, c, {"lbracket"}) -> c
          [] ~close.ok -> close
          [] OTHER -> Subscripts(s, Returns(close, Op("subscript", "", <<c.value>> \o close.value)))

parse_postfix(s, c) ==
    LET node == Subscripts(s, parse_primary(s, c))
    IN  IF Is(s, node, {"identifier"}) /\ is_unit_name(TextOf(s, node))
        THEN Returns(Advance(node), [node.value EXCEPT !.unit = TextOf(s, node)])
        ELSE node

\* Names joined by dots.
RECURSIVE Dotted(_, _)
Dotted(s, c) ==
    IF Is(s, c, {"dot"})
    THEN Dotted(s, Returns(Advance(Advance(c)), c.value \o <<".">> \o TextOf(s, Advance(c))))
    ELSE c

Arguments(s, c, type, name) ==
    LET arguments == IF Is(s, c, {"rparen"}) THEN Returns(c, <<>>) ELSE Listed(s, c, "expression")
        close == expect(s, arguments, "rparen")
    IN  IF close.ok THEN Returns(close, Node(type, "", name, close.value)) ELSE close

\* An element of [...]: a field, a column when it starts with an identifier, or
\* an expression.
ArrayElement(s, c) ==
    CASE Is(s, c, {"identifier"}) /\ Is(s, Advance(c), {"eq"}) -> Item(s, c, "field")
      [] Is(s, c, {"identifier"}) ->
           Returns(Advance(c), Node("column_ref", "", TextOf(s, c), <<>>))
      [] OTHER -> parse_expression(s, c)

ArrayLiteral(s, c) ==
    LET elements == IF Is(s, c, {"rbracket"}) THEN Returns(c, <<>>) ELSE Listed(s, c, "element")
        close == expect(s, elements, "rbracket")
        IsRecord == \E i \in DOMAIN close.value : close.value[i].type = "field"
    IN  IF ~close.ok THEN close
        ELSE Returns(close, Op(IF IsRecord THEN "record_literal" ELSE "set_expr", "", close.value))

parse_primary(s, c) ==
    LET next == Advance(c)
        name == TextOf(s, c)
        behind == Advance(next)
    IN  CASE ~c.ok -> c
          [] IsKeyword(s, c, {"TRUE", "T"}) -> Returns(next, Node("literal", "", <<"TRUE">>, <<>>))
          [] IsKeyword(s, c, {"FALSE", "F"}) -> Returns(next, Node("literal", "", <<"FALSE">>, <<>>))
          [] Is(s, c, {"integer_lit", "float_lit", "string_lit", "regex_lit"}) ->
               Returns(next, Node("literal", Type(s, c), TokenAt(s, c).value, <<>>))
          [] Is(s, c, {"lparen"}) -> expect(s, parse_expression(s, next), "rparen")
          [] Is(s, c, {"lbracket"}) -> ArrayLiteral(s, next)
          [] IsKeyword(s, c, {"IIF"}) ->
               LET three == Arguments(s, expect(s, next, "lparen"), "iif_expr", <<>>)
               IN  IF three.ok THEN If(Len(three.value.children) = 3, three) ELSE three
          [] Is(s, c, {"identifier"}) /\ Is(s, next, {"double_colon"}) ->
               LET path == Dotted(s, Returns(Advance(behind), name \o <<":", ":">> \o TextOf(s, behind)))
               IN  Returns(path, Node("keyword_ref", "", path.value, <<>>))
          [] Is(s, c, {"identifier"}) /\ Is(s, next, {"lparen"}) ->
               Arguments(s, behind, IF name \in Aggregates THEN "aggregate_call" ELSE "func_call", name)
          [] Is(s, c, {"identifier"}) ->
               LET path == Dotted(s, Returns(next, name))
               IN  Returns(path, Node("column_ref", "", path.value, <<>>))
          [] Is(s, c, {"star"}) -> Returns(next, Op("wildcard", "", <<>>))
          [] OTHER -> Throw(c)

----------------------------------------------------------------------------
(* Parts of statements.                                                    *)

\* A subquery is skipped to its closing parenthesis.
RECURSIVE Closing(_, _, _)
Closing(s, c, nested) ==
    LET inside == CASE Is(s, c, {"lparen"}) -> nested + 1
                    [] Is(s, c, {"rparen"}) -> nested - 1
                    [] OTHER -> nested
    IN  IF Is(s, c, {"end_of_input"}) \/ inside = 0 THEN c ELSE Closing(s, Advance(c), inside)

\* Names joined by dots, :: and slashes.
RECURSIVE Joined(_, _)
Joined(s, c) ==
    LET name == c.value \o TextOf(s, c)
        next == Advance(c)
    IN  CASE ~Is(s, c, {"dot", "double_colon", "slash"}) -> c
          [] Is(s, next, {"identifier", "integer_lit"}) ->
               Joined(s, Returns(Advance(next), name \o TextOf(s, next)))
          [] OTHER -> Joined(s, Returns(next, name))

RECURSIVE Bracketed(_, _)
Bracketed(s, c) ==
    IF Is(s, c, {"rbracket", "end_of_input"}) THEN expect(s, c, "rbracket")
    ELSE Bracketed(s, Returns(Advance(c), c.value \o TextOf(s, c)))

parse_table_name(s, c) ==
    CASE ~c.ok -> c
      [] Is(s, c, {"string_lit"}) -> Returns(Advance(c), TokenAt(s, c).value)
      [] Is(s, c, {"lbracket"}) -> Bracketed(s, Returns(Advance(c), <<>>))
      [] OTHER -> Joined(s, Name(s, c))

\* The shorthand of a table is only read behind AS.
TableRef(name, shorthand) == [name |-> name, shorthand |-> shorthand]
parse_table_ref(s, c) ==
    LET name == CASE Is(s, c, {"lparen"}) ->
                       Returns(expect(s, Closing(s, Advance(c), 1), "rparen"), <<"(subquery)">>)
                  [] Is(s, c, {"string_lit", "identifier", "lbracket"}) -> parse_table_name(s, c)
                  [] OTHER -> Returns(c, <<>>)
        shorthand == Name(s, Advance(name))
    IN  CASE ~name.ok -> name
          [] IsKeyword(s, name, {"AS"}) -> Returns(shorthand, TableRef(name.value, shorthand.value))
          [] OTHER -> Returns(name, TableRef(name.value, <<>>))

parse_projection(s, c) ==
    LET expr == IF Is(s, c, {"star"}) THEN Returns(Advance(c), Op("wildcard", "", <<>>))
                ELSE parse_expression(s, c)
        alias == IF IsKeyword(s, expr, {"AS"}) THEN Name(s, Advance(expr)) ELSE Returns(expr, <<>>)
        typed == /\ IsKeyword(s, expr, {"AS"})
                 /\ Is(s, alias, {"identifier"}) /\ ~is_select_clause_keyword(TextOf(s, alias))
        type == IF typed THEN Name(s, alias) ELSE Returns(alias, <<>>)
    IN  IF ~expr.ok THEN expr
        ELSE Returns(type, [expr |-> expr.value, alias |-> alias.value, data_type |-> type.value])

SortKey(expr, order) == [expr |-> expr, order |-> order]
parse_sort_key(s, c) ==
    LET expr == parse_expression(s, c)
    IN  CASE ~expr.ok -> expr
          [] IsKeyword(s, expr, {"DESC"}) -> Returns(Advance(expr), SortKey(expr.value, "descending"))
          [] OTHER -> Returns(match_keyword(s, expr, {"ASC"}), SortKey(expr.value, "ascending"))

Assignment(column, mask, indices, value) ==
    [column |-> column, mask_column |-> mask, indices |-> indices, value |-> value]
parse_assignment(s, c) ==
    LET masked == Is(s, c, {"lparen"})
        column == Name(s, IF masked THEN Advance(c) ELSE c)
        mask == IF masked THEN Name(s, expect(s, column, "comma")) ELSE Returns(column, <<>>)
        close == IF masked THEN expect(s, mask, "rparen") ELSE mask
        indexed == ~masked /\ Is(s, close, {"lbracket"})
        indices == IF indexed THEN Enumerated(s, Returns(Advance(close), <<>>), "expression", "rbracket")
                   ELSE Returns(close, <<>>)
        end == IF indexed THEN expect(s, indices, "rbracket") ELSE indices
        value == parse_expression(s, expect(s, end, "eq"))
    IN  IF ~value.ok THEN value
        ELSE Returns(value, Assignment(column.value, mask.value, end.value, value.value))

parse_row(s, c) == expect(s, Listed(s, expect(s, c, "lparen"), "expression"), "rparen")

\* Name = expression.
parse_pair(s, c) ==
    LET name == Name(s, c)
        value == parse_expression(s, expect(s, name, "eq"))
    IN  IF value.ok THEN Returns(value, <<name.value, value.value>>) ELSE value

parse_rename(s, c) ==
    LET from == Name(s, c)
        to == Name(s, expect_keyword(s, from, "TO"))
    IN  IF to.ok THEN Returns(to, <<from.value, to.value>>) ELSE to

\* Name, type, and the properties of a column, of which the last of a kind counts;
\* a shape gets longer.
RECURSIVE Properties(_, _)
Properties(s, c) ==
    LET equals == expect(s, Advance(c), "eq")
        SHAPE == Enumerated(s, Returns(expect(s, equals, "lbracket"), c.value.SHAPE), "name", "rbracket")
        shape == expect(s, SHAPE, "rbracket")
        value == Returns(Advance(equals), TokenAt(s, equals).value)
        property == TextOf(s, c)[1]
    IN  CASE ~IsKeyword(s, c, {"NDIM", "SHAPE", "UNIT", "COMMENT"}) -> c
          [] ~equals.ok -> equals
          [] property = "SHAPE" -> Properties(s, Into(shape, c, "SHAPE"))
          [] OTHER -> Properties(s, Into(value, c, property))

ColumnDef(name, type) ==
    [name |-> name, data_type |-> type, NDIM |-> <<>>, SHAPE |-> <<>>, UNIT |-> <<>>, COMMENT |-> <<>>]
parse_column_def(s, c) ==
    LET name == Name(s, c)
        type == IF Is(s, name, {"identifier"}) THEN Name(s, name) ELSE Returns(name, <<>>)
    IN  IF c.ok THEN Properties(s, Returns(type, ColumnDef(name.value, type.value))) ELSE c

----------------------------------------------------------------------------
(* Items and lists of them.                                                *)

Item(s, c, what) ==
    CASE what = "expression" -> parse_expression(s, c)
      [] what = "subscript" -> parse_subscript_element(s, c)
      [] what = "element" -> ArrayElement(s, c)
      [] what = "field" ->
           LET pair == parse_pair(s, c)
           IN  IF pair.ok THEN Returns(pair, Node("field", "", pair.value[1], <<pair.value[2]>>))
               ELSE pair
      [] what = "name" -> Name(s, c)
      [] what = "table" -> parse_table_ref(s, c)
      [] what = "table name" -> parse_table_name(s, c)
      [] what = "projection" -> parse_projection(s, c)
      [] what = "sort key" -> parse_sort_key(s, c)
      [] what = "assignment" -> parse_assignment(s, c)
      [] what = "row" -> parse_row(s, c)
      [] what = "pair" -> parse_pair(s, c)
      [] what = "rename" -> parse_rename(s, c)
      [] what = "column" -> parse_column_def(s, c)

One(s, c, what) ==
    LET item == Item(s, c, what) IN IF item.ok THEN Returns(item, <<item.value>>) ELSE item
Another(s, c, what) ==
    LET item == Item(s, c, what)
    IN  IF item.ok THEN Returns(item, Append(c.value, item.value)) ELSE item

\* Items with commas between them.  Behind the first field of a record all are
\* fields.
RECURSIVE Continued(_, _, _)
Continued(s, c, what) ==
    LET fields == what = "element" /\ Last(c.value).type = "field"
    IN  IF Is(s, c, {"comma"})
        THEN LET more == Another(s, Advance(c), IF fields THEN "field" ELSE what)
             IN  IF more.ok THEN Continued(s, more, what) ELSE more
        ELSE c
Listed(s, c, what) ==
    LET first == One(s, c, what) IN IF first.ok THEN Continued(s, first, what) ELSE first

\* Items up to a closing token, behind those read before; the last may be
\* followed by a comma.
Enumerated(s, c, what, close) ==
    LET more == Another(s, c, what)
    IN  CASE ~c.ok \/ Is(s, c, {close, "end_of_input"}) -> c
          [] Is(s, more, {"comma"}) -> Enumerated(s, Advance(more), what, close)
          [] OTHER -> more

----------------------------------------------------------------------------
(* Statements.  A TaqlAst has a sequence for each of its fields: empty for *)
(* what is not there, TRUE for a flag.                                     *)

Fields == {"projections", "tables", "with_tables", "joins", "where_expr", "group_by", "having_expr",
           "order_by", "limit_expr", "offset_expr", "giving_table", "TYPE", "ENDIAN", "STORAGE",
           "OVERWRITE", "select_distinct", "order_distinct", "has_rollup", "assignments",
           "insert_values", "insert_columns", "calc_expr", "create_columns", "like_table",
           "like_drop_columns", "alter_steps", "drop_tables", "show_topic", "dminfo", "style", "timing"}
TaqlAst(command) ==
    [field \in Fields \cup {"command"} |-> IF field = "command" THEN command ELSE <<>>]

\* What was read, added to a field of the statement; and clauses that begin with
\* a keyword.
Put(x, before, field) ==
    IF x.ok THEN Returns(x, [before.value EXCEPT ![field] = @ \o x.value]) ELSE x
Flag(s, c, kws, field) ==
    IF IsKeyword(s, c, kws) THEN Returns(Advance(c), [c.value EXCEPT ![field] = <<TRUE>>]) ELSE c
Clause(s, c, kws, what, field) ==
    IF IsKeyword(s, c, kws) THEN Put(One(s, Advance(c), what), c, field) ELSE c
ListClause(s, c, kws, what, field) ==
    IF IsKeyword(s, c, kws) THEN Put(Listed(s, Advance(c), what), c, field) ELSE c

parse_limit_offset(s, c) ==
    Clause(s, Clause(s, c, {"LIMIT"}, "expression", "limit_expr"),
           {"OFFSET"}, "expression", "offset_expr")

parse_order_by(s, c, distinct) ==
    LET by == match_keyword(s, Advance(c), {"BY"})
        flag == IF distinct THEN Flag(s, by, {"DISTINCT", "NODUPL"}, "order_distinct") ELSE by
    IN  IF IsKeyword(s, c, {"ORDERBY", "ORDER"}) THEN Put(Listed(s, flag, "sort key"), flag, "order_by")
        ELSE c

parse_group_by(s, c) ==
    LET rollup == Flag(s, match_keyword(s, Advance(c), {"BY"}), {"ROLLUP"}, "has_rollup")
    IN  IF IsKeyword(s, c, {"GROUPBY", "GROUP"})
        THEN Put(Listed(s, rollup, "expression"), rollup, "group_by") ELSE c

parse_where(s, c) == Clause(s, c, {"WHERE"}, "expression", "where_expr")
parse_from(s, c) == ListClause(s, c, {"FROM"}, "table", "tables")
parse_projection_list(s, c) ==
    IF IsKeyword(s, c, {"FROM"}) \/ Is(s, c, {"end_of_input"}) THEN c
    ELSE Put(Listed(s, c, "projection"), c, "projections")
parse_dminfo(s, c) ==
    CASE ~IsKeyword(s, c, {"DMINFO"}) -> c
      [] Is(s, Advance(c), {"lbracket"}) -> Clause(s, c, {"DMINFO"}, "expression", "dminfo")
      [] OTHER -> Advance(c)

RECURSIVE Joins(_, _)
Joins(s, c) ==
    LET table == Item(s, Advance(c), "table")
        on == IF IsKeyword(s, table, {"ON"}) THEN One(s, Advance(table), "expression")
              ELSE Returns(table, <<>>)
    IN  CASE ~IsKeyword(s, c, {"JOIN"}) -> c
          [] ~table.ok -> table
          [] OTHER -> Joins(s, Put(IF on.ok THEN Returns(on, <<[table |-> table.value, on_expr |-> on.value]>>)
                                   ELSE on, c, "joins"))

\* Options follow AS; a word that is none of them ends them and is skipped.
RECURSIVE Options(_, _)
Options(s, c) ==
    LET value == Name(s, Advance(c))
    IN  CASE ~Is(s, c, {"identifier"}) -> c
          [] IsKeyword(s, c, {"TYPE", "ENDIAN", "STORAGE"}) ->
               Options(s, Returns(value, [c.value EXCEPT ![TextOf(s, c)[1]] = value.value]))
          [] IsKeyword(s, c, {"OVERWRITE"}) -> Options(s, Flag(s, c, {"OVERWRITE"}, "OVERWRITE"))
          [] OTHER -> Advance(c)
parse_table_options(s, c) == IF IsKeyword(s, c, {"AS"}) THEN Options(s, Advance(c)) ELSE c

parse_giving(s, c) ==
    IF IsKeyword(s, c, {"GIVING", "INTO"})
    THEN parse_table_options(s, Clause(s, c, {"GIVING", "INTO"}, "table", "giving_table")) ELSE c

parse_select(s, c) ==
    LET with == ListClause(s, c, {"WITH"}, "table", "with_tables")
        select == match_keyword(s, with, {"SELECT"})
        distinct == IF IsKeyword(s, select, {"DISTINCT"})
                    THEN Flag(s, select, {"DISTINCT"}, "select_distinct")
                    ELSE match_keyword(s, select, {"ALL"})
        from == parse_from(s, parse_projection_list(
                    s, IF IsKeyword(s, with, {"SELECT"}) THEN distinct ELSE with))
        group == parse_group_by(s, parse_where(s, Joins(s, from)))
        having == Clause(s, group, {"HAVING"}, "expression", "having_expr")
    IN  parse_dminfo(s, parse_giving(s, parse_limit_offset(s, parse_order_by(s, having, TRUE))))

parse_update(s, c) ==
    LET table == Put(One(s, Advance(c), "table"), c, "tables")
        set == ListClause(s, If(IsKeyword(s, table, {"SET"}), table), {"SET"},
                          "assignment", "assignments")
    IN  parse_limit_offset(s, parse_order_by(s, parse_where(s, parse_from(s, set)), FALSE))

\* A column list, then the values of one row, of several, or a selection.
InsertColumns(s, c) ==
    LET close == IF Is(s, c, {"lbracket"}) THEN "rbracket" ELSE "rparen"
        columns == expect(s, Enumerated(s, Returns(Advance(c), <<>>), "name", close), close)
    IN  IF Is(s, c, {"lbracket", "lparen"}) THEN Put(columns, c, "insert_columns") ELSE c
parse_insert(s, c) ==
    LET into == match_keyword(s, Advance(c), {"INTO"})
        table == InsertColumns(s, Put(One(s, into, "table"), c, "tables"))
        set == Listed(s, Advance(table), "pair")
        names == [i \in DOMAIN set.value |-> set.value[i][1]]
        values == [i \in DOMAIN set.value |-> set.value[i][2]]
        rows == CASE IsKeyword(s, table, {"SET"}) ->
                       IF set.ok THEN Put(Returns(set, <<values>>),
                                          Put(Returns(set, names), table, "insert_columns"),
                                          "insert_values")
                       ELSE set
                  [] IsKeyword(s, table, {"SELECT"}) -> parse_select(s, table)
                  [] OTHER -> ListClause(s, table, {"VALUES", "VALUE"}, "row", "insert_values")
    IN  parse_limit_offset(s, rows)

parse_delete(s, c) ==
    LET from == match_keyword(s, Advance(c), {"FROM"})
        table == Put(One(s, from, "table"), c, "tables")
    IN  parse_limit_offset(s, parse_order_by(s, parse_where(s, table), FALSE))

parse_count(s, c) == parse_where(s, parse_from(s, parse_projection_list(s, Advance(c))))
parse_calc(s, c) == parse_from(s, Put(One(s, Advance(c), "expression"), c, "calc_expr"))

parse_create_table(s, c) ==
    LET table == match_keyword(s, Advance(c), {"TABLE"})
        name == parse_table_options(s, Put(One(s, table, "table"), c, "tables"))
        like == Clause(s, name, {"LIKE"}, "table name", "like_table")
        column == match_keyword(s, Advance(like), {"COLUMN"})
        drop == IF IsKeyword(s, name, {"LIKE"}) /\ IsKeyword(s, like, {"DROP"})
                THEN Put(Listed(s, column, "name"), like, "like_drop_columns") ELSE like
        close == IF Is(s, drop, {"lparen"}) THEN "rparen" ELSE "rbracket"
        columns == IF Is(s, drop, {"lparen", "lbracket"})
                   THEN Put(expect(s, Listed(s, Advance(drop), "column"), close), drop, "create_columns")
                   ELSE drop
    IN  parse_dminfo(s, parse_limit_offset(s, columns))

\* The keywords of the steps of ALTER TABLE, the word that may follow them, what
\* they do and with what.
AlterActions == <<
    [kws |-> {"ADD", "ADDCOL"}, word |-> "COLUMN", action |-> "add_column", what |-> "column"],
    [kws |-> {"COPY", "COPYCOL"}, word |-> "COLUMN", action |-> "copy_column", what |-> "rename"],
    [kws |-> {"RENAME", "RENAMECOL"}, word |-> "COLUMN", action |-> "rename_column", what |-> "rename"],
    [kws |-> {"DROP", "DROPCOL"}, word |-> "COLUMN", action |-> "drop_column", what |-> "name"],
    [kws |-> {"SET", "SETKEY"}, word |-> "KEYWORD", action |-> "set_keyword", what |-> "pair"],
    [kws |-> {"COPYKEY"}, word |-> "", action |-> "copy_keyword", what |-> "rename"],
    [kws |-> {"RENAMEKEY"}, word |-> "", action |-> "rename_keyword", what |-> "rename"],
    [kws |-> {"DROPKEY"}, word |-> "", action |-> "drop_keyword", what |-> "name"]>>

AlterStep(action, items) == [action |-> action, items |-> items]
RECURSIVE AlterSteps(_, _)
AlterSteps(s, c) ==
    LET step == AlterActions[CHOOSE i \in DOMAIN AlterActions : IsKeyword(s, c, AlterActions[i].kws)]
        behind == match_keyword(s, Advance(c), {step.word})
        close == IF Is(s, behind, {"lparen"}) THEN "rparen" ELSE "rbracket"
        bracketed == step.what = "column" /\ Is(s, behind, {"lparen", "lbracket"})
        items == IF bracketed THEN expect(s, Listed(s, Advance(behind), step.what), close)
                 ELSE Listed(s, behind, step.what)
        count == One(s, Advance(c), "expression")
        Step(x, action) == IF x.ok THEN Returns(x, <<AlterStep(action, x.value)>>) ELSE x
    IN  CASE IsKeyword(s, c, {"ADDROW"}) ->
               AlterSteps(s, Put(Step(count, "add_row"), c, "alter_steps"))
          [] \E i \in DOMAIN AlterActions : IsKeyword(s, c, AlterActions[i].kws) ->
               AlterSteps(s, Put(Step(items, step.action), c, "alter_steps"))
          [] OTHER -> c
parse_alter_table(s, c) ==
    LET table == match_keyword(s, Advance(c), {"TABLE"})
    IN  AlterSteps(s, Put(One(s, table, "table"), c, "tables"))

parse_drop_table(s, c) ==
    LET table == match_keyword(s, Advance(c), {"TABLE"})
    IN  Put(Listed(s, table, "table name"), c, "drop_tables")

parse_show(s, c) ==
    IF Is(s, Advance(c), {"end_of_input"}) THEN Advance(c)
    ELSE LET topic == Name(s, Advance(c)) IN Put(topic, c, "show_topic")

\* TaqlParser::parse: the tokens behind the statement are not looked at.
parse(s) ==
    LET timing == Flag(s, Returns(Start, TaqlAst("select_cmd")), {"TIMING"}, "timing")
        style == Clause(s, timing, {"STYLE"}, "name", "style")
        As(command) == [style EXCEPT !.value.command = command]
    IN  CASE IsKeyword(s, style, {"UPDATE"}) -> parse_update(s, As("update_cmd"))
          [] IsKeyword(s, style, {"INSERT"}) -> parse_insert(s, As("insert_cmd"))
          [] IsKeyword(s, style, {"DELETE"}) -> parse_delete(s, As("delete_cmd"))
          [] IsKeyword(s, style, {"COUNT"}) -> parse_count(s, As("count_cmd"))
          [] IsKeyword(s, style, {"CALC"}) -> parse_calc(s, As("calc_cmd"))
          [] IsKeyword(s, style, {"CREATE", "CREATETAB"}) ->
               parse_create_table(s, As("create_table_cmd"))
          [] IsKeyword(s, style, {"ALTER", "ALTERTAB"}) ->
               parse_alter_table(s, As("alter_table_cmd"))
          [] IsKeyword(s, style, {"DROP", "DROPTAB"}) -> parse_drop_table(s, As("drop_table_cmd"))
          [] IsKeyword(s, style, {"SHOW"}) -> parse_show(s, As("show_cmd"))
          [] OTHER -> parse_select(s, style)

\* taql_parse: whether it throws, what it returns, and the tokens it did not look at.
taql_parse(text) ==
    LET s == Tokens(text, 1, <<>>)
        end == parse(s)
    IN  [ok |-> end.ok, ast |-> end.value, unread |-> SubSeq(s, end.at, Len(s))]
=============================================================================
