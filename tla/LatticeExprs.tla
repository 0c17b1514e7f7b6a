---------------------------- MODULE LatticeExprs ----------------------------
(***************************************************************************)
(* Lattice expressions (src/src/lattice_expr.cpp and its header): nodes    *)
(* that are evaluated to an array and an optional mask, and the parser     *)
(* that makes them of a text.                                              *)
(*                                                                         *)
(* The value of a pixel is a term, so that it shows what was computed from *)
(* which pixels of which lattices: <<"+", x, y>>.  A lattice is the        *)
(* sequence of its pixels and its shape their number; a scalar has shape   *)
(* 0.  No mask, and no shape because two do not agree, are <<>> and -1.    *)
(***************************************************************************)
EXTENDS Cursors

CONSTANT LelSymbols     \* names of a LelSymbolTable -> nodes

Scalar == 0
Mismatch == -1

LelNode(kind, op, type, args) ==
    [kind |-> kind, op |-> op, type |-> type, args |-> args, data |-> <<>>, mask |-> <<>>]
lel_scalar(type, x) == [LelNode("scalar", "", type, <<>>) EXCEPT !.data = <<x>>]
lel_array(type, data, mask) ==
    [LelNode("array", "", type, <<>>) EXCEPT !.data = data, !.mask = mask]

BooleanTerm(b) == IF b THEN <<"true">> ELSE <<"false">>

----------------------------------------------------------------------------
(* Evaluation.                                                             *)

\* Nodes that combine the pixels of two operands, those that collect the pixels
\* of one, and those that take it pixel by pixel.
TwoArguments == {"func2", "form_complex"}
Binaries == {"binary", "compare"} \cup TwoArguments
Reductions == {"reduce", "bool_reduce"}
ComplexParts == {"real", "imag", "conj", "arg", "complex_abs"}
PixelWise == {"unary", "func1", "promote"} \cup ComplexParts

RECURSIVE lel_shape(_)
lel_shape(n) ==
    LET shapes == [i \in DOMAIN n.args |-> lel_shape(n.args[i])]
        lattices == {i \in DOMAIN shapes : shapes[i] # Scalar}
    IN  CASE n.kind = "array" -> Len(n.data)
          [] n.kind = "scalar" \/ n.kind \in Reductions \/ lattices = {} -> Scalar
          [] n.kind \in Binaries /\ \E i, j \in lattices : shapes[i] # shapes[j] -> Mismatch
          [] OTHER -> shapes[Min(lattices)]
is_scalar(n) == lel_shape(n) = Scalar

broadcast(values, size) == [i \in 1..size |-> values[1]]

\* Mutant: a pixel is good when it is good in one of the operands.
JoinMasks(a, b) ==
    CASE a = <<>> -> b
      [] b = <<>> -> a
      [] OTHER -> [i \in DOMAIN a |-> a[i] \/ b[i]]

combine_masks(a, b) ==
    CASE a = <<>> -> b
      [] b = <<>> -> a
      [] OTHER -> [i \in DOMAIN a |-> a[i] /\ b[i]]

\* The value of a pixel, from its operands.
Computed(n, operands) == <<IF n.op = "" THEN n.kind ELSE n.op>> \o operands

LelResult(values, mask) == [ok |-> TRUE, values |-> values, mask |-> mask]
LelThrows == [ok |-> FALSE, values |-> <<>>, mask |-> <<>>]

\* The good ones of some values: what the functions of lel_reduce and
\* lel_bool_reduce loop over.
Unmasked(r) == LET good == SelectSeq([i \in DOMAIN r.values |-> i], LAMBDA i : r.mask = <<>> \/ r.mask[i])
               IN  [i \in DOMAIN good |-> r.values[good[i]]]

\* The values of the operands for the pixels of a shape, and their masks.
Flat(n, r, size) ==
    [k \in DOMAIN r |-> IF size # Scalar /\ is_scalar(n.args[k]) THEN broadcast(r[k].values, size)
                        ELSE r[k].values]
Masks(n, r) == [k \in DOMAIN r |-> IF is_scalar(n.args[k]) THEN <<>> ELSE r[k].mask]

\* The results of the nodes, from those of their operands.
EvalTwo(n, r, size) ==
    LET flat == Flat(n, r, size)
    IN  LelResult([i \in 1..Max({size, 1}) |-> Computed(n, <<flat[1][i], flat[2][i]>>)],
                  combine_masks(Masks(n, r)[1], Masks(n, r)[2]))
EvalIif(n, r, size) ==
    LET flat == Flat(n, r, size)
        masks == Masks(n, r)
    IN  LelResult([i \in 1..Max({size, 1}) |-> Computed(n, <<flat[1][i], flat[2][i], flat[3][i]>>)],
                  combine_masks(masks[1], combine_masks(masks[2], masks[3])))
EvalMap(n, r) == LelResult([i \in DOMAIN r[1].values |-> Computed(n, <<r[1].values[i]>>)], r[1].mask)
EvalReduce(n, r) == LelResult(<<<<n.op, Unmasked(r[1])>>>>, <<>>)
EvalValue(r) == LelResult(r[1].values, <<>>)
EvalMask(r) ==
    LelResult([i \in DOMAIN r[1].values |-> BooleanTerm(r[1].mask = <<>> \/ r[1].mask[i])], <<>>)

RECURSIVE lel_eval(_)
lel_eval(n) ==
    LET r == [i \in DOMAIN n.args |-> lel_eval(n.args[i])]
        size == lel_shape(n)
    IN  CASE (\E i \in DOMAIN r : ~r[i].ok) \/ size = Mismatch -> LelThrows
          [] n.kind \in {"scalar", "array"} -> LelResult(n.data, n.mask)
          [] n.kind \in Binaries -> EvalTwo(n, r, size)
          [] n.kind \in PixelWise -> EvalMap(n, r)
          [] n.kind \in Reductions -> EvalReduce(n, r)
          [] n.kind = "iif" -> EvalIif(n, r, size)
          [] n.kind = "value" -> EvalValue(r)
          [] n.kind = "mask" -> EvalMask(r)

----------------------------------------------------------------------------
(* What the parser makes of its operands, with their types.                *)

Reals == {"float32", "float64"}
Made(c, n) == [c EXCEPT !.value = n]
lel_promote_float(n) == LelNode("promote", "", "float64", <<n>>)

\* Both as they are, or both of type double.
Promoted(left, right) ==
    IF left.type = right.type THEN <<left, right>>
    ELSE [i \in 1..2 |-> IF <<left, right>>[i].type = "float32" THEN lel_promote_float(<<left, right>>[i])
                         ELSE <<left, right>>[i]]

\* Of the operands of two cursors; the second is behind the first.
Pair(kind, op, first, second, bool) ==
    LET both == Promoted(first.value, second.value)
    IN  IF ~first.ok \/ ~second.ok THEN Throw(second)
        ELSE LET c == If({first.value.type, second.value.type} \subseteq Reals, second)
             IN  IF c.ok THEN Made(c, LelNode(kind, op, IF bool THEN "boolean" ELSE both[1].type, both))
                 ELSE c

make_arith(op, first, second) == Pair("binary", op, first, second, FALSE)
make_compare(op, first, second) == Pair("compare", op, first, second, TRUE)
apply_math2(op, first, second) == Pair("func2", op, first, second, FALSE)
make_logical(op, first, second) ==
    LET c == IF first.ok THEN second ELSE Throw(second)
        typed == IF c.ok THEN If(first.value.type = "boolean" /\ second.value.type = "boolean", c) ELSE c
    IN  IF typed.ok THEN Made(c, LelNode("binary", op, "boolean", <<first.value, second.value>>)) ELSE typed

\* Of one operand of the types; the result has its type or the given one.
OfOne(kind, op, c, types, type) ==
    LET typed == IF c.ok THEN If(c.value.type \in types, c) ELSE c
    IN  IF typed.ok THEN Made(c, LelNode(kind, op, IF type = "" THEN c.value.type ELSE type, <<c.value>>))
        ELSE typed
make_negate(c) == OfOne("unary", "-", c, Reals, "")
apply_math1(op, c) == OfOne("func1", op, c, Reals, "")
apply_reduce(op, c) == OfOne("reduce", op, c, Reals, "")

----------------------------------------------------------------------------
(* The parser.  A text is a sequence of pieces: a name, a number or a      *)
(* character.                                                              *)

Math1 == {"sin", "cos", "tan", "asin", "acos", "atan", "exp", "log", "log10", "sqrt", "abs", "sign",
          "round", "ceil", "floor"}
Math2 == {"atan2", "pow", "fmod"}
Reduces == {"sum", "mean", "median", "variance", "stddev"}
BoolReduces == {"ntrue", "nfalse", "any", "all"}
FunctionNames == Math1 \cup Math2 \cup Reduces \cup BoolReduces
                 \cup {"min", "max", "iif", "value", "mask"}
LelNumbers == {"1", "2"}
Trues == {"T", "TRUE", "true"}
Falses == {"F", "FALSE", "false"}

skip_ws(s, c) == [c EXCEPT !.at = Min({Len(s) + 1} \cup {i \in c.at..Len(s) : s[i] # " "})]
peek(s, c) == IF c.at \in DOMAIN s THEN s[c.at] ELSE ""

\* The first of some symbols that the text goes on with, or "".
TwoCharacters == "||" :> <<"|", "|">> @@ "&&" :> <<"&", "&">> @@ "==" :> <<"=", "=">>
            @@ "!=" :> <<"!", "=">> @@ ">=" :> <<">", "=">> @@ "<=" :> <<"<", "=">>
Pieces(symbol) == IF symbol \in DOMAIN TwoCharacters THEN TwoCharacters[symbol] ELSE <<symbol>>
match(s, c, symbols) ==
    LET at == skip_ws(s, c).at
        found == {i \in DOMAIN symbols : IsPrefix(Pieces(symbols[i]), SubSeq(s, at, Len(s)))}
    IN  IF c.ok /\ found # {} THEN symbols[Min(found)] ELSE ""
Behind(s, c, symbol) == [c EXCEPT !.at = skip_ws(s, c).at + Len(Pieces(symbol))]
lel_expect(s, c, symbol) ==
    IF match(s, c, <<symbol>>) = symbol THEN Behind(s, c, symbol) ELSE Throw(c)

\* The levels of the operators, from the weakest.
Levels == <<<<"||">>, <<"&&">>, <<"==", "!=", ">=", "<=", ">", "<">>, <<"+", "-">>, <<"*", "/">>>>
ComparisonLevel == 3
Make(op, level, left, right) ==
    CASE level < ComparisonLevel -> make_logical(op, left, right)
      [] level = ComparisonLevel -> make_compare(op, left, right)
      [] OTHER -> make_arith(op, left, right)

RECURSIVE Level(_, _, _), Operations(_, _, _), lel_unary(_, _), lel_primary(_, _), CallArguments(_, _)

Level(s, c, level) ==
    IF level > Len(Levels) THEN lel_unary(s, c) ELSE Operations(s, Level(s, c, level + 1), level)

\* A comparison has no second operator.
Operations(s, left, level) ==
    LET op == match(s, left, Levels[level])
        made == Make(op, level, left, Level(s, Behind(s, left, op), level + 1))
    IN  CASE op = "" -> left
          [] level = ComparisonLevel -> made
          [] OTHER -> Operations(s, made, level)

lel_unary(s, c) ==
    CASE match(s, c, <<"!">>) = "!" ->
           OfOne("unary", "!", lel_unary(s, Behind(s, c, "!")), {"boolean"}, "")
      [] match(s, c, <<"-">>) = "-" -> make_negate(lel_primary(s, Behind(s, c, "-")))
      [] OTHER -> lel_primary(s, c)

\* The arguments behind the opening parenthesis, as cursors.
CallArguments(s, cs) ==
    LET next == Level(s, Behind(s, Last(cs), ","), 1)
    IN  IF match(s, Last(cs), <<",">>) = "," THEN CallArguments(s, Append(cs, next)) ELSE cs

parse_function_call(s, c, name) ==
    LET open == lel_expect(s, c, "(")
        args == IF match(s, open, <<")">>) = ")" THEN <<>> ELSE CallArguments(s, <<Level(s, open, 1)>>)
        n == Len(args)
        made ==
          CASE \E i \in DOMAIN args : ~args[i].ok -> Throw(open)
            [] name \in {"min", "max"} /\ n = 1 -> apply_reduce(name, args[1])
            [] name \in {"min", "max"} \cup Math2 /\ n = 2 -> apply_math2(name, args[1], args[2])
            [] name = "iif" /\ n = 3 ->
                 LET values == [i \in 1..3 |-> args[i].value]
                     typed == /\ values[1].type = "boolean" /\ values[2].type = values[3].type
                              /\ values[2].type \in Reals \cup {"boolean"}
                 IN  IF typed THEN Made(args[3], LelNode("iif", "", values[2].type, values))
                     ELSE Throw(open)
            [] name = "value" /\ n = 1 -> OfOne("value", "", args[1], Reals \cup {"boolean"}, "")
            [] name = "mask" /\ n = 1 -> OfOne("mask", "", args[1], Reals \cup {"boolean"}, "boolean")
            [] name \in Math1 /\ n = 1 -> apply_math1(name, args[1])
            [] name \in Reduces /\ n = 1 -> apply_reduce(name, args[1])
            [] name \in BoolReduces /\ n = 1 ->
                 OfOne("bool_reduce", name, args[1], {"boolean"}, "float32")
            [] OTHER -> Throw(open)
    IN  lel_expect(s, made, ")")

parse_identifier_or_call(s, c, name) ==
    CASE name \in Trues -> Made(c, lel_scalar("boolean", <<"true">>))
      [] name \in Falses -> Made(c, lel_scalar("boolean", <<"false">>))
      [] match(s, c, <<"(">>) = "(" -> parse_function_call(s, c, name)
      [] name \in DOMAIN LelSymbols -> Made(c, LelSymbols[name])
      [] OTHER -> Throw(c)

lel_primary(s, c) ==
    LET start == skip_ws(s, c)
        piece == peek(s, start)
        next == [start EXCEPT !.at = @ + 1]
    IN  CASE ~c.ok -> c
          [] piece = "(" -> lel_expect(s, Level(s, next, 1), ")")
          [] piece \in LelNumbers -> Made(next, lel_scalar("float32", <<piece>>))
          [] piece \in DOMAIN LelSymbols \cup FunctionNames \cup Trues \cup Falses ->
               parse_identifier_or_call(s, next, piece)
          [] OTHER -> Throw(start)

\* Everything behind the expression but blanks is an error.
lel_parse(s) ==
    LET end == Level(s, Start, 1)
    IN  IF end.ok THEN If(skip_ws(s, end).at > Len(s), end) ELSE end

----------------------------------------------------------------------------
(***************************************************************************)
(* What a lattice expression means, pixel by pixel, and how it is written, *)
(* against which the nodes and the parser of LatticeExprs are checked.  An *)
(* expression grows by an operator around it.                              *)
(***************************************************************************)

CONSTANTS
    LelEval(_), LelParse(_),    \* lel_eval and lel_parse
    MaxLelOperators             \* around each other

VARIABLES
    lel,            \* the root of the expression, if there is one
    lelOperators    \* around each other in it

lelVars == <<lel, lelOperators>>

----------------------------------------------------------------------------
(* The meaning of an expression.                                           *)

\* The shapes of the lattices in it that a reduction does not hide; it may only
\* be evaluated when no operator meets two of them.
RECURSIVE Sizes(_), Fits(_)
Sizes(n) ==
    CASE n.kind = "array" -> {Len(n.data)}
      [] n.kind \in Reductions -> {}
      [] OTHER -> UNION {Sizes(n.args[i]) : i \in DOMAIN n.args}
Fits(n) == Cardinality(Sizes(n)) <= 1 /\ \A i \in DOMAIN n.args : Fits(n.args[i])

Size(n) == IF Sizes(n) = {} THEN 1 ELSE Max(Sizes(n))

\* A pixel is good when all the pixels it depends on are, unless the operators
\* in between do not care.
RECURSIVE Good(_, _), Pixel(_, _)
Good(n, i) ==
    CASE n.kind = "array" -> n.mask = <<>> \/ n.mask[i]
      [] n.kind \in Reductions \cup {"value", "mask"} -> TRUE
      [] OTHER -> \A k \in DOMAIN n.args : Good(n.args[k], i)

Pixel(n, i) ==
    LET all == [k \in 1..Size(n.args[1]) |-> k]
        good == SelectSeq(all, LAMBDA k : Good(n.args[1], k))
    IN  CASE n.kind = "array" -> n.data[i]
          [] n.kind = "scalar" -> n.data[1]
          [] n.kind \in Reductions -> <<n.op, [k \in DOMAIN good |-> Pixel(n.args[1], good[k])]>>
          [] n.kind = "value" -> Pixel(n.args[1], i)
          [] n.kind = "mask" -> BooleanTerm(Good(n.args[1], i))
          [] OTHER -> Computed(n, [k \in DOMAIN n.args |-> Pixel(n.args[k], i)])

----------------------------------------------------------------------------
(* The text of an expression, with a blank between its pieces or without.  *)

\* The parser has no complex operands.
RECURSIVE Written(_), LelText(_, _)
Written(n) == ~n.type \in {"complex64"} /\ \A i \in DOMAIN n.args : Written(n.args[i])

LelStrength(n) ==
    CASE n.op = "||" -> 1 [] n.op = "&&" -> 2 [] n.kind = "compare" -> 3
      [] n.op \in {"+", "-"} /\ n.kind = "binary" -> 4 [] n.kind = "binary" -> 5
      [] n.kind = "unary" -> 6 [] OTHER -> 7

NameOf(n) == CHOOSE name \in DOMAIN LelSymbols : LelSymbols[name] = n

LelText(n, strength) ==
    LET child(i, s) == LelText(n.args[i], s)
        level == LelStrength(n)
        call == <<IF n.op = "" THEN n.kind ELSE n.op, "(">>
                \o FlattenSeq([i \in DOMAIN n.args |-> (IF i = 1 THEN <<>> ELSE <<",">>) \o child(i, 1)])
                \o <<")">>
        text ==
          CASE n.kind = "array" -> <<NameOf(n)>>
            [] n.kind = "scalar" -> <<IF n.data[1] = <<"true">> THEN "T" ELSE n.data[1][1]>>
            [] level \in 1..5 -> child(1, IF level = 3 THEN 4 ELSE level) \o Pieces(n.op) \o child(2, level + 1)
            [] n.kind = "unary" -> <<n.op>> \o child(1, IF n.op = "!" THEN 6 ELSE 7)
            [] OTHER -> call
    IN  CASE n.kind = "promote" -> LelText(n.args[1], strength)
          [] level < strength -> <<"(">> \o text \o <<")">>
          [] OTHER -> text

\* A blank may stand between any two pieces but those of one symbol.
Spaced(text) ==
    FlattenSeq([i \in DOMAIN text |->
                   IF i < Len(text) /\ \E symbol \in DOMAIN TwoCharacters :
                                          TwoCharacters[symbol] = <<text[i], text[i + 1]>>
                   THEN <<text[i]>> ELSE <<text[i], " ">>])

----------------------------------------------------------------------------
(* Expressions that grow.                                                  *)

Operands == {LelSymbols[name] : name \in DOMAIN LelSymbols}
            \cup {lel_scalar("float32", <<"1">>), lel_scalar("boolean", <<"true">>)}
Typed(types) == {x \in Operands : x.type \in types}

\* The nodes that combine two: either on either side.
Either(x, e, Combine(_, _)) == {Combine(x, e), Combine(e, x)}
Arithmetic(l, r) ==
    LET both == Promoted(l, r)
    IN  {LelNode("binary", op, both[1].type, both) : op \in {"+", "-", "*", "/"}}
        \cup {LelNode("compare", op, "boolean", both) : op \in {"==", "<", ">="}}
        \cup {LelNode("func2", op, both[1].type, both) : op \in {"pow", "min"}}
Logical(l, r) == {LelNode("binary", op, "boolean", <<l, r>>) : op \in {"&&", "||"}}
FormComplex(re, im) == {LelNode("form_complex", "", "complex64", <<re, im>>)}

\* iif does not look whether its operands have the same shape; they have here.
Iifs(e) ==
    LET Iif(c, t, f) == LelNode("iif", "", t.type, <<c, t, f>>)
        all == (IF e.type \in Reals \cup {"boolean"}
                THEN {Iif(c, e, x) : c \in Typed({"boolean"}), x \in Typed({e.type})}
                     \cup {Iif(c, x, e) : c \in Typed({"boolean"}), x \in Typed({e.type})}
                ELSE {})
               \cup (IF e.type = "boolean"
                     THEN {Iif(e, x, y) : x, y \in Typed({"float32"})} ELSE {})
    IN  {n \in all : Cardinality(Sizes(n)) <= 1}

WithOperator(e) ==
    LET one(kind, op, type) == LelNode(kind, op, type, <<e>>)
    IN  Iifs(e) \cup
        CASE e.type \in Reals ->
               UNION {UNION Either(x, e, Arithmetic) : x \in Typed(Reals)}
               \cup {one("unary", "-", e.type), one("func1", "sin", e.type), one("value", "", e.type),
                     one("mask", "", "boolean"), one("reduce", "sum", e.type), one("reduce", "max", e.type)}
               \cup (IF e.type = "float32"
                     THEN {one("promote", "", "float64")}
                          \cup UNION {UNION Either(x, e, FormComplex) : x \in Typed({"float32"})}
                     ELSE {})
          [] e.type = "boolean" ->
               UNION {UNION Either(x, e, Logical) : x \in Typed({"boolean"})}
               \cup {one("unary", "!", "boolean"), one("value", "", "boolean"), one("mask", "", "boolean"),
                     one("bool_reduce", "ntrue", "float32"), one("bool_reduce", "any", "float32")}
          [] OTHER ->
               {one("real", "", "float32"), one("imag", "", "float32"), one("arg", "", "float32"),
                one("complex_abs", "", "float32"), one("conj", "", "complex64"),
                LelNode("binary", "*", "complex64", <<e, e>>)}

LelInit == lel \in Operands /\ lelOperators = 0

LelGrow ==
    /\ lelOperators < MaxLelOperators
    /\ lel' \in WithOperator(lel)
    /\ lelOperators' = lelOperators + 1

----------------------------------------------------------------------------
(* Properties.                                                             *)

\* A promotion is only written when an operand beside it asks for it.
RECURSIVE Needed(_)
Needed(n) ==
    /\ n.kind # "promote"
    /\ \A i \in DOMAIN n.args :
          Needed(IF n.kind \in Binaries /\ n.args[i].kind = "promote" /\ n.args[3 - i].kind # "promote"
                 THEN n.args[i].args[1] ELSE n.args[i])

\* Each pixel of an expression is computed from the same pixel of its lattices and
\* from its scalars, with all good pixels in a reduction, and is good when they
\* all are; lattices of different shapes are refused; and the text of the
\* expression, with the fewest parentheses, is parsed to it.
LatticeExpressionsHold ==
    lel # <<>> =>
    LET r == LelEval(lel)
    IN  /\ r.ok = Fits(lel)
        /\ r.ok => /\ r.values = [i \in 1..Size(lel) |-> Pixel(lel, i)]
                   /\ [i \in DOMAIN r.values |-> r.mask = <<>> \/ r.mask[i]]
                        = [i \in 1..Size(lel) |-> Good(lel, i)]
        /\ Written(lel) /\ Needed(lel) =>
              \A text \in {LelText(lel, 1), Spaced(LelText(lel, 1))} :
                 LelParse(text).ok /\ LelParse(text).value = lel
=============================================================================
