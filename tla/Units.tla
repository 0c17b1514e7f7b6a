-------------------------------- MODULE Units --------------------------------
(***************************************************************************)
(* Units as the parser of src/src/unit.cpp reads them, and quantities      *)
(* (src/src/quantity.cpp), whose products and quotients put together the   *)
(* name of their unit and parse it.                                        *)
(*                                                                         *)
(* A factor, like the value of a quantity, is a product of powers of some  *)
(* numbers, and a UnitVal the exponents of these and of its dimensions.  A *)
(* name is a sequence of characters.                                       *)
(***************************************************************************)
EXTENDS Cursors

Dims == {"LENGTH", "MASS", "TIME", "ANGLE"}
Factors == {"10", "60", "24", "365.25", "degree", "inch", "knot"}

----------------------------------------------------------------------------
(* Dimensions and factors.                                                 *)

UnitVal(exponents) == [x \in Dims \cup Factors |-> IF x \in DOMAIN exponents THEN exponents[x] ELSE 0]
NoDims == [x \in Dims \cup Factors |-> 0]

\* An exponent of a dimension is an int8_t.
Int8(n) == ((n + 128) % 256) - 128
Narrowed(u) == [x \in Dims \cup Factors |-> IF x \in Dims THEN Int8(u[x]) ELSE u[x]]

UnitTimes(u, v) == Narrowed([x \in DOMAIN u |-> u[x] + v[x]])
UnitOver(u, v) == Narrowed([x \in DOMAIN u |-> u[x] - v[x]])
UnitPower(u, n) == Narrowed([x \in DOMAIN u |-> u[x] * n])
UnitsConform(u, v) == \A d \in Dims : u[d] = v[d]

\* All the units, and all the prefixes, that can be spelled with UnitLetters.
UnitMap ==
    <<"m">> :> UnitVal("LENGTH" :> 1) @@ <<"s">> :> UnitVal("TIME" :> 1)
    @@ <<"k", "g">> :> UnitVal("MASS" :> 1) @@ <<"g">> :> UnitVal("MASS" :> 1 @@ "10" :> -3)
    @@ <<"a", "s">> :> UnitVal("ANGLE" :> 1 @@ "degree" :> 1 @@ "60" :> -2)
    @@ <<"m", "i", "n">> :> UnitVal("TIME" :> 1 @@ "60" :> 1)
    @@ <<"h">> :> UnitVal("TIME" :> 1 @@ "60" :> 2)
    @@ <<"d">> :> UnitVal("TIME" :> 1 @@ "60" :> 2 @@ "24" :> 1)
    @@ <<"a">> :> UnitVal("TIME" :> 1 @@ "60" :> 2 @@ "24" :> 1 @@ "365.25" :> 1)
    @@ <<"i", "n">> :> UnitVal("LENGTH" :> 1 @@ "inch" :> 1)
    @@ <<"h", "a">> :> UnitVal("LENGTH" :> 2 @@ "10" :> 4)
    @@ <<"k", "n">> :> UnitVal("LENGTH" :> 1 @@ "TIME" :> -1 @@ "knot" :> 1)
UnitPrefixes ==
    <<"k">> :> 3 @@ <<"h">> :> 2 @@ <<"d", "a">> :> 1 @@ <<"d">> :> -1 @@ <<"m">> :> -3
    @@ <<"n">> :> -9 @@ <<"a">> :> -18

\* The whole name, or a prefix of one letter, or of two.
resolve_field(field) ==
    LET Prefixed(n) == Len(field) > n /\ SubSeq(field, 1, n) \in DOMAIN UnitPrefixes
                       /\ SubSeq(field, n + 1, Len(field)) \in DOMAIN UnitMap
        With(n) == UnitTimes(UnitMap[SubSeq(field, n + 1, Len(field))],
                             UnitVal("10" :> UnitPrefixes[SubSeq(field, 1, n)]))
    IN  CASE field \in DOMAIN UnitMap -> <<UnitMap[field]>>
          [] Prefixed(1) -> <<With(1)>>
          [] Prefixed(2) -> <<With(2)>>
          [] OTHER -> <<>>

----------------------------------------------------------------------------
(* The parser.                                                             *)

UnitLetters == {"m", "s", "g", "i", "n", "h", "k", "d", "a"}
Digits0 == "0" :> 0 @@ "1" :> 1 @@ "2" :> 2 @@ "3" :> 3
is_unit_start(char) == char \in UnitLetters
is_unit_char(char) == is_unit_start(char) \/ char = "0"

Char(s, at) == IF at \in DOMAIN s THEN s[at] ELSE ""
PastDigits(s, at) == Min({Len(s) + 1} \cup {i \in at..Len(s) : s[i] \notin DOMAIN Digits0})

\* ^, ** or neither, a sign or none, and digits; without digits it is 1.
parse_exponent(s, c) ==
    LET char == Char(s, c.at)
        start == CASE char = "^" -> c.at + 1
                   [] char = "*" /\ Char(s, c.at + 1) = "*" -> c.at + 2
                   [] OTHER -> c.at
        none == start = c.at /\ char \notin DOMAIN Digits0 \cup {"-", "+"}
        sign == IF Char(s, start) = "-" THEN -1 ELSE 1
        digits == IF Char(s, start) \in {"-", "+"} THEN start + 1 ELSE start
        end == PastDigits(s, digits)
        value == FoldLeft(LAMBDA x, digit : 10 * x + Digits0[digit], 0, SubSeq(s, digits, end - 1))
    IN  IF none THEN Returns(c, 1)
        ELSE [c EXCEPT !.at = end, !.value = IF end > digits THEN sign * value ELSE 1]

Raised(s, c) ==
    LET exponent == parse_exponent(s, c)
    IN  IF c.ok THEN Returns(exponent, UnitPower(c.value, exponent.value)) ELSE c

PastBlanks(s, c) == [c EXCEPT !.at = Min({Len(s) + 1} \cup {i \in c.at..Len(s) : s[i] # " "})]

\* The place of the parenthesis that closes the one before a place, or the end.
Closed(s, at) ==
    LET Depth(i) == Cardinality({j \in at..i : s[j] = "("}) + 1
                    - Cardinality({j \in at..i : s[j] = ")"})
    IN  Min({Len(s) + 1} \cup {i \in at..Len(s) : Depth(i) = 0})

RECURSIVE parse_compound(_, _), parse_atom(_, _), MoreAtoms(_, _)
parse_atom(s, c) ==
    LET close == Closed(s, c.at + 1)
        inner == parse_compound(SubSeq(s, c.at + 1, close - 1), Start)
        end == Min({Len(s) + 1} \cup {i \in (c.at + 1)..Len(s) : ~is_unit_char(s[i])})
        resolved == resolve_field(SubSeq(s, c.at, end - 1))
    IN  CASE c.at > Len(s) -> Returns(c, NoDims)
          [] s[c.at] = "(" /\ close > Len(s) -> Throw(c)
          [] s[c.at] = "(" -> Raised(s, [inner EXCEPT !.at = close + 1])
          [] ~is_unit_start(s[c.at]) -> Throw(c)
          [] resolved = <<>> -> Throw(c)
          [] OTHER -> Raised(s, [c EXCEPT !.at = end, !.value = resolved[1]])

\* The atoms behind the first, each with its separator or with none.
MoreAtoms(s, before) ==
    LET c == PastBlanks(s, before)
        separator == Char(s, c.at)
        separated == separator \in {".", "/"} \/ (separator = "*" /\ Char(s, c.at + 1) # "*")
        atom == parse_atom(s, IF separated THEN [c EXCEPT !.at = @ + 1] ELSE c)
        result == IF separator = "/" THEN UnitOver(c.value, atom.value) ELSE UnitTimes(c.value, atom.value)
    IN  CASE ~c.ok \/ c.at > Len(s) -> c
          [] ~separated /\ ~is_unit_start(separator) /\ separator # "(" -> c
          [] ~atom.ok -> atom
          [] OTHER -> MoreAtoms(s, Returns(atom, result))

parse_compound(s, start) ==
    LET c == PastBlanks(s, start)
    IN  IF c.at > Len(s) THEN Returns(c, NoDims) ELSE MoreAtoms(s, parse_atom(s, c))

\* try_parse_unit: undefined when the parser throws or stops before the end.
try_parse_unit(s) ==
    LET end == parse_compound(s, Start)
    IN  IF end.ok /\ end.at > Len(s) THEN [defined |-> TRUE, unit |-> end.value]
        ELSE [defined |-> FALSE, unit |-> NoDims]

----------------------------------------------------------------------------
(* Quantities: a value and a unit with its name, what it was parsed to and *)
(* whether it could be.                                                    *)

Quantity(value, name, parsed) == [value |-> value, name |-> name, unit |-> parsed.unit, defined |-> parsed.defined]

InParentheses(name) == <<"(">> \o name \o <<")">>
ProductName(name, other) ==
    CASE name = <<>> -> other
      [] other = <<>> -> name
      [] OTHER -> InParentheses(name) \o <<".">> \o InParentheses(other)

\* Mutant: the divisor of a quotient is not put in parentheses.
QuotientNameBare(name, other) ==
    CASE other = <<>> -> name
      [] name = <<>> -> InParentheses(other) \o <<"-", "1">>
      [] OTHER -> InParentheses(name) \o <<"/">> \o other

QuotientName(name, other) ==
    CASE other = <<>> -> name
      [] name = <<>> -> InParentheses(other) \o <<"-", "1">>
      [] OTHER -> InParentheses(name) \o <<"/">> \o InParentheses(other)

QuantityConforms(q, other) == q.defined /\ other.defined /\ UnitsConform(q.unit, other.unit)

\* Its dimensions, and its value in SI units.
InSI(q) == UnitTimes(q.unit, q.value)

convert(q, target) ==
    [target EXCEPT !.value = [x \in DOMAIN q.value |-> IF x \in Dims THEN 0 ELSE InSI(q)[x] - target.unit[x]]]

----------------------------------------------------------------------------
(***************************************************************************)
(* A unit as it is written, atom by atom, with what it means, and a        *)
(* quantity that is multiplied and divided by one of such a unit, or       *)
(* converted to it, with what it measures.                                 *)
(***************************************************************************)

CONSTANTS
    ParseUnit(_),    \* try_parse_unit
    MaxUnitSteps

VARIABLES
    unitText, unitMeaning,    \* the unit that is being written
    quantity, measured,       \* a quantity, and its dimensions and its value in SI units
    unitSteps

unitVars == <<unitText, unitMeaning, quantity, measured, unitSteps>>

----------------------------------------------------------------------------
(* What is written.                                                        *)

\* The meaning of a text is in exponents as well.
UnitSum(u, v) == [x \in DOMAIN u |-> u[x] + v[x]]
UnitScaled(u, n) == [x \in DOMAIN u |-> u[x] * n]

\* A prefix or none before the name of a unit.
Spelled(prefix, unit) == prefix \o unit
Spellings == ((DOMAIN UnitPrefixes) \cup {<<>>}) \X DOMAIN UnitMap
MeaningOf(spelling) ==
    UnitSum(UnitMap[spelling[2]],
            UnitVal("10" :> (<<>> :> 0 @@ UnitPrefixes)[spelling[1]]))

\* Letters that spell two things are taken for the one with the shorter prefix,
\* or with none: das, ten seconds, for a tenth of an arcsecond, and min, a
\* thousandth of an inch, for a minute.
TakenFor(name) ==
    LET spellings == {p \in Spellings : Spelled(p[1], p[2]) = name}
        shortest == Min({Len(p[1]) : p \in spellings})
    IN  MeaningOf(CHOOSE p \in spellings : Len(p[1]) = shortest)

FirstNames == {<<"d", "a", "s">>, <<"m", "i", "n">>}
LaterNames == {<<"k", "m">>, <<"d", "a", "m">>}
UnitNames == [name \in FirstNames \cup LaterNames |-> TakenFor(name)]
UnitPowers == <<"2">> :> 2 @@ <<"-", "1">> :> -1 @@ <<"^", "+", "3">> :> 3 @@ <<"*", "*", "-", "2">> :> -2
PlainPower == <<>> :> 1
UnitSeparators == <<".">> :> 1 @@ <<"*">> :> 1 @@ <<" ">> :> 1 @@ <<" ", "/">> :> -1 @@ <<"/">> :> -1 @@ <<>> :> 1

\* Two names may only stand beside each other behind an exponent.
Beside(text, separator) == separator = <<>> => Last(text) \in DOMAIN Digits0 \cup {")"}

NoUnit == Quantity(NoDims, <<>>, [unit |-> NoDims, defined |-> TRUE])

UnitInit ==
    /\ unitText \in FirstNames /\ unitMeaning = UnitNames[unitText]
    /\ quantity = NoUnit /\ measured = NoDims
    /\ unitSteps = 0

WriteAtom ==
    \E name \in LaterNames, power \in {<<>>, <<"-", "1">>}, separator \in DOMAIN UnitSeparators :
        /\ Beside(unitText, separator)
        /\ power # <<>> => separator \in {<<".">>, <<"/">>}
        /\ unitText' = unitText \o separator \o name \o power
        /\ unitMeaning' = UnitSum(unitMeaning, UnitScaled(UnitNames[name], UnitSeparators[separator]
                                                               * (PlainPower @@ UnitPowers)[power]))
        /\ UNCHANGED <<quantity, measured>>

WriteParentheses ==
    \E power \in DOMAIN UnitPowers :
        /\ unitText' = InParentheses(unitText) \o power
        /\ unitMeaning' = UnitScaled(unitMeaning, UnitPowers[power])
        /\ UNCHANGED <<quantity, measured>>

CombinedUnits(q, other, Name(_, _), Combine(_, _)) ==
    LET name == Name(q.name, other.name)
    IN  Quantity(Combine(q.value, other.value), name,
                 IF name = <<>> THEN [unit |-> NoDims, defined |-> TRUE] ELSE ParseUnit(name))

OneOfIt == Quantity(NoDims, unitText, ParseUnit(unitText))

MultiplyBy ==
    /\ quantity' = CombinedUnits(quantity, OneOfIt, ProductName, UnitTimes)
    /\ measured' = UnitSum(measured, unitMeaning)
    /\ UNCHANGED <<unitText, unitMeaning>>

DivideBy ==
    /\ quantity' = CombinedUnits(quantity, OneOfIt, QuotientName, UnitOver)
    /\ measured' = UnitSum(measured, UnitScaled(unitMeaning, -1))
    /\ UNCHANGED <<unitText, unitMeaning>>

ConvertTo ==
    /\ QuantityConforms(quantity, OneOfIt)
    /\ quantity' = convert(quantity, OneOfIt)
    /\ UNCHANGED <<unitText, unitMeaning, measured>>

UnitNext ==
    /\ unitSteps < MaxUnitSteps
    /\ unitSteps' = unitSteps + 1
    /\ WriteAtom \/ WriteParentheses \/ MultiplyBy \/ DivideBy \/ ConvertTo

----------------------------------------------------------------------------
(* Properties.                                                             *)

\* A unit is read as it is written, from left to right but for what is in
\* parentheses, however its multiplications and exponents are spelled, except
\* that a name that can be split in two ways is the one with the shorter prefix
\* (unit.cpp:524-542), which for das is not what the prefix da promises; and a
\* quantity keeps measuring what went into it, whatever products and quotients
\* have put into the name of its unit, and whatever it was converted to.
UnitsMeanWhatTheySay ==
    unitText # <<>> =>
        /\ ParseUnit(unitText) = [defined |-> TRUE, unit |-> unitMeaning]
        /\ quantity.defined
        /\ InSI(quantity) = measured
=============================================================================
