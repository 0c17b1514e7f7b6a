---------------------------- MODULE MsSelection ----------------------------
(***************************************************************************)
(* MsSelection (src/src/ms_selection.cpp): expressions of twelve categories *)
(* select rows of the main table of a MeasurementSet.  evaluate() goes     *)
(* through the categories and narrows the selected rows; to_taql_where()   *)
(* writes the same selection as the WHERE clause of a TaQL query.          *)
(*                                                                         *)
(* An expression is what the splitting into tokens makes of its text: a    *)
(* record whose "form" says which alternative of the parser it takes.  A   *)
(* name, glob or regular expression is the set of the names it matches; the *)
(* form "bad" and the token "bad" stand for texts that are refused.  Ids   *)
(* count from 0, as in the code, and may be -1.                            *)
(***************************************************************************)
EXTENDS Integers, Sequences, FiniteSets

CONSTANTS
    MainCell,   \* the main rows: a function from row numbers to records
    Names,      \* per subtable, its rows' names: antenna, field, spw, state
    DdSpw,      \* DATA_DESCRIPTION: the window of each row
    Selections  \* what may be selected: functions from categories to expressions

Categories == <<"antenna", "field", "spw", "scan", "time", "uvdist", "corr",
                "state", "obs", "array", "feed", "taql">>
Category == {Categories[i] : i \in DOMAIN Categories}
MRows == DOMAIN MainCell
Unset == [form |-> "unset"]

\* The alternatives of each category's parser.
FormsOf(c) ==
    CASE c = "antenna" -> {"pair", "list"}
      [] c \in {"field", "scan", "obs", "array"} -> {"list", "below", "above"}
      [] c = "spw" -> {"list"}
      [] c \in {"time", "uvdist"} -> {"above", "below", "between"}
      [] c = "corr" -> {"names"}
      [] c = "state" -> {"list", "pattern", "below", "above"}
      [] c = "feed" -> {"pair", "list"}
      [] c = "taql" -> {"where"}

PairExpr == [form : {"pair"}, neg : BOOLEAN, link : {"&", "&&", "&&&"},
             lhs : Int, rhs : SUBSET Int, star : BOOLEAN]

ASSUME MsSelectionAssumption ==
    \A s \in Selections :
        /\ DOMAIN s = Category
        /\ \A c \in Category : /\ s[c].form \in FormsOf(c) \cup {"unset", "empty", "bad"}
                               /\ s[c].form = "unset" => s[c] = Unset
                               /\ s[c].form = "pair" => s[c] \in PairExpr

VARIABLES
    expr,       \* the expression of each category
    collect,    \* ErrorMode::CollectErrors
    at,         \* the category to evaluate next, 0 before evaluate is called
    selected,   \* the rows that passed so far
    errors,     \* the categories whose expression was refused
    listed      \* the ids each category put into the result

selectionVars == <<expr, collect, at, selected, errors, listed>>

Threw == 14
SelectionTypeOK ==
    /\ DOMAIN expr = Category
    /\ collect \in BOOLEAN
    /\ at \in 0..Threw
    /\ selected \subseteq MRows
    /\ errors \subseteq Category
    /\ DOMAIN listed = Category
    /\ \A c \in Category : listed[c] \subseteq Int

----------------------------------------------------------------------------
(* Tokens.                                                                 *)

IsNumeric(tokens) == \A i \in DOMAIN tokens : tokens[i].k \in {"id", "range"}

\* parse_int_list_or_range: a range that goes down is empty.
IdsOf(tokens) ==
    UNION {IF tokens[i].k = "id" THEN {tokens[i].v} ELSE tokens[i].lo..tokens[i].hi
            : i \in DOMAIN tokens}

\* name_match over the rows of a subtable; a number matches no name.
Matches(t, token) ==
    IF token.k = "name" THEN {i \in DOMAIN Names[t] : Names[t][i] \in token.match} ELSE {}

Refused == [ok |-> FALSE, rows |-> MRows, ids |-> {}]
Accept(S, ids) == [ok |-> TRUE, rows |-> S, ids |-> ids]

Having(f, ids) == {r \in MRows : MainCell[r][f] \in ids}
Beyond(e, f) == {r \in MRows : IF e.form = "below" THEN MainCell[r][f] < e.v
                               ELSE MainCell[r][f] > e.v}
Signed(e, S) == IF e.neg THEN MRows \ S ELSE S

\* Ids or names, all of one kind; every name must be found.
Resolve(t, tokens) ==
    IF IsNumeric(tokens) THEN [ok |-> TRUE, ids |-> IdsOf(tokens)]
    ELSE [ok |-> \A i \in DOMAIN tokens : Matches(t, tokens[i]) # {},
          ids |-> UNION {Matches(t, tokens[i]) : i \in DOMAIN tokens}]

----------------------------------------------------------------------------
(* The categories of evaluate().                                           *)

\* "a&b", "a&&b" and "a&&&" over a pair of columns; rhs holds the second id, or
\* nothing for "a&*" and for "a&".
PairRows(e, x, y) ==
    LET Is(A, B) == Having(x, A) \cap Having(y, B)
        cross == Is({e.lhs}, e.rhs) \cup Is(e.rhs, {e.lhs})
    IN  CASE e.link = "&&&" -> Is({e.lhs}, {e.lhs})
          [] e.link # "&&&" /\ e.rhs = {} -> Having(x, {e.lhs}) \cup Having(y, {e.lhs})
          [] e.link = "&" /\ e.rhs # {} -> cross
          [] OTHER -> cross \cup Is({e.lhs}, {e.lhs}) \cup Is(e.rhs, e.rhs)

PairIds(e) == {e.lhs} \cup (IF e.link = "&&&" THEN {} ELSE e.rhs)

\* The id before the "&" is in the result although the expression is refused.
AntennaFilter(e) ==
    IF e.form = "pair"
    THEN IF e.rhs = {} /\ ~e.star /\ e.link # "&&&" THEN [Refused EXCEPT !.ids = {e.lhs}]
         ELSE Accept(Signed(e, PairRows(e, "ant1", "ant2")), PairIds(e))
    ELSE LET found == Resolve("antenna", e.tokens)
         IN  IF found.ok /\ \A i \in DOMAIN e.tokens :
                                e.tokens[i].k = "id" => e.tokens[i].v >= 0
             THEN Accept(Signed(e, Having("ant1", found.ids) \cup Having("ant2", found.ids)),
                         found.ids)
             ELSE Refused

\* A bound selects among the rows of FIELD, not among the ids in the main rows.
FieldFilter(e) ==
    IF e.form \in {"below", "above"}
    THEN LET ids == {i \in DOMAIN Names["field"] : IF e.form = "below" THEN i < e.v ELSE i > e.v}
         IN  Accept(Having("field", ids), ids)
    ELSE LET found == Resolve("field", e.tokens)
         IN  IF found.ok THEN Accept(Signed(e, Having("field", found.ids)), found.ids)
             ELSE Refused

\* Each token is an id, a range, an id with channels, a name, a frequency, which
\* may match no window, or "*".
SpwFilter(e) ==
    LET Spws(k) == CASE k.k \in {"id", "chan"} -> {k.v}
                     [] k.k = "range" -> k.lo..k.hi
                     [] k.k = "all" -> DOMAIN Names["spw"]
                     [] k.k = "freq" -> {i \in DOMAIN Names["spw"] : Names["spw"][i] \in k.match}
                     [] k.k \in {"name", "bad"} -> Matches("spw", k)
        spws == UNION {Spws(e.tokens[i]) : i \in DOMAIN e.tokens}
    IN  IF \E i \in DOMAIN e.tokens :
            e.tokens[i].k \in {"name", "bad"} /\ Matches("spw", e.tokens[i]) = {}
        THEN Refused
        ELSE Accept(Having("dd", {d \in DOMAIN DdSpw : DdSpw[d] \in spws}), spws)

ListFilter(e, f) ==
    IF IsNumeric(e.tokens) THEN Accept(Signed(e, Having(f, IdsOf(e.tokens))), IdsOf(e.tokens))
    ELSE Refused

\* SCAN_NUMBER, OBSERVATION_ID and ARRAY_ID: a bound is on the main rows.
IdFilter(e, f) ==
    IF e.form \in {"below", "above"}
    THEN Accept(Beyond(e, f), {MainCell[r][f] : r \in Beyond(e, f)})
    ELSE ListFilter(e, f)

\* TIME and the uv distance; a unit is a factor.
Between(e, v, unit) ==
    CASE e.form = "above" -> v > e.v * unit
      [] e.form = "below" -> v < e.v * unit
      [] OTHER -> e.lo * unit <= v /\ v <= e.hi * unit

RangeFilter(e, f, unit) == Accept({r \in MRows : Between(e, MainCell[r][f], unit)}, {})

StateFilter(e) ==
    IF e.form = "list" THEN ListFilter(e, "state")
    ELSE LET ids == IF e.form = "pattern" THEN Matches("state", e.token)
                    ELSE {i \in DOMAIN Names["state"] : IF e.form = "below" THEN i < e.v
                                                        ELSE i > e.v}
         IN  Accept(Having("state", ids), ids)

FeedFilter(e) ==
    IF e.form = "pair" THEN Accept(Signed(e, PairRows(e, "feed1", "feed2")), PairIds(e))
    ELSE IF IsNumeric(e.tokens)
    THEN LET ids == IdsOf(e.tokens)
         IN  Accept(Signed(e, Having("feed1", ids) \cup Having("feed2", ids)), ids)
    ELSE Refused

\* The correlation expression narrows no rows; a TaQL condition is the rows that
\* meet it.
Filter(c, e) ==
    IF e.form \in {"empty", "bad"} THEN Refused
    ELSE CASE c = "antenna" -> AntennaFilter(e)
           [] c = "field" -> FieldFilter(e)
           [] c = "spw" -> SpwFilter(e)
           [] c \in {"scan", "obs", "array"} -> IdFilter(e, c)
           [] c = "time" -> RangeFilter(e, "time", 1)
           [] c = "uvdist" -> RangeFilter(e, "uvdist", e.unit)
           [] c = "corr" -> Accept(MRows, {})
           [] c = "state" -> StateFilter(e)
           [] c = "feed" -> FeedFilter(e)
           [] c = "taql" -> Accept(e.rows, {})

SelectionInit ==
    /\ expr = [c \in Category |-> Unset]
    /\ collect = FALSE
    /\ at = 0
    /\ selected = MRows
    /\ errors = {}
    /\ listed = [c \in Category |-> {}]

\* The set_..._expr() calls, set_error_mode() and the start of evaluate().
StartEvaluate ==
    /\ at = 0
    /\ expr' \in Selections
    /\ collect' \in BOOLEAN
    /\ at' = 1
    /\ UNCHANGED <<selected, errors, listed>>

SkipCategory ==
    /\ at \in DOMAIN Categories
    /\ expr[Categories[at]] = Unset
    /\ at' = at + 1
    /\ UNCHANGED <<expr, collect, selected, errors, listed>>

EvaluateCategory ==
    /\ at \in DOMAIN Categories
    /\ expr[Categories[at]] # Unset
    /\ LET c == Categories[at]
           f == Filter(c, expr[c])
       IN  /\ selected' = IF f.ok THEN selected \cap f.rows ELSE selected
           /\ errors' = IF f.ok THEN errors ELSE errors \cup {c}
           /\ listed' = [listed EXCEPT ![c] = f.ids]
           /\ at' = IF f.ok \/ collect THEN at + 1 ELSE Threw
    /\ UNCHANGED <<expr, collect>>

SelectionNext ==
    \/ StartEvaluate
    \/ SkipCategory
    \/ EvaluateCategory

SelectionSpec == SelectionInit /\ [][SelectionNext]_selectionVars

Evaluated == at = Len(Categories) + 1

----------------------------------------------------------------------------
(* to_taql_where().  A category gives a condition, no condition, an empty  *)
(* text, a text TaQL cannot parse ("IN []"), or an exception.              *)

Condition(S) == [gives |-> "condition", rows |-> S]
Gives(what) == [gives |-> what, rows |-> MRows]

InList(ids, S) == IF ids = {} THEN Gives("unparsable") ELSE Condition(S)

\* int_expr_to_taql leaves out an empty list, and with it the condition.
IntExprToTaql(e, f) ==
    IF ~IsNumeric(e.tokens) THEN Gives("exception")
    ELSE IF IdsOf(e.tokens) = {} THEN Gives("nothing")
    ELSE Condition(Signed(e, Having(f, IdsOf(e.tokens))))

OfNamed(t, ids) ==
    IF t = "antenna" THEN Having("ant1", ids) \cup Having("ant2", ids) ELSE Having(t, ids)

\* A text with "~" is taken for a range until it is parsed.  Names that are not
\* found are no error here.
NameToTaql(e, t) ==
    LET numeric == \A i \in DOMAIN e.tokens : e.tokens[i].k # "name"
        ids == IF numeric THEN IdsOf(e.tokens)
               ELSE UNION {Matches(t, e.tokens[i]) : i \in DOMAIN e.tokens}
    IN  CASE numeric /\ ~IsNumeric(e.tokens) -> Gives("exception")
          [] numeric /\ IsNumeric(e.tokens) /\ ids = {} /\ t = "field" -> Gives("nothing")
          [] OTHER -> InList(ids, Signed(e, OfNamed(t, ids)))

\* Mutant: one of the two orders of a baseline.
PairToTaqlOneWay(e, x, y) ==
    IF e.link = "&" /\ e.rhs # {}
    THEN Condition(Signed(e, Having(x, {e.lhs}) \cap Having(y, e.rhs)))
    ELSE Condition(Signed(e, PairRows(e, x, y)))

PairToTaql(e, x, y) == Condition(Signed(e, PairRows(e, x, y)))

AntennaToTaql(e) ==
    IF e.form = "pair" THEN PairToTaql(e, "ant1", "ant2")
    ELSE NameToTaql(e, "antenna")

FieldToTaql(e) ==
    IF e.form \in {"below", "above"} THEN Condition(Beyond(e, "field"))
    ELSE NameToTaql(e, "field")

\* Only an id, with or without channels, and "*" are looked at.
SpwToTaql(e) ==
    LET spws == UNION {CASE e.tokens[i].k \in {"id", "chan"} -> {e.tokens[i].v}
                         [] e.tokens[i].k = "all" -> DOMAIN Names["spw"]
                         [] OTHER -> {} : i \in DOMAIN e.tokens}
        dds == {d \in DOMAIN DdSpw : DdSpw[d] \in spws}
    IN  IF dds = {} THEN Gives("no condition") ELSE Condition(Having("dd", dds))

BoundOrList(e, f) ==
    IF e.form \in {"below", "above"} THEN Condition(Beyond(e, f)) ELSE IntExprToTaql(e, f)

\* A value with a unit is no number; the condition on the array column UVW is
\* one the evaluator, which reads scalar cells, cannot evaluate.
UvdistToTaql(e) == IF e.unit = 1 THEN Gives("unparsable") ELSE Gives("no condition")

StateToTaql(e) ==
    IF e.form # "pattern" THEN BoundOrList(e, "state")
    ELSE LET ids == Matches("state", e.token)
         IN  IF ids = {} THEN Gives("no condition") ELSE Condition(Having("state", ids))

\* "f1&&f2" is written as if it were "f1&f2".
FeedToTaql(e) ==
    IF e.form = "pair"
    THEN PairToTaql([e EXCEPT !.link = IF @ = "&&" THEN "&" ELSE @], "feed1", "feed2")
    ELSE IF ~IsNumeric(e.tokens) THEN Gives("exception")
    ELSE LET ids == IdsOf(e.tokens)
         IN  InList(ids, Signed(e, Having("feed1", ids) \cup Having("feed2", ids)))

\* An empty text is not refused; of TIME and the uv distance its first character
\* is looked at all the same, which is undefined.
EmptyToTaql(c) ==
    CASE c \in {"antenna", "feed"} -> Gives("unparsable")
      [] c \in {"field", "scan", "state", "obs", "array"} -> Gives("nothing")
      [] c \in {"spw", "corr", "taql"} -> Gives("no condition")
      [] c \in {"time", "uvdist"} -> Gives("exception")

ToTaql(c, e) ==
    IF e = Unset \/ c = "corr" THEN Gives("no condition")
    ELSE IF e.form = "bad" THEN Gives("exception")
    ELSE IF e.form = "empty" THEN EmptyToTaql(c)
    ELSE CASE c = "antenna" -> AntennaToTaql(e)
           [] c = "field" -> FieldToTaql(e)
           [] c = "spw" -> SpwToTaql(e)
           [] c \in {"scan", "obs", "array"} -> BoundOrList(e, c)
           [] c = "time" -> Condition(RangeFilter(e, "time", 1).rows)
           [] c = "uvdist" -> UvdistToTaql(e)
           [] c = "state" -> StateToTaql(e)
           [] c = "feed" -> FeedToTaql(e)
           [] c = "taql" -> Condition(e.rows)

\* The texts joined with AND.  A single empty text is no WHERE clause at all.
ToTaqlWhere(s) ==
    LET Giving(what) == {c \in Category : ToTaql(c, s[c]).gives = what}
        written == Giving("condition") \cup Giving("nothing") \cup Giving("unparsable")
    IN  IF \/ Giving("exception") # {} \/ Giving("unparsable") # {}
           \/ Giving("nothing") # {} /\ Cardinality(written) > 1
        THEN Gives("exception")
        ELSE Condition({r \in MRows : \A c \in Giving("condition") : r \in ToTaql(c, s[c]).rows})

----------------------------------------------------------------------------
(* Properties.                                                             *)

\* The columns whose bounds to_taql_where() takes over from the main rows while
\* evaluate() takes them from a subtable.
BoundsAgree(c) ==
    c \in {"field", "state"} => \A r \in MRows : MainCell[r][c] \in DOMAIN Names[c]

\* A list of ids, all of them ranges that go down.
NoIds(e) == e.form = "list" /\ IsNumeric(e.tokens) /\ IdsOf(e.tokens) = {}

\* The tokens of a window expression that to_taql_where() looks at, and whether
\* any data description has one of their windows.
IsLookedAt(token) == token.k \in {"id", "chan", "all"}
NoWindowFound(e) ==
    \A i \in DOMAIN e.tokens, d \in DOMAIN DdSpw :
        /\ e.tokens[i].k \in {"id", "chan"} => DdSpw[d] # e.tokens[i].v
        /\ e.tokens[i].k = "all" => DdSpw[d] \notin DOMAIN Names["spw"]

IsFeedPairWithAuto(c, e) == c = "feed" /\ e.form = "pair" /\ e.link = "&&"

\* What makes the WHERE clause select more rows than evaluate() does: a bound
\* that some main row meets with an id its subtable does not have, a condition
\* that is left out, and the negation of a pair written too narrow.
SelectsMore(c, e) ==
    \/ e.form \in {"below", "above"} /\ ~BoundsAgree(c)
    \/ NoIds(e)
    \/ c = "spw" /\ e.form = "list" /\ NoWindowFound(e)
    \/ c = "uvdist" /\ e # Unset
    \/ c = "state" /\ e.form = "pattern" /\ Matches("state", e.token) = {}
    \/ IsFeedPairWithAuto(c, e) /\ e.neg

\* What makes it select fewer: windows given by a name, a range or a frequency
\* beside others, and "f1&&f2", which is written as "f1&f2".
SelectsLess(c, e) ==
    \/ c = "spw" /\ e.form = "list" /\ \E i \in DOMAIN e.tokens : ~IsLookedAt(e.tokens[i])
    \/ IsFeedPairWithAuto(c, e) /\ ~e.neg

\* What makes it no clause at all.
HasNoClause(c, e) == NoIds(e) \/ c = "uvdist"

\* The rows that evaluate() selects and those that the WHERE clause does differ
\* only where one of the expressions says so, and only in that direction; and
\* nothing else keeps the clause from being executed (ms_selection.cpp:1421-1803
\* against 446-1371, two translations of every expression).
SelectionsAreExact ==
    Evaluated /\ errors = {} =>
        LET where == ToTaqlWhere(expr)
        IN  IF where.gives = "condition"
            THEN /\ (\A c \in Category : ~SelectsLess(c, expr[c])) => selected \subseteq where.rows
                 /\ (\A c \in Category : ~SelectsMore(c, expr[c])) => where.rows \subseteq selected
            ELSE \E c \in Category : expr[c] # Unset /\ HasNoClause(c, expr[c])

\* "The to_taql_where() method returns an equivalent TaQL WHERE clause"
\* (ms_selection.hpp:66-68, 291-293).
WhereIsEquivalent ==
    Evaluated /\ errors = {} => ToTaqlWhere(expr) = Condition(selected)
=============================================================================
