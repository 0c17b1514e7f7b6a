------------------------- MODULE MCMeasurementSets -------------------------
(***************************************************************************)
(* Instances for TLC of what is done with MeasurementSets: filling one     *)
(* that others open (MsFill), using one while it is filled again           *)
(* (MsTools), selecting rows (MsSelection) and concatenating two           *)
(* (MsConcat).  None of them calls another, so each is followed while the  *)
(* others rest.                                                            *)
(***************************************************************************)
EXTENDS MsConcat, MsTools, MsSelection, MsFill

----------------------------------------------------------------------------
(* MsFill: one subtable.                                                   *)
CONSTANTS name1, name2

OneSubtable == <<"ANTENNA">>

\* Names are only compared for equality.
Symmetry == Permutations(Name)

----------------------------------------------------------------------------
(* MsConcat: one or two antennas, fields, windows and data descriptions of *)
(* two names, with repeated names; one main row in each MeasurementSet,    *)
(* whose observations and polarizations differ.                            *)

NameLists == {<<a>> : a \in {"a", "b"}} \cup {<<a, b>> : a, b \in {"a", "b"}}

SmallMs(list, spws, dds, station, r) ==
    [antenna |-> list, field |-> Reverse(list), spw |-> spws, dd |-> dds,
     pol |-> IF station = "x" THEN <<"p", "q">> ELSE <<"q", "p">>,
     obs |-> [i \in DOMAIN list |-> IF i = 1 THEN station ELSE "z"],
     state |-> <<station>>, main |-> <<r>>]

MainRowOf(list, dds, st) ==
    {[ant1 |-> i, ant2 |-> Len(list), field |-> i, dd |-> d, obs |-> i, state |-> st]
        : i \in DOMAIN list, d \in DOMAIN dds}

DdLists(spws) == {<<[spw |-> Len(spws), pol |-> 1]>>,
                  <<[spw |-> 1, pol |-> 2], [spw |-> Len(spws), pol |-> 1]>>}

MsWith(lists, spwLists, station, states) ==
    UNION {UNION {{SmallMs(list, spws, dds, station, r) : r \in MainRowOf(list, dds, st)}
                    : dds \in DdLists(spws), st \in states}
            : list \in lists, spws \in spwLists}

ConcatInputs ==
    {[one |-> m, two |-> k] : m \in MsWith(NameLists, {<<"a">>}, "x", {1}),
                              k \in MsWith(NameLists, {<<"a">>}, "y", {1})}
    \cup {[one |-> m, two |-> k] : m \in MsWith({<<"a">>}, NameLists, "x", {1}),
                                   k \in MsWith({<<"a">>}, NameLists, "y", {0, 1})}

----------------------------------------------------------------------------
(* MsTools: three main rows of two keys, not in the order of their times,  *)
(* in bins of two time units; two antennas; two MeasurementSet objects.    *)

TwoAntennas == <<"a", "b">>

ToolRows == <<[key |-> 2, time |-> 3, flag |-> FALSE],
              [key |-> 1, time |-> 2, flag |-> FALSE],
              [key |-> 2, time |-> 4, flag |-> FALSE]>>

----------------------------------------------------------------------------
(* MsSelection: four rows, among them an autocorrelation and one without a *)
(* state, and expressions of one or two categories.                        *)

SelectionRows ==
    LET Cell(a, b, d, s) ==
            [ant1 |-> a, ant2 |-> b, field |-> a, dd |-> d, scan |-> b, time |-> a + b,
             uvdist |-> 1000 * b, state |-> s, obs |-> a, array |-> d, feed1 |-> a, feed2 |-> d]
    IN  <<Cell(0, 1, 0, 0), Cell(1, 1, 1, 1), Cell(1, 0, 2, 0), Cell(0, 2, 2, -1)>>

SubtableNames ==
    [antenna |-> [i \in 0..2 |-> <<"a", "b", "c">>[i + 1]],
     field |-> [i \in 0..1 |-> <<"a", "b">>[i + 1]],
     spw |-> [i \in 0..1 |-> <<"a", "b">>[i + 1]],
     state |-> [i \in 0..1 |-> <<"a", "b">>[i + 1]]]

Windows == [d \in 0..2 |-> IF d = 0 THEN 0 ELSE 1]

Id(v) == [k |-> "id", v |-> v]
Span(lo, hi) == [k |-> "range", lo |-> lo, hi |-> hi]
Called(S) == [k |-> "name", match |-> S]
Listing(tokens) == [form |-> "list", neg |-> FALSE, tokens |-> tokens]
But(e) == [e EXCEPT !.neg = TRUE]
Bound(form, v) == [form |-> form, v |-> v, unit |-> 1]
Pair(link, r, star) ==
    [form |-> "pair", neg |-> FALSE, link |-> link, lhs |-> 0, rhs |-> r, star |-> star]
Pairs == {Pair("&", {1}, FALSE), But(Pair("&", {1}, FALSE)), Pair("&&", {1}, FALSE), But(Pair("&&", {1}, FALSE)),
          Pair("&&&", {}, FALSE), Pair("&", {}, TRUE), Pair("&", {}, FALSE)}
IdLists == {Listing(<<Id(1)>>), Listing(<<Id(0), Span(2, 3)>>), Listing(<<Span(1, 0)>>)}
NameExprs == IdLists \cup {But(Listing(<<Id(1)>>)), Listing(<<Called({"a", "b"})>>),
                           Listing(<<Called({"c"}), Called({"a"})>>),
                           Listing(<<Id(0), Called({"a"})>>)}
Empty == [form |-> "empty"]

ExprsOf(c) ==
    CASE c = "antenna" -> Pairs \cup NameExprs \cup {Empty, Listing(<<Id(-1)>>)}
      [] c = "field" -> NameExprs \cup {Bound("below", 1), Bound("above", 0)}
      [] c = "spw" -> IdLists \cup {Listing(<<Called({"b"})>>), Listing(<<Called({"z"})>>),
                        Listing(<<Id(0), Called({"b"})>>),
                        Listing(<<[k |-> "chan", v |-> 0], [k |-> "freq", match |-> {"b"}]>>),
                        Listing(<<[k |-> "all"]>>), Listing(<<Id(0), [k |-> "bad"]>>)}
      [] c = "scan" -> {Listing(<<Id(1)>>), But(Listing(<<Span(0, 1)>>)), Bound("above", 0),
                        Listing(<<[k |-> "bad"]>>), Empty}
      [] c = "time" -> {Bound("above", 1), [form |-> "between", lo |-> 1, hi |-> 2], [form |-> "bad"]}
      [] c = "uvdist" -> {Bound("below", 1000), [Bound("below", 1) EXCEPT !.unit = 1000]}
      [] c = "corr" -> {[form |-> "names"]}
      [] c = "state" -> {Listing(<<Id(0)>>), Bound("below", 1), [form |-> "pattern", token |-> Called({"b"})],
                         [form |-> "pattern", token |-> Called({"z"})]}
      [] c = "obs" -> {Bound("below", 1), Listing(<<Id(1)>>)}
      [] c = "array" -> {Bound("above", 1), Listing(<<Span(0, 1)>>)}
      [] c = "feed" -> Pairs \cup {Listing(<<Id(1)>>), But(Listing(<<Id(0)>>)), Listing(<<[k |-> "bad"]>>)}
      [] c = "taql" -> {[form |-> "where", rows |-> {1, 3}]}

TwoCategories ==
    UNION {UNION {{[k \in Category |-> IF k = c THEN e ELSE IF k = d THEN f ELSE Unset]
                        : e \in ExprsOf(c), f \in ExprsOf(d)}
                    : d \in Category} : c \in Category}

\* Pairs of feeds and nothing else.
FeedPairs == {[k \in Category |-> IF k = "feed" THEN e ELSE Unset] : e \in Pairs}

----------------------------------------------------------------------------
InitAll == ConcatInit /\ ToolsInit /\ SelectionInit /\ Init

NextOne ==
    \/ ToolsInit /\ SelectionInit /\ Init
       /\ ConcatNext /\ UNCHANGED <<toolVars, selectionVars, vars>>
    \/ ConcatInit /\ SelectionInit /\ Init
       /\ ToolsNext /\ UNCHANGED <<concatVars, selectionVars, vars>>
    \/ ConcatInit /\ ToolsInit /\ Init
       /\ SelectionNext /\ UNCHANGED <<concatVars, toolVars, vars>>
    \/ ConcatInit /\ ToolsInit /\ SelectionInit
       /\ Next /\ UNCHANGED <<concatVars, toolVars, selectionVars>>

allVars == <<concatVars, toolVars, selectionVars, vars>>

SpecAll == InitAll /\ [][NextOne]_allVars

\* One of them alone.
ConcatCalls ==
    InitAll /\ [][ConcatNext /\ UNCHANGED <<toolVars, selectionVars, vars>>]_allVars
SelectionCalls ==
    InitAll /\ [][SelectionNext /\ UNCHANGED <<concatVars, toolVars, vars>>]_allVars

TypesOK == TypeOK /\ ConcatTypeOK /\ ToolsTypeOK /\ SelectionTypeOK
=============================================================================
