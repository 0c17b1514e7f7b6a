-------------------------- MODULE MsConcat_proof --------------------------
(***************************************************************************)
(* Proofs about MsConcat for any two MeasurementSets.                      *)
(*                                                                         *)
(* A table begins as a copy of the first MeasurementSet's, and whatever of *)
(* the second has been merged since, the map of its ids leads to rows that *)
(* say what the merged rows said (Merged).  Tables merged later look       *)
(* through the maps of earlier ones, which are complete by then and do not *)
(* change any more (Place).                                                *)
(***************************************************************************)
EXTENDS MsConcat, SequenceTheorems, FiniteSetTheorems, WellFoundedInduction, TLAPS

\* How far the call has got.
Place ==
    [idle |-> 0, antenna |-> 1, field |-> 2, spw |-> 3, dd |-> 4, pol |-> 5, obs |-> 6,
     state |-> 7, main |-> 8, flush |-> 9, done |-> 10, failed |-> 10]

Copied(t) == Place[t] < Place[step] \/ (step = t /\ nextRow > 0)

\* How many rows of the second MeasurementSet have been merged.
MergedRows(t) ==
    IF step = t THEN nextRow - 1 ELSE IF t = "pol" THEN 0 ELSE Len(inputs.two[t])

\* The table begins with the rows of the first MeasurementSet; k more were
\* added or identified.
FirstCopied(one, rows, k) ==
    /\ IsRows(rows)
    /\ Len(one) <= Len(rows) /\ Len(rows) <= Len(one) + k
    /\ \A i \in 1..Len(one) : rows[i] = one[i]

\* The map leads to the first k of the rows that were merged.
MapLeads(rows, map, k, merged) ==
    /\ IsRows(map) /\ Len(map) = k
    /\ \A i \in 1..k : map[i] \in 1..Len(rows) /\ rows[map[i]] = merged[i]

Places(rows, k, name) == {i \in 1..k : rows[i] = name}

NamesOf(rows) == {rows[i] : i \in DOMAIN rows}

\* A name has the rows that the first MeasurementSet has of it or else those
\* merged from the second.
NamesCounted(one, two, rows, k) ==
    \A name \in NamesOf(rows) :
        Cardinality(Places(rows, Len(rows), name)) =
            IF name \in NamesOf(one) THEN Cardinality(Places(one, Len(one), name))
            ELSE Cardinality(Places(two, k, name))

NewDds ==
    [i \in DOMAIN inputs.two["dd"] |->
        [spw |-> remap["spw"][inputs.two["dd"][i].spw], pol |-> inputs.two["dd"][i].pol]]

NewMain ==
    [i \in DOMAIN inputs.two["main"] |->
        [f \in MainFields |-> Remapped(RefersTo[f], inputs.two["main"][i][f])]]

Merged(t, k) ==
    /\ FirstCopied(inputs.one[t], out[t], k)
    /\ t \in Named \cup {"state"} => MapLeads(out[t], remap[t], k, inputs.two[t])
    /\ t \in Named => NamesCounted(inputs.one[t], inputs.two[t], out[t], k)
    /\ t = "dd" => MapLeads(out[t], remap[t], k, NewDds)
    /\ t \in {"pol", "obs", "main"} => remap[t] = <<>>
    /\ t \in {"obs", "main"} => Len(out[t]) = Len(inputs.one[t]) + k
    /\ t = "pol" => k = 0
    /\ t = "main" => \A i \in 1..k : out[t][Len(inputs.one[t]) + i] = NewMain[i]
    /\ t = "obs" => \A i \in 1..k : out[t][Len(inputs.one[t]) + i] = inputs.two[t][i]

TableInv(t) ==
    /\ ~Copied(t) => out[t] = <<>> /\ remap[t] = <<>>
    /\ Copied(t) => MergedRows(t) \in 0..Len(inputs.two[t]) /\ Merged(t, MergedRows(t))

CallInv ==
    /\ IsMeasurementSet(inputs.one) /\ IsMeasurementSet(inputs.two)
    /\ DOMAIN out = MsTables /\ DOMAIN remap = MsTables
    /\ step \in MsTables \cup {"idle", "flush", "done", "failed"}
    /\ nextRow \in Nat
    /\ step = "idle" => nextRow = 0
    /\ step = "failed" => ~KeysAreValid

ConcatInv == CallInv /\ \A t \in MsTables : TableInv(t)

----------------------------------------------------------------------------
(* Rows and the order of the tables.                                       *)

LEMMA NoRowsAreRows == IsRows(<<>>) /\ Len(<<>>) = 0 /\ DOMAIN <<>> = {}
<1>1. <<>> \in Seq({<<>>[i] : i \in DOMAIN <<>>})
    BY EmptySeq
<1> QED BY <1>1, EmptySeq DEF IsRows

LEMMA RowsAre ==
    ASSUME NEW rows, IsRows(rows)
    PROVE  Len(rows) \in Nat /\ DOMAIN rows = 1..Len(rows)
BY LenProperties DEF IsRows

\* A row is added at the end.
LEMMA AddedRow ==
    ASSUME NEW rows, IsRows(rows), NEW x
    PROVE  /\ IsRows(Append(rows, x))
           /\ Len(Append(rows, x)) = Len(rows) + 1
           /\ \A i \in 1..Len(rows) : Append(rows, x)[i] = rows[i]
           /\ Append(rows, x)[Len(rows) + 1] = x
<1> DEFINE S == {rows[i] : i \in DOMAIN rows}
           T == S \cup {x}
           more == Append(rows, x)
<1>1. rows \in Seq(S) /\ S \subseteq T /\ x \in T
    BY DEF IsRows
<1> HIDE DEF S, T
<1>2. rows \in Seq(T)
    BY <1>1
<1>3. /\ more \in Seq(T) /\ Len(more) = Len(rows) + 1
      /\ \A i \in 1..Len(rows) : more[i] = rows[i]
      /\ more[Len(rows) + 1] = x
    BY <1>1, <1>2, AppendProperties
<1>4. DOMAIN more = 1..Len(more) /\ Len(more) \in Nat
    BY <1>3, LenProperties
<1> HIDE DEF more
<1>5. more \in Seq({more[i] : i \in DOMAIN more})
    <2>1. more = [i \in 1..Len(more) |-> more[i]]
        BY <1>3, LenProperties
    <2> QED BY <1>4, <2>1
<1> QED BY <1>3, <1>5 DEF IsRows, more

LEMMA TablesAre ==
    MsTables = {"antenna", "field", "spw", "dd", "pol", "obs", "state", "main"}
BY DEF MsTables, Order

LEMMA NextPlace ==
    ASSUME NEW t \in MsTables
    PROVE  /\ NextOf(t) \in MsTables \cup {"flush"}
           /\ Place[NextOf(t)] = Place[t] + 1
<1>1. /\ Order = <<"antenna", "field", "spw", "dd", "pol", "obs", "state", "main">>
      /\ Len(Order) = 8 /\ DOMAIN Order = 1..8
    BY DEF Order
<1>2. PICK i \in 1..8 : Order[i] = t
    BY <1>1 DEF MsTables
<1>3. \A k \in 1..8 : Order[k] = t => k = i
    BY <1>1, <1>2
<1>4. (CHOOSE k \in DOMAIN Order : Order[k] = t) = i
    BY <1>1, <1>2, <1>3
<1>5. NextOf(t) = IF i = 8 THEN "flush" ELSE Order[i + 1]
    <2> DEFINE c == CHOOSE k \in DOMAIN Order : Order[k] = t
    <2>1. NextOf(t) = IF c = Len(Order) THEN "flush" ELSE Order[c + 1]
        BY DEF NextOf
    <2>2. Len(Order) = 8 /\ c = i
        BY <1>1, <1>4
    <2> HIDE DEF c
    <2> QED BY <2>1, <2>2
<1>6. \A k \in 1..8 : Place[Order[k]] = k
    BY <1>1 DEF Place
<1>7. Place["flush"] = 9
    BY DEF Place
<1>8. i # 8 => i + 1 \in 1..8
    BY <1>2
<1> QED BY <1>1, <1>2, <1>5, <1>6, <1>7, <1>8 DEF MsTables

LEMMA Places8 ==
    /\ \A t \in MsTables : Place[t] \in 1..8
    /\ \A t, u \in MsTables : Place[t] = Place[u] => t = u
    /\ Place["idle"] = 0 /\ Place["flush"] = 9 /\ Place["done"] = 10 /\ Place["failed"] = 10
    /\ Place["antenna"] = 1 /\ Place["spw"] = 3 /\ Place["dd"] = 4 /\ Place["main"] = 8
    /\ \A f \in MainFields : RefersTo[f] \in MsTables /\ Place[RefersTo[f]] < 8
BY TablesAre DEF Place, MainFields, RefersTo

----------------------------------------------------------------------------
(* One more row is merged.                                                 *)

\* A table that has the rows of the first MeasurementSet and no others.
LEMMA FirstAlone ==
    ASSUME NEW one, NEW two, IsRows(one)
    PROVE  /\ FirstCopied(one, one, 0) /\ MapLeads(one, <<>>, 0, two)
           /\ NamesCounted(one, two, one, 0)
<1>1. Len(one) \in Nat
    BY RowsAre
<1>2. FirstCopied(one, one, 0)
    BY <1>1 DEF FirstCopied
<1>3. MapLeads(one, <<>>, 0, two)
    BY NoRowsAreRows DEF MapLeads
<1> QED BY <1>2, <1>3 DEF NamesCounted

LEMMA FirstStays ==
    ASSUME NEW one, IsRows(one), NEW rows, NEW k \in Nat, FirstCopied(one, rows, k)
    PROVE  /\ FirstCopied(one, rows, k + 1)
           /\ \A x : FirstCopied(one, Append(rows, x), k + 1)
           /\ Len(rows) \in Nat /\ Len(one) \in Nat
<1>1. IsRows(rows) /\ Len(rows) \in Nat /\ Len(one) \in Nat
    BY RowsAre DEF FirstCopied
<1>2. FirstCopied(one, rows, k + 1)
    BY <1>1 DEF FirstCopied
<1>3. ASSUME NEW x PROVE FirstCopied(one, Append(rows, x), k + 1)
    <2>1. /\ IsRows(Append(rows, x)) /\ Len(Append(rows, x)) = Len(rows) + 1
          /\ \A i \in 1..Len(rows) : Append(rows, x)[i] = rows[i]
        BY <1>1, AddedRow
    <2>2. \A i \in 1..Len(one) : i \in 1..Len(rows) /\ rows[i] = one[i]
        BY <1>1 DEF FirstCopied
    <2>3. Len(one) <= Len(rows) /\ Len(rows) <= Len(one) + k
        BY DEF FirstCopied
    <2> QED BY <1>1, <2>1, <2>2, <2>3 DEF FirstCopied
<1> QED BY <1>1, <1>2, <1>3

\* A row is identified with one that is there, or added.
LEMMA MapGrows ==
    ASSUME NEW rows, IsRows(rows), NEW map, NEW merged, NEW k \in Nat, MapLeads(rows, map, k, merged)
    PROVE  /\ \A id \in 1..Len(rows) : rows[id] = merged[k + 1] =>
                    MapLeads(rows, Append(map, id), k + 1, merged)
           /\ MapLeads(Append(rows, merged[k + 1]), Append(map, Len(rows) + 1), k + 1, merged)
<1>1. /\ IsRows(map) /\ Len(map) = k /\ Len(rows) \in Nat
      /\ \A i \in 1..k : map[i] \in 1..Len(rows) /\ rows[map[i]] = merged[i]
    BY RowsAre DEF MapLeads
<1>2. \A i \in 1..(k + 1) : i \in 1..k \/ i = k + 1
    OBVIOUS
<1>3. ASSUME NEW id \in 1..Len(rows), rows[id] = merged[k + 1]
      PROVE  MapLeads(rows, Append(map, id), k + 1, merged)
    <2>1. /\ IsRows(Append(map, id)) /\ Len(Append(map, id)) = k + 1
          /\ \A i \in 1..k : Append(map, id)[i] = map[i]
          /\ Append(map, id)[k + 1] = id
        BY <1>1, AddedRow
    <2> DEFINE more == Append(map, id)
    <2> HIDE DEF more
    <2>2. \A i \in 1..(k + 1) : more[i] \in 1..Len(rows) /\ rows[more[i]] = merged[i]
        BY <1>1, <1>2, <1>3, <2>1 DEF more
    <2> QED BY <2>1, <2>2 DEF MapLeads, more
<1>4. MapLeads(Append(rows, merged[k + 1]), Append(map, Len(rows) + 1), k + 1, merged)
    <2> DEFINE more == Append(map, Len(rows) + 1)
               added == Append(rows, merged[k + 1])
    <2>1. /\ IsRows(more) /\ Len(more) = k + 1
          /\ \A i \in 1..k : more[i] = map[i]
          /\ more[k + 1] = Len(rows) + 1
        BY <1>1, AddedRow
    <2>2. /\ Len(added) = Len(rows) + 1
          /\ \A i \in 1..Len(rows) : added[i] = rows[i]
          /\ added[Len(rows) + 1] = merged[k + 1]
        BY AddedRow
    <2> HIDE DEF more, added
    <2>3. ASSUME NEW i \in 1..k PROVE more[i] \in 1..Len(added) /\ added[more[i]] = merged[i]
        <3>1. map[i] \in 1..Len(rows) /\ rows[map[i]] = merged[i] /\ more[i] = map[i]
            BY <1>1, <2>1
        <3>2. map[i] \in 1..Len(added) /\ added[map[i]] = rows[map[i]]
            BY <1>1, <2>2, <3>1
        <3> QED BY <3>1, <3>2
    <2>4. more[k + 1] \in 1..Len(added) /\ added[more[k + 1]] = merged[k + 1]
        BY <1>1, <2>1, <2>2
    <2>5. \A i \in 1..(k + 1) : more[i] \in 1..Len(added) /\ added[more[i]] = merged[i]
        BY <1>2, <2>3, <2>4
    <2> QED BY <2>1, <2>5 DEF MapLeads, more, added
<1> QED BY <1>3, <1>4

LEMMA PlacesFinite ==
    ASSUME NEW rows, NEW k \in Nat, NEW name
    PROVE  IsFiniteSet(Places(rows, k, name)) /\ Cardinality(Places(rows, k, name)) \in Nat
<1>1. IsFiniteSet(1..k) /\ Places(rows, k, name) \subseteq 1..k
    BY FS_Interval DEF Places
<1>2. IsFiniteSet(Places(rows, k, name))
    BY <1>1, FS_Subset
<1> QED BY <1>2, FS_CardinalityType

\* Another row has the name or another name.
LEMMA OneMorePlace ==
    ASSUME NEW rows, NEW k \in Nat, NEW name
    PROVE  Cardinality(Places(rows, k + 1, name)) =
                Cardinality(Places(rows, k, name)) + IF rows[k + 1] = name THEN 1 ELSE 0
<1>1. \A i : i \in 1..(k + 1) <=> i \in 1..k \/ i = k + 1
    OBVIOUS
<1>2. k + 1 \notin Places(rows, k, name)
    BY DEF Places
<1>3. IsFiniteSet(Places(rows, k, name)) /\ Cardinality(Places(rows, k, name)) \in Nat
    BY PlacesFinite
<1>4. CASE rows[k + 1] = name
    <2>1. Places(rows, k + 1, name) = Places(rows, k, name) \cup {k + 1}
        BY <1>1, <1>4 DEF Places
    <2>2. Cardinality(Places(rows, k, name) \cup {k + 1}) = Cardinality(Places(rows, k, name)) + 1
        BY <1>2, <1>3, FS_AddElement
    <2> QED BY <1>4, <2>1, <2>2
<1>5. CASE rows[k + 1] # name
    <2>1. Places(rows, k + 1, name) = Places(rows, k, name)
        BY <1>1, <1>5 DEF Places
    <2> QED BY <1>3, <1>5, <2>1
<1> QED BY <1>4, <1>5

LEMMA SamePlaces ==
    ASSUME NEW rows, NEW more, NEW k \in Nat, \A i \in 1..k : more[i] = rows[i], NEW name
    PROVE  Places(more, k, name) = Places(rows, k, name)
BY DEF Places

\* The next name of the second MeasurementSet is one of the first.
LEMMA NameKnown ==
    ASSUME NEW one, NEW two, NEW rows, NEW k \in Nat,
           NamesCounted(one, two, rows, k), two[k + 1] \in NamesOf(one)
    PROVE  NamesCounted(one, two, rows, k + 1)
<1> SUFFICES ASSUME NEW name \in NamesOf(rows), name \notin NamesOf(one)
             PROVE  Cardinality(Places(two, k + 1, name)) = Cardinality(Places(two, k, name))
    BY DEF NamesCounted
<1>1. two[k + 1] # name /\ Cardinality(Places(two, k, name)) \in Nat
    BY PlacesFinite
<1> QED BY <1>1, OneMorePlace

\* It is not one of the first.
LEMMA NameIsNew ==
    ASSUME NEW one, NEW two, NEW rows, IsRows(rows), NEW map, NEW k \in Nat,
           MapLeads(rows, map, k, two),
           NamesCounted(one, two, rows, k), two[k + 1] \notin NamesOf(one)
    PROVE  NamesCounted(one, two, Append(rows, two[k + 1]), k + 1)
<1> DEFINE x == two[k + 1]
           more == Append(rows, x)
           n == Len(rows)
<1>1. n \in Nat /\ DOMAIN rows = 1..n
    BY RowsAre
<1>2. /\ IsRows(more) /\ Len(more) = n + 1
      /\ \A i \in 1..n : more[i] = rows[i]
      /\ more[n + 1] = x
    BY AddedRow
<1>3. DOMAIN more = 1..(n + 1)
    BY <1>2, RowsAre
<1>4. \A i \in 1..k : two[i] \in NamesOf(rows)
    BY <1>1 DEF MapLeads, NamesOf
<1> HIDE DEF more, x, n
<1> SUFFICES ASSUME NEW name \in NamesOf(more)
             PROVE  Cardinality(Places(more, n + 1, name)) =
                        IF name \in NamesOf(one) THEN Cardinality(Places(one, Len(one), name))
                        ELSE Cardinality(Places(two, k + 1, name))
    BY <1>2 DEF NamesCounted, more, x
<1>5. Places(more, n, name) = Places(rows, n, name)
    BY <1>1, <1>2, SamePlaces
<1>6. /\ Cardinality(Places(more, n + 1, name)) =
            Cardinality(Places(rows, n, name)) + IF x = name THEN 1 ELSE 0
      /\ Cardinality(Places(two, k + 1, name)) =
            Cardinality(Places(two, k, name)) + IF x = name THEN 1 ELSE 0
    BY <1>1, <1>2, <1>5, OneMorePlace DEF x
<1>7. Cardinality(Places(rows, n, name)) \in Nat /\ Cardinality(Places(two, k, name)) \in Nat
    BY <1>1, PlacesFinite
<1>8. CASE name \in NamesOf(rows)
    <2>1. Cardinality(Places(rows, n, name)) =
            IF name \in NamesOf(one) THEN Cardinality(Places(one, Len(one), name))
            ELSE Cardinality(Places(two, k, name))
        BY <1>8 DEF NamesCounted, n
    <2>2. CASE name \in NamesOf(one)
        <3>1. x # name
            BY <2>2 DEF x
        <3> QED BY <1>6, <1>7, <2>1, <2>2, <3>1
    <2>3. CASE name \notin NamesOf(one)
        BY <1>6, <1>7, <2>1, <2>3
    <2> QED BY <2>2, <2>3
<1>9. CASE name \notin NamesOf(rows)
    <2>1. name = x
        BY <1>1, <1>2, <1>3, <1>9 DEF NamesOf
    <2>2. Places(rows, n, name) = {} /\ Places(two, k, name) = {}
        BY <1>1, <1>4, <1>9 DEF Places, NamesOf
    <2>3. name \notin NamesOf(one)
        BY <2>1 DEF x
    <2> QED BY <1>6, <2>1, <2>2, <2>3
<1> QED BY <1>8, <1>9

----------------------------------------------------------------------------
(* The row that a name, or a data description, is identified with.         *)

\* A set of numbers that is not empty has a least member, and one with a
\* bound a greatest.
LEMMA LeastExists ==
    ASSUME NEW T \in SUBSET Nat, T # {}
    PROVE  \E k \in T : \A j \in T : k <= j
<1> DEFINE UpToNumber(k) == {j \in T : j <= k}
           Sets == {UpToNumber(k) : k \in T}
<1>0. \A j \in T : j \in Nat
    OBVIOUS
<1>1. ASSUME NEW k \in T PROVE UpToNumber(k) \in FiniteSubsetsOf(Nat)
    <2>1. IsFiniteSet(0..k) /\ \A j \in T : j <= k => j \in 0..k
        BY <1>0, FS_Interval
    <2>2. IsFiniteSet(UpToNumber(k))
        BY <2>1, FS_Subset
    <2> QED BY <2>2 DEF FiniteSubsetsOf
<1>2. Sets \subseteq FiniteSubsetsOf(Nat) /\ Sets # {}
    BY <1>1
<1>3. \E s \in Sets : \A r \in Sets : <<r, s>> \notin StrictSubsetOrdering(Nat)
    <2> HIDE DEF Sets
    <2> QED BY <1>2, FS_StrictSubsetOrderingWellFounded, WFMin
<1>4. PICK k \in T : \A j \in T : <<UpToNumber(j), UpToNumber(k)>> \notin StrictSubsetOrdering(Nat)
    BY <1>3
<1>5. ASSUME NEW j \in T, j < k PROVE FALSE
    <2>1. k <= k /\ ~(k <= j) /\ \A i \in T : i <= j => i <= k
        BY <1>0, <1>5
    <2>2. UpToNumber(j) \subseteq UpToNumber(k) /\ k \in UpToNumber(k) /\ k \notin UpToNumber(j)
        BY <2>1
    <2>3. UpToNumber(j) \in SUBSET Nat /\ UpToNumber(k) \in SUBSET Nat
        OBVIOUS
    <2> QED BY <1>4, <2>2, <2>3 DEF StrictSubsetOrdering
<1> QED BY <1>0, <1>5

LEMMA GreatestExists ==
    ASSUME NEW n \in Nat, NEW T \in SUBSET (1..n), T # {}
    PROVE  \E k \in T : \A j \in T : j <= k
<1> DEFINE R == {n - j : j \in T}
<1>0. \A j \in T : j \in 1..n /\ n - j \in Nat
    OBVIOUS
<1>1. R \in SUBSET Nat /\ R # {}
    BY <1>0
<1>2. PICK k \in T : \A j \in T : n - k <= n - j
    <2>1. PICK r \in R : \A q \in R : r <= q
        <3> HIDE DEF R
        <3> QED BY <1>1, LeastExists
    <2> QED BY <2>1
<1> QED BY <1>0, <1>2

LEMMA NamedRow ==
    ASSUME NEW t, IsRows(inputs.one[t])
    PROVE  /\ DOMAIN NameMap(t) = NamesOf(inputs.one[t])
           /\ \A n \in NamesOf(inputs.one[t]) :
                /\ NameMap(t)[n] \in 1..Len(inputs.one[t])
                /\ inputs.one[t][NameMap(t)[n]] = n
<1> DEFINE one == inputs.one[t]
           last(n) == CHOOSE i \in DOMAIN one :
                        one[i] = n /\ \A j \in DOMAIN one : one[j] = n => j <= i
<1>1. DOMAIN one = 1..Len(one) /\ Len(one) \in Nat
    BY RowsAre
<1>2. NameMap(t) = [n \in NamesOf(one) |-> last(n)]
    BY DEF NameMap, NamesOf
<1>3. ASSUME NEW n \in NamesOf(one) PROVE last(n) \in 1..Len(one) /\ one[last(n)] = n
    <2> HIDE DEF one
    <2> DEFINE T == {i \in DOMAIN one : one[i] = n}
    <2>1. T \in SUBSET (1..Len(one)) /\ T # {}
        BY <1>1 DEF NamesOf
    <2>2. \E k \in T : \A j \in T : j <= k
        <3> HIDE DEF T
        <3> QED BY <1>1, <2>1, GreatestExists
    <2>3. \E i \in DOMAIN one : one[i] = n /\ \A j \in DOMAIN one : one[j] = n => j <= i
        BY <2>2
    <2> QED BY <1>1, <2>3
<1> HIDE DEF last
<1> QED BY <1>2, <1>3

----------------------------------------------------------------------------
(* A call merges one row of one table.                                     *)

LEMMA InputRows ==
    ASSUME CallInv, NEW t \in MsTables
    PROVE  /\ IsRows(inputs.one[t]) /\ IsRows(inputs.two[t])
           /\ Len(inputs.one[t]) \in Nat /\ DOMAIN inputs.one[t] = 1..Len(inputs.one[t])
           /\ Len(inputs.two[t]) \in Nat /\ DOMAIN inputs.two[t] = 1..Len(inputs.two[t])
<1>1. IsRows(inputs.one[t]) /\ IsRows(inputs.two[t])
    BY DEF CallInv, IsMeasurementSet
<1> QED BY <1>1, RowsAre

\* What was merged before stays, and what comes later has not begun.
LEMMA OtherTables ==
    ASSUME ConcatInv, NEW t \in MsTables, step = t, step' = step, inputs' = inputs,
           \A u \in MsTables \ {t} : out'[u] = out[u] /\ remap'[u] = remap[u]
    PROVE  \A u \in MsTables \ {t} : TableInv(u)'
<1> SUFFICES ASSUME NEW u \in MsTables \ {t} PROVE TableInv(u)'
    OBVIOUS
<1>1. /\ u \in MsTables /\ u # t /\ TableInv(u)
      /\ out'[u] = out[u] /\ remap'[u] = remap[u]
    BY DEF ConcatInv
<1>2. (Copied(u)' <=> Copied(u)) /\ MergedRows(u)' = MergedRows(u)
    BY <1>1 DEF Copied, MergedRows
<1>3. CASE ~Copied(u)
    BY <1>1, <1>2, <1>3 DEF TableInv
<1>4. CASE Copied(u)
    <2>1. PICK k : k = MergedRows(u)
        OBVIOUS
    <2>2. k \in 0..Len(inputs.two[u]) /\ Merged(u, k)
        BY <1>1, <1>4, <2>1 DEF TableInv
    <2>3. Place[u] < Place[t]
        BY <1>1, <1>4 DEF Copied
    <2>4. u # "main" /\ (u = "dd" => t # "spw")
        BY <2>3, Places8
    <2>5. u = "dd" => NewDds' = NewDds
        <3> SUFFICES ASSUME u = "dd" PROVE NewDds' = NewDds
            OBVIOUS
        <3>1. "spw" \in MsTables \ {t}
            BY <2>4, TablesAre
        <3>2. remap'["spw"] = remap["spw"]
            BY <3>1
        <3> QED BY <3>2 DEF NewDds
    <2>6. Merged(u, k)'
        BY <1>1, <2>2, <2>4, <2>5 DEF Merged
    <2>7. Copied(u)' /\ MergedRows(u)' = k
        BY <1>2, <1>4, <2>1
    <2> QED BY <2>2, <2>6, <2>7 DEF TableInv
<1> QED BY <1>3, <1>4

\* The table that is being merged.
LEMMA RowsMerged ==
    ASSUME ConcatInv, NEW t \in MsTables, MergesRow(t)
    PROVE  /\ nextRow \in Nat \ {0} /\ nextRow \in DOMAIN inputs.two[t]
           /\ Merged(t, nextRow - 1)
           /\ DOMAIN out = MsTables /\ DOMAIN remap = MsTables
<1>1. Len(inputs.two[t]) \in Nat /\ DOMAIN inputs.two[t] = 1..Len(inputs.two[t])
    BY InputRows DEF ConcatInv
<1>2. step = t /\ nextRow \in 1..Len(inputs.two[t])
    BY DEF MergesRow
<1>3. nextRow > 0 /\ nextRow - 1 \in Nat
    BY <1>1, <1>2
<1>4. Copied(t) /\ MergedRows(t) = nextRow - 1
    BY <1>2, <1>3 DEF Copied, MergedRows
<1>5. TableInv(t)
    BY DEF ConcatInv
<1> QED BY <1>1, <1>2, <1>3, <1>4, <1>5 DEF TableInv, ConcatInv, CallInv

LEMMA RowMerged ==
    ASSUME ConcatInv, NEW t \in MsTables, MergesRow(t),
           DOMAIN out' = MsTables, DOMAIN remap' = MsTables,
           \A u \in MsTables \ {t} : out'[u] = out[u] /\ remap'[u] = remap[u],
           NEW k, k = nextRow, Merged(t, k)'
    PROVE  ConcatInv'
<1>1. Len(inputs.two[t]) \in Nat
    BY InputRows DEF ConcatInv
<1>2. /\ step = t /\ step' = step /\ inputs' = inputs
      /\ nextRow \in 1..Len(inputs.two[t]) /\ nextRow' = nextRow + 1
    BY DEF MergesRow
<1>3. nextRow' \in Nat /\ nextRow' > 0 /\ nextRow' - 1 = k /\ k \in 0..Len(inputs.two[t])
    BY <1>1, <1>2
<1>4. \A u \in MsTables \ {t} : TableInv(u)'
    BY <1>2, OtherTables
<1>5. TableInv(t)'
    <2>1. Copied(t)' /\ MergedRows(t)' = k
        BY <1>2, <1>3 DEF Copied, MergedRows
    <2> QED BY <1>2, <1>3, <2>1 DEF TableInv
<1>6. step' \notin {"idle", "failed"}
    BY <1>2, TablesAre
<1>7. CallInv'
    BY <1>2, <1>3, <1>6 DEF ConcatInv, CallInv
<1> QED BY <1>4, <1>5, <1>7 DEF ConcatInv

\* A row is identified with one of the first MeasurementSet, or added.
LEMMA IdentifyChanges ==
    ASSUME DOMAIN out = MsTables, DOMAIN remap = MsTables, NEW t \in MsTables, NEW id, Identify(t, id)
    PROVE  /\ DOMAIN out' = MsTables /\ DOMAIN remap' = MsTables
           /\ \A u \in MsTables \ {t} : out'[u] = out[u] /\ remap'[u] = remap[u]
           /\ out'[t] = out[t] /\ remap'[t] = Append(remap[t], id)
BY DEF Identify

LEMMA AddRowToChanges ==
    ASSUME DOMAIN out = MsTables, DOMAIN remap = MsTables, NEW t \in MsTables, NEW x, AddRowTo(t, x)
    PROVE  /\ DOMAIN out' = MsTables /\ DOMAIN remap' = MsTables
           /\ \A u \in MsTables \ {t} : out'[u] = out[u] /\ remap'[u] = remap[u]
           /\ out'[t] = Append(out[t], x) /\ remap'[t] = Append(remap[t], Len(out[t]) + 1)
BY DEF AddRowTo

LEMMA AddingChanges ==
    ASSUME DOMAIN out = MsTables, DOMAIN remap = MsTables, NEW t \in MsTables, NEW x,
           out' = [out EXCEPT ![t] = Append(@, x)], remap' = remap
    PROVE  /\ DOMAIN out' = MsTables /\ DOMAIN remap' = MsTables
           /\ \A u \in MsTables \ {t} : out'[u] = out[u] /\ remap'[u] = remap[u]
           /\ out'[t] = Append(out[t], x) /\ remap'[t] = remap[t]
OBVIOUS

LEMMA MergeByNameKeeps ==
    ASSUME ConcatInv, NEW t \in Named, MergeByName(t)
    PROVE  ConcatInv'
<1>0. t \in MsTables /\ t \notin {"dd", "pol", "obs", "main"} /\ t \in Named \cup {"state"}
    BY TablesAre DEF Named
<1>1. MergesRow(t)
    BY DEF MergeByName
<1>2. PICK k : k = nextRow
    OBVIOUS
<1>3. /\ k \in Nat \ {0} /\ k \in DOMAIN inputs.two[t]
      /\ Merged(t, k - 1)
      /\ DOMAIN out = MsTables /\ DOMAIN remap = MsTables
    BY <1>0, <1>1, <1>2, RowsMerged
<1>4. k - 1 \in Nat /\ (k - 1) + 1 = k
    BY <1>3
<1>5. /\ FirstCopied(inputs.one[t], out[t], k - 1)
      /\ MapLeads(out[t], remap[t], k - 1, inputs.two[t])
      /\ NamesCounted(inputs.one[t], inputs.two[t], out[t], k - 1)
    BY <1>0, <1>3 DEF Merged
<1>6. /\ IsRows(inputs.one[t]) /\ IsRows(out[t]) /\ inputs' = inputs
      /\ Len(inputs.one[t]) \in Nat /\ Len(out[t]) \in Nat
    BY <1>0, <1>1, <1>5, InputRows, RowsAre DEF ConcatInv, FirstCopied, MergesRow
<1>7. CASE inputs.two[t][k] \in NamesOf(inputs.one[t])
    <2>1. DOMAIN NameMap(t) = NamesOf(inputs.one[t])
        BY <1>6, NamedRow
    <2>2. PICK id : id = NameMap(t)[inputs.two[t][k]]
        OBVIOUS
    <2>3. id \in 1..Len(inputs.one[t]) /\ inputs.one[t][id] = inputs.two[t][k]
        BY <1>6, <1>7, <2>2, NamedRow
    <2>4. id \in 1..Len(out[t]) /\ out[t][id] = inputs.two[t][k]
        BY <1>5, <1>6, <2>3 DEF FirstCopied
    <2>5. Identify(t, id)
        BY <1>2, <1>7, <2>1, <2>2 DEF MergeByName
    <2>6. /\ DOMAIN out' = MsTables /\ DOMAIN remap' = MsTables
          /\ \A u \in MsTables \ {t} : out'[u] = out[u] /\ remap'[u] = remap[u]
          /\ out'[t] = out[t] /\ remap'[t] = Append(remap[t], id)
        BY <1>0, <1>3, <2>5, IdentifyChanges
    <2>7. FirstCopied(inputs.one[t], out[t], k)
        BY <1>3, <1>4, <1>5, <1>6, FirstStays
    <2>8. MapLeads(out[t], Append(remap[t], id), k, inputs.two[t])
        BY <1>3, <1>4, <1>5, <1>6, <2>4, MapGrows
    <2>9. NamesCounted(inputs.one[t], inputs.two[t], out[t], k)
        BY <1>3, <1>4, <1>5, <1>7, NameKnown
    <2>10. Merged(t, k)'
        BY <1>0, <1>6, <2>6, <2>7, <2>8, <2>9 DEF Merged
    <2> QED BY <1>0, <1>1, <1>2, <2>6, <2>10, RowMerged
<1>8. CASE inputs.two[t][k] \notin NamesOf(inputs.one[t])
    <2>1. DOMAIN NameMap(t) = NamesOf(inputs.one[t])
        BY <1>6, NamedRow
    <2>2. AddRowTo(t, inputs.two[t][k])
        BY <1>2, <1>8, <2>1 DEF MergeByName
    <2>3. /\ DOMAIN out' = MsTables /\ DOMAIN remap' = MsTables
          /\ \A u \in MsTables \ {t} : out'[u] = out[u] /\ remap'[u] = remap[u]
          /\ out'[t] = Append(out[t], inputs.two[t][k])
          /\ remap'[t] = Append(remap[t], Len(out[t]) + 1)
        BY <1>0, <1>3, <2>2, AddRowToChanges
    <2>4. FirstCopied(inputs.one[t], Append(out[t], inputs.two[t][k]), k)
        BY <1>3, <1>4, <1>5, <1>6, FirstStays
    <2>5. MapLeads(Append(out[t], inputs.two[t][k]), Append(remap[t], Len(out[t]) + 1), k, inputs.two[t])
        BY <1>3, <1>4, <1>5, <1>6, MapGrows
    <2>6. NamesCounted(inputs.one[t], inputs.two[t], Append(out[t], inputs.two[t][k]), k)
        BY <1>3, <1>4, <1>5, <1>6, <1>8, NameIsNew
    <2>7. Merged(t, k)'
        BY <1>0, <1>6, <2>3, <2>4, <2>5, <2>6 DEF Merged
    <2> QED BY <1>0, <1>1, <1>2, <2>3, <2>7, RowMerged
<1> QED BY <1>7, <1>8

\* The tables before the one that is being merged are complete.
LEMMA EarlierTables ==
    ASSUME ConcatInv, NEW t \in MsTables, Place[t] < Place[step], t # "pol"
    PROVE  Merged(t, Len(inputs.two[t]))
<1>1. Copied(t) /\ TableInv(t)
    BY DEF Copied, ConcatInv
<1>2. step # t
    BY Places8
<1>3. MergedRows(t) = Len(inputs.two[t])
    BY <1>2 DEF MergedRows
<1> QED BY <1>1, <1>3 DEF TableInv

LEMMA DdRows ==
    ASSUME ConcatInv, step = "dd", NEW k \in DOMAIN inputs.two["dd"]
    PROVE  NewDds[k] = [inputs.two["dd"][k] EXCEPT !.spw = Remapped("spw", @)]
<1>1. "spw" \in MsTables /\ "spw" \in Named \cup {"state"} /\ "spw" # "pol" /\ Place["spw"] < Place[step]
    BY TablesAre, Places8 DEF Named
<1>2. MapLeads(out["spw"], remap["spw"], Len(inputs.two["spw"]), inputs.two["spw"])
    BY <1>1, EarlierTables DEF Merged
<1>3. DOMAIN remap["spw"] = DOMAIN inputs.two["spw"]
    BY <1>1, <1>2, InputRows, RowsAre DEF MapLeads, ConcatInv
<1>4. inputs.two["dd"][k] \in [spw : DOMAIN inputs.two["spw"], pol : DOMAIN inputs.two["pol"]]
    BY DEF ConcatInv, CallInv, IsMeasurementSet
<1>5. PICK s \in DOMAIN inputs.two["spw"], p \in DOMAIN inputs.two["pol"] :
        inputs.two["dd"][k] = [spw |-> s, pol |-> p]
    BY <1>4
<1>6. Remapped("spw", s) = remap["spw"][s]
    BY <1>3, <1>5 DEF Remapped
<1>7. NewDds[k] = [spw |-> remap["spw"][inputs.two["dd"][k].spw], pol |-> inputs.two["dd"][k].pol]
    BY DEF NewDds
<1>8. NewDds[k] = [spw |-> remap["spw"][s], pol |-> p]
    BY <1>5, <1>7
<1>9. [inputs.two["dd"][k] EXCEPT !.spw = Remapped("spw", @)] = [spw |-> Remapped("spw", s), pol |-> p]
    BY <1>5
<1> QED BY <1>6, <1>8, <1>9

LEMMA MergeDataDescriptionKeeps ==
    ASSUME ConcatInv, MergeDataDescription
    PROVE  ConcatInv'
<1>0. "dd" \in MsTables /\ "dd" \notin Named \cup {"state", "pol", "obs", "main"} /\ "spw" \in MsTables \ {"dd"}
    BY TablesAre DEF Named
<1>1. MergesRow("dd") /\ step = "dd"
    BY DEF MergeDataDescription, MergesRow
<1>2. PICK k : k = nextRow
    OBVIOUS
<1>3. /\ k \in Nat \ {0} /\ k \in DOMAIN inputs.two["dd"]
      /\ Merged("dd", k - 1)
      /\ DOMAIN out = MsTables /\ DOMAIN remap = MsTables
    BY <1>0, <1>1, <1>2, RowsMerged
<1>4. k - 1 \in Nat /\ (k - 1) + 1 = k
    BY <1>3
<1>5. PICK dd : dd = [inputs.two["dd"][k] EXCEPT !.spw = Remapped("spw", @)]
    OBVIOUS
<1>6. /\ FirstCopied(inputs.one["dd"], out["dd"], k - 1)
      /\ MapLeads(out["dd"], remap["dd"], k - 1, NewDds)
      /\ NewDds[k] = dd
    BY <1>1, <1>3, <1>5, DdRows DEF Merged
<1>7. /\ IsRows(inputs.one["dd"]) /\ IsRows(out["dd"]) /\ inputs' = inputs
      /\ Len(inputs.one["dd"]) \in Nat /\ Len(out["dd"]) \in Nat
      /\ DOMAIN inputs.one["dd"] = 1..Len(inputs.one["dd"])
    BY <1>0, <1>1, <1>6, InputRows, RowsAre DEF ConcatInv, FirstCopied, MergesRow
<1>8. ASSUME remap'["spw"] = remap["spw"] PROVE NewDds' = NewDds
    BY <1>7, <1>8 DEF NewDds
<1> DEFINE same == {i \in DOMAIN inputs.one["dd"] : inputs.one["dd"][i] = dd}
           least == CHOOSE i \in same : \A j \in same : i <= j
<1>9. IF same # {} THEN Identify("dd", least) ELSE AddRowTo("dd", dd)
    BY <1>2, <1>5 DEF MergeDataDescription
<1>10. CASE same # {}
    <2>1. same \in SUBSET Nat
        BY <1>7
    <2>2. least \in same
        <3>1. \E i \in same : \A j \in same : i <= j
            <4> HIDE DEF same
            <4> QED BY <1>10, <2>1, LeastExists
        <3> HIDE DEF same
        <3> QED BY <3>1
    <2>3. PICK id : id = least
        OBVIOUS
    <2>4. id \in 1..Len(inputs.one["dd"]) /\ inputs.one["dd"][id] = dd
        BY <1>7, <2>2, <2>3
    <2>5. Identify("dd", id)
        BY <1>9, <1>10, <2>3
    <2> HIDE DEF same, least
    <2>6. id \in 1..Len(out["dd"]) /\ out["dd"][id] = NewDds[k]
        BY <1>6, <1>7, <2>4 DEF FirstCopied
    <2>7. /\ DOMAIN out' = MsTables /\ DOMAIN remap' = MsTables
          /\ \A u \in MsTables \ {"dd"} : out'[u] = out[u] /\ remap'[u] = remap[u]
          /\ out'["dd"] = out["dd"] /\ remap'["dd"] = Append(remap["dd"], id)
        BY <1>0, <1>3, <2>5, IdentifyChanges
    <2>8. FirstCopied(inputs.one["dd"], out["dd"], k)
        BY <1>3, <1>4, <1>6, <1>7, FirstStays
    <2>9. MapLeads(out["dd"], Append(remap["dd"], id), k, NewDds)
        BY <1>4, <1>6, <1>7, <2>6, MapGrows
    <2>10. NewDds' = NewDds
        BY <1>0, <1>8, <2>7
    <2>11. Merged("dd", k)'
        BY <1>0, <1>7, <2>7, <2>8, <2>9, <2>10 DEF Merged
    <2> QED BY <1>0, <1>1, <1>2, <2>7, <2>11, RowMerged
<1>11. CASE same = {}
    <2>1. AddRowTo("dd", NewDds[k])
        BY <1>6, <1>9, <1>11
    <2> HIDE DEF same, least
    <2>2. PICK x : x = NewDds[k]
        OBVIOUS
    <2>3. /\ DOMAIN out' = MsTables /\ DOMAIN remap' = MsTables
          /\ \A u \in MsTables \ {"dd"} : out'[u] = out[u] /\ remap'[u] = remap[u]
          /\ out'["dd"] = Append(out["dd"], x)
          /\ remap'["dd"] = Append(remap["dd"], Len(out["dd"]) + 1)
        BY <1>0, <1>3, <2>1, <2>2, AddRowToChanges
    <2>4. FirstCopied(inputs.one["dd"], Append(out["dd"], x), k)
        BY <1>4, <1>6, <1>7, FirstStays
    <2>5. MapLeads(Append(out["dd"], x), Append(remap["dd"], Len(out["dd"]) + 1), k, NewDds)
        BY <1>4, <1>6, <1>7, <2>2, MapGrows
    <2>6. NewDds' = NewDds
        BY <1>0, <1>8, <2>3
    <2>7. Merged("dd", k)'
        BY <1>0, <1>7, <2>3, <2>4, <2>5, <2>6 DEF Merged
    <2> QED BY <1>0, <1>1, <1>2, <2>3, <2>7, RowMerged
<1> QED BY <1>10, <1>11

LEMMA AddObservationKeeps ==
    ASSUME ConcatInv, AddObservation
    PROVE  ConcatInv'
<1>0. "obs" \in MsTables /\ "obs" \notin Named \cup {"state", "dd", "pol", "main"}
    BY TablesAre DEF Named
<1>1. MergesRow("obs") /\ inputs' = inputs
    BY DEF AddObservation, MergesRow
<1>2. PICK k, x : k = nextRow /\ x = inputs.two["obs"][nextRow]
    OBVIOUS
<1>3. /\ k \in Nat \ {0} /\ Merged("obs", k - 1)
      /\ DOMAIN out = MsTables /\ DOMAIN remap = MsTables
    BY <1>0, <1>1, <1>2, RowsMerged
<1>4. k - 1 \in Nat /\ (k - 1) + 1 = k
    BY <1>3
<1>5. /\ FirstCopied(inputs.one["obs"], out["obs"], k - 1)
      /\ remap["obs"] = <<>> /\ Len(out["obs"]) = Len(inputs.one["obs"]) + (k - 1)
      /\ \A i \in 1..(k - 1) : out["obs"][Len(inputs.one["obs"]) + i] = inputs.two["obs"][i]
    BY <1>3 DEF Merged
<1>6. IsRows(inputs.one["obs"]) /\ IsRows(out["obs"]) /\ Len(inputs.one["obs"]) \in Nat
    BY <1>0, <1>5, InputRows DEF ConcatInv, FirstCopied
<1>7. /\ DOMAIN out' = MsTables /\ DOMAIN remap' = MsTables
      /\ \A u \in MsTables \ {"obs"} : out'[u] = out[u] /\ remap'[u] = remap[u]
      /\ out'["obs"] = Append(out["obs"], x) /\ remap'["obs"] = remap["obs"]
    BY <1>0, <1>2, <1>3, AddingChanges DEF AddObservation
<1>8. FirstCopied(inputs.one["obs"], Append(out["obs"], x), k)
    BY <1>4, <1>5, <1>6, FirstStays
<1>9. /\ Len(Append(out["obs"], x)) = Len(inputs.one["obs"]) + k
      /\ \A i \in 1..k : Append(out["obs"], x)[Len(inputs.one["obs"]) + i] = inputs.two["obs"][i]
    <2> DEFINE n == Len(inputs.one["obs"])
               rows == out["obs"]
               more == Append(rows, x)
               merged == inputs.two["obs"]
    <2>1. /\ Len(more) = Len(rows) + 1
          /\ \A i \in 1..Len(rows) : more[i] = rows[i]
          /\ more[Len(rows) + 1] = x
        BY <1>6, AddedRow
    <2>2. /\ n \in Nat /\ Len(rows) = n + (k - 1) /\ merged[k] = x
          /\ \A i \in 1..(k - 1) : rows[n + i] = merged[i]
        BY <1>2, <1>5, <1>6
    <2> HIDE DEF n, rows, more, merged
    <2>3. Len(more) = n + k /\ Len(rows) + 1 = n + k
        BY <1>3, <2>1, <2>2
    <2>4. \A i \in 1..(k - 1) : n + i \in 1..Len(rows)
        BY <1>3, <2>2
    <2>5. \A i \in 1..(k - 1) : more[n + i] = merged[i]
        BY <2>1, <2>2, <2>4
    <2>6. \A i \in 1..k : i \in 1..(k - 1) \/ i = k
        BY <1>3
    <2>7. more[n + k] = merged[k]
        BY <2>1, <2>2, <2>3
    <2>8. \A i \in 1..k : more[n + i] = merged[i]
        BY <2>5, <2>6, <2>7
    <2> QED BY <2>3, <2>8 DEF n, rows, more, merged
<1>10. Merged("obs", k)'
    BY <1>0, <1>1, <1>5, <1>7, <1>8, <1>9 DEF Merged
<1> QED BY <1>0, <1>1, <1>2, <1>7, <1>10, RowMerged

LEMMA AddStateKeeps ==
    ASSUME ConcatInv, AddState
    PROVE  ConcatInv'
<1>0. /\ "state" \in MsTables /\ "state" \in Named \cup {"state"}
      /\ "state" \notin Named \cup {"dd", "pol", "obs", "main"}
    BY TablesAre DEF Named
<1>1. MergesRow("state") /\ inputs' = inputs
    BY DEF AddState, MergesRow
<1>2. PICK k, x : k = nextRow /\ x = inputs.two["state"][nextRow]
    OBVIOUS
<1>3. /\ k \in Nat \ {0} /\ Merged("state", k - 1)
      /\ DOMAIN out = MsTables /\ DOMAIN remap = MsTables
    BY <1>0, <1>1, <1>2, RowsMerged
<1>4. k - 1 \in Nat /\ (k - 1) + 1 = k
    BY <1>3
<1>5. /\ FirstCopied(inputs.one["state"], out["state"], k - 1)
      /\ MapLeads(out["state"], remap["state"], k - 1, inputs.two["state"])
    BY <1>0, <1>3 DEF Merged
<1>6. IsRows(inputs.one["state"]) /\ IsRows(out["state"]) /\ Len(inputs.one["state"]) \in Nat
    BY <1>0, <1>5, InputRows DEF ConcatInv, FirstCopied
<1>7. /\ DOMAIN out' = MsTables /\ DOMAIN remap' = MsTables
      /\ \A u \in MsTables \ {"state"} : out'[u] = out[u] /\ remap'[u] = remap[u]
      /\ out'["state"] = Append(out["state"], x)
      /\ remap'["state"] = Append(remap["state"], Len(out["state"]) + 1)
    BY <1>0, <1>2, <1>3, AddRowToChanges DEF AddState
<1>8. FirstCopied(inputs.one["state"], Append(out["state"], x), k)
    BY <1>4, <1>5, <1>6, FirstStays
<1>9. MapLeads(Append(out["state"], x), Append(remap["state"], Len(out["state"]) + 1), k, inputs.two["state"])
    BY <1>2, <1>4, <1>5, <1>6, MapGrows
<1>10. Merged("state", k)'
    BY <1>0, <1>1, <1>7, <1>8, <1>9 DEF Merged
<1> QED BY <1>0, <1>1, <1>2, <1>7, <1>10, RowMerged

LEMMA AddMainRowKeeps ==
    ASSUME ConcatInv, AddMainRow
    PROVE  ConcatInv'
<1>0. "main" \in MsTables /\ "main" \notin Named \cup {"state", "dd", "pol", "obs"}
    BY TablesAre DEF Named
<1>1. MergesRow("main") /\ inputs' = inputs /\ remap' = remap
    BY DEF AddMainRow, MergesRow
<1>2. PICK k, x : k = nextRow /\ x = [f \in MainFields |-> Remapped(RefersTo[f], inputs.two["main"][nextRow][f])]
    OBVIOUS
<1>3. /\ k \in Nat \ {0} /\ k \in DOMAIN inputs.two["main"] /\ Merged("main", k - 1)
      /\ DOMAIN out = MsTables /\ DOMAIN remap = MsTables
    BY <1>0, <1>1, <1>2, RowsMerged
<1>4. k - 1 \in Nat /\ (k - 1) + 1 = k
    BY <1>3
<1>5. /\ FirstCopied(inputs.one["main"], out["main"], k - 1)
      /\ remap["main"] = <<>> /\ Len(out["main"]) = Len(inputs.one["main"]) + (k - 1)
      /\ \A i \in 1..(k - 1) : out["main"][Len(inputs.one["main"]) + i] = NewMain[i]
    BY <1>3 DEF Merged
<1>6. IsRows(inputs.one["main"]) /\ IsRows(out["main"]) /\ Len(inputs.one["main"]) \in Nat
    BY <1>0, <1>5, InputRows DEF ConcatInv, FirstCopied
<1>7. /\ DOMAIN out' = MsTables /\ DOMAIN remap' = MsTables
      /\ \A u \in MsTables \ {"main"} : out'[u] = out[u] /\ remap'[u] = remap[u]
      /\ out'["main"] = Append(out["main"], x) /\ remap'["main"] = remap["main"]
    BY <1>0, <1>1, <1>2, <1>3, AddingChanges DEF AddMainRow
<1>8. FirstCopied(inputs.one["main"], Append(out["main"], x), k)
    BY <1>4, <1>5, <1>6, FirstStays
<1>9. NewMain[k] = x /\ NewMain' = NewMain
    BY <1>1, <1>2, <1>3 DEF NewMain, Remapped
<1>10. /\ Len(Append(out["main"], x)) = Len(inputs.one["main"]) + k
       /\ \A i \in 1..k : Append(out["main"], x)[Len(inputs.one["main"]) + i] = NewMain[i]
    <2> DEFINE n == Len(inputs.one["main"])
               rows == out["main"]
               more == Append(rows, x)
    <2>1. /\ Len(more) = Len(rows) + 1
          /\ \A i \in 1..Len(rows) : more[i] = rows[i]
          /\ more[Len(rows) + 1] = x
        BY <1>6, AddedRow
    <2>2. /\ n \in Nat /\ Len(rows) = n + (k - 1)
          /\ \A i \in 1..(k - 1) : rows[n + i] = NewMain[i]
        BY <1>5, <1>6
    <2> HIDE DEF n, rows, more
    <2>3. Len(more) = n + k /\ Len(rows) + 1 = n + k
        BY <1>3, <2>1, <2>2
    <2>4. \A i \in 1..(k - 1) : n + i \in 1..Len(rows)
        BY <1>3, <2>2
    <2>5. \A i \in 1..(k - 1) : more[n + i] = NewMain[i]
        BY <2>1, <2>2, <2>4
    <2>6. \A i \in 1..k : i \in 1..(k - 1) \/ i = k
        BY <1>3
    <2>7. more[n + k] = NewMain[k]
        BY <1>9, <2>1, <2>3
    <2>8. \A i \in 1..k : more[n + i] = NewMain[i]
        BY <2>5, <2>6, <2>7
    <2> QED BY <2>3, <2>8 DEF n, rows, more
<1>11. Merged("main", k)'
    BY <1>0, <1>1, <1>5, <1>7, <1>8, <1>9, <1>10 DEF Merged
<1> QED BY <1>0, <1>1, <1>2, <1>7, <1>11, RowMerged

----------------------------------------------------------------------------
(* The other steps of the call.                                            *)

LEMMA MergedStays ==
    ASSUME UNCHANGED <<inputs, out, remap>>, NEW t, NEW k, Merged(t, k)
    PROVE  Merged(t, k)'
<1>1. NewDds' = NewDds
    BY DEF NewDds
<1>2. NewMain' = NewMain
    BY DEF NewMain, Remapped
<1> QED BY <1>1, <1>2 DEF Merged

LEMMA StartConcatKeeps ==
    ASSUME ConcatInv, StartConcat
    PROVE  ConcatInv'
<1>1. /\ step = "idle" /\ nextRow = 0 /\ step' = "antenna" /\ nextRow' = 0
      /\ out' = out /\ remap' = remap /\ inputs' \in Inputs
    BY DEF ConcatInv, CallInv, StartConcat
<1>2. IsMeasurementSet(inputs'.one) /\ IsMeasurementSet(inputs'.two)
    BY <1>1, ConcatAssumption
<1>3. CallInv'
    BY <1>1, <1>2, TablesAre DEF ConcatInv, CallInv
<1>4. ASSUME NEW t \in MsTables PROVE TableInv(t)'
    <2>1. Place[t] \in 1..8 /\ Place["idle"] = 0 /\ Place["antenna"] = 1
        BY Places8
    <2>2. ~Copied(t) /\ ~Copied(t)'
        BY <1>1, <2>1 DEF Copied
    <2>3. out[t] = <<>> /\ remap[t] = <<>>
        BY <2>2 DEF ConcatInv, TableInv
    <2> QED BY <1>1, <2>2, <2>3 DEF TableInv
<1> QED BY <1>3, <1>4 DEF ConcatInv

LEMMA CopyFirstKeeps ==
    ASSUME ConcatInv, NEW t \in MsTables, CopyFirst(t)
    PROVE  ConcatInv'
<1>1. /\ step = t /\ nextRow = 0 /\ step' = step /\ nextRow' = 1
      /\ inputs' = inputs /\ remap' = remap
    BY DEF CopyFirst
<1>2. DOMAIN out = MsTables /\ DOMAIN remap = MsTables
    BY DEF ConcatInv, CallInv
<1>3. /\ DOMAIN out' = MsTables /\ out'[t] = inputs.one[t]
      /\ \A u \in MsTables \ {t} : out'[u] = out[u] /\ remap'[u] = remap[u]
    BY <1>1, <1>2 DEF CopyFirst
<1>4. CallInv'
    BY <1>1, <1>2, <1>3, TablesAre DEF ConcatInv, CallInv
<1>5. \A u \in MsTables \ {t} : TableInv(u)'
    BY <1>1, <1>3, OtherTables
<1>6. TableInv(t)'
    <2>1. IsRows(inputs.one[t]) /\ Len(inputs.one[t]) \in Nat /\ Len(inputs.two[t]) \in Nat
        BY InputRows DEF ConcatInv
    <2>2. ~Copied(t)
        BY <1>1, Places8 DEF Copied
    <2>3. remap[t] = <<>>
        BY <2>2 DEF ConcatInv, TableInv
    <2>4. Copied(t)' /\ MergedRows(t)' = 0
        BY <1>1 DEF Copied, MergedRows
    <2>5. /\ FirstCopied(inputs.one[t], inputs.one[t], 0)
          /\ \A rows : MapLeads(inputs.one[t], <<>>, 0, rows)
          /\ NamesCounted(inputs.one[t], inputs.two[t], inputs.one[t], 0)
        BY <2>1, FirstAlone
    <2>6. Len(inputs.one[t]) = Len(inputs.one[t]) + 0 /\ 1..0 = {}
        BY <2>1
    <2>7. Merged(t, 0)'
        BY <1>1, <1>3, <2>3, <2>5, <2>6 DEF Merged
    <2>8. 0 \in 0..Len(inputs'.two[t])
        BY <1>1, <2>1
    <2> QED BY <2>4, <2>7, <2>8 DEF TableInv
<1> QED BY <1>4, <1>5, <1>6 DEF ConcatInv

LEMMA TableDoneKeeps ==
    ASSUME ConcatInv, NEW t \in MsTables, TableDone(t)
    PROVE  ConcatInv'
<1>1. /\ step = t /\ step' = NextOf(t) /\ nextRow' = 0
      /\ inputs' = inputs /\ out' = out /\ remap' = remap
      /\ nextRow > IF t = "pol" THEN 0 ELSE Len(inputs.two[t])
    BY DEF TableDone
<1>2. NextOf(t) \in MsTables \cup {"flush"} /\ Place[NextOf(t)] = Place[t] + 1
    BY NextPlace
<1>3. nextRow \in Nat /\ Len(inputs.two[t]) \in Nat /\ Place[t] \in 1..8
    BY InputRows, Places8 DEF ConcatInv, CallInv
<1>4. nextRow > 0
    BY <1>1, <1>3
<1>5. step' \notin {"idle", "failed"}
    BY <1>1, <1>2, TablesAre
<1>6. CallInv'
    BY <1>1, <1>2, <1>5 DEF ConcatInv, CallInv
<1>7. ASSUME NEW u \in MsTables PROVE TableInv(u)'
    <2>1. TableInv(u) /\ Place[u] \in 1..8 /\ (u # t => Place[u] # Place[t])
        BY Places8 DEF ConcatInv
    <2>2. Copied(u)' <=> Place[u] < Place[t] + 1
        BY <1>1, <1>2 DEF Copied
    <2>3. Copied(u) <=> Place[u] < Place[t] + 1
        BY <1>1, <1>3, <1>4, <2>1 DEF Copied
    <2>4. CASE ~Copied(u)
        BY <1>1, <2>1, <2>2, <2>3, <2>4 DEF TableInv
    <2>5. CASE Copied(u)
        <3>1. PICK k : k = MergedRows(u)
            OBVIOUS
        <3>2. k \in 0..Len(inputs.two[u]) /\ Merged(u, k)
            BY <2>1, <2>5, <3>1 DEF TableInv
        <3>3. Place[u] < Place[t] + 1
            BY <2>3, <2>5
        <3>4. step' # u
            BY <1>1, <1>2, <1>3, <2>1, <3>3
        <3>5. MergedRows(u)' = IF u = "pol" THEN 0 ELSE Len(inputs.two[u])
            BY <1>1, <3>4 DEF MergedRows
        <3>6. k = IF u = "pol" THEN 0 ELSE Len(inputs.two[u])
            <4>1. CASE u = t
                <5>1. k = nextRow - 1 /\ (u = "pol" => k = 0)
                    BY <1>1, <3>1, <3>2, <4>1 DEF MergedRows, Merged
                <5> QED BY <1>1, <1>3, <3>2, <4>1, <5>1
            <4>2. CASE u # t
                BY <1>1, <3>1, <4>2 DEF MergedRows
            <4> QED BY <4>1, <4>2
        <3>7. Merged(u, k)'
            BY <1>1, <3>2, MergedStays
        <3>8. Copied(u)' /\ MergedRows(u)' = k /\ k \in 0..Len(inputs'.two[u])
            BY <1>1, <2>2, <3>2, <3>3, <3>5, <3>6
        <3> QED BY <3>7, <3>8 DEF TableInv
    <2> QED BY <2>4, <2>5
<1> QED BY <1>6, <1>7 DEF ConcatInv

LEMMA FlushConcatKeeps ==
    ASSUME ConcatInv, FlushConcat
    PROVE  ConcatInv'
<1>1. /\ step = "flush" /\ step' \in {"done", "failed"} /\ nextRow' = nextRow
      /\ inputs' = inputs /\ out' = out /\ remap' = remap
      /\ step' = "failed" => ~KeysAreValid
    BY DEF FlushConcat
<1>2. KeysAreValid' = KeysAreValid
    BY <1>1 DEF KeysAreValid
<1>3. CallInv'
    BY <1>1, <1>2 DEF ConcatInv, CallInv
<1>4. ASSUME NEW t \in MsTables PROVE TableInv(t)'
    <2>1. /\ Place[t] \in 1..8 /\ Place["flush"] = 9 /\ Place["done"] = 10 /\ Place["failed"] = 10
          /\ t # "flush" /\ t # "done" /\ t # "failed"
        BY Places8, TablesAre
    <2>2. Copied(t) /\ Copied(t)'
        BY <1>1, <2>1 DEF Copied
    <2>3. PICK k : k = MergedRows(t)
        OBVIOUS
    <2>4. MergedRows(t)' = k
        BY <1>1, <2>1, <2>3 DEF MergedRows
    <2>5. k \in 0..Len(inputs.two[t]) /\ Merged(t, k)
        BY <2>2, <2>3 DEF ConcatInv, TableInv
    <2>6. Merged(t, k)'
        BY <1>1, <2>5, MergedStays
    <2> QED BY <1>1, <2>2, <2>4, <2>5, <2>6 DEF TableInv
<1> QED BY <1>3, <1>4 DEF ConcatInv

LEMMA ConcatInvStays ==
    ASSUME ConcatInv, UNCHANGED concatVars
    PROVE  ConcatInv'
<1>1. inputs' = inputs /\ out' = out /\ remap' = remap /\ step' = step /\ nextRow' = nextRow
    BY DEF concatVars
<1>2. CallInv'
    BY <1>1 DEF ConcatInv, CallInv, KeysAreValid
<1>3. ASSUME NEW t \in MsTables PROVE TableInv(t)'
    <2>1. PICK k : k = MergedRows(t)
        OBVIOUS
    <2>2. (Copied(t)' <=> Copied(t)) /\ MergedRows(t)' = k
        BY <1>1, <2>1 DEF Copied, MergedRows
    <2>3. /\ ~Copied(t) => out[t] = <<>> /\ remap[t] = <<>>
          /\ Copied(t) => k \in 0..Len(inputs.two[t]) /\ Merged(t, k)
        BY <2>1 DEF ConcatInv, TableInv
    <2>4. Copied(t) => Merged(t, k)'
        BY <1>1, <2>3, MergedStays
    <2> QED BY <1>1, <2>2, <2>3, <2>4 DEF TableInv
<1> QED BY <1>2, <1>3 DEF ConcatInv

LEMMA ConcatInvStart ==
    ASSUME ConcatInit
    PROVE  ConcatInv
<1>1. /\ inputs.one = NoRows /\ inputs.two = NoRows /\ out = NoRows /\ remap = NoRows
      /\ step = "idle" /\ nextRow = 0
    BY DEF ConcatInit
<1>2. DOMAIN NoRows = MsTables /\ \A t \in MsTables : NoRows[t] = <<>>
    BY DEF NoRows
<1>3. IsMeasurementSet(NoRows)
    BY <1>2, NoRowsAreRows, TablesAre DEF IsMeasurementSet
<1>4. CallInv
    BY <1>1, <1>2, <1>3 DEF CallInv
<1>5. ASSUME NEW t \in MsTables PROVE TableInv(t)
    <2>1. ~Copied(t)
        BY <1>1, Places8, TablesAre DEF Copied
    <2> QED BY <1>1, <1>2, <2>1 DEF TableInv
<1> QED BY <1>4, <1>5 DEF ConcatInv

\* Whatever two MeasurementSets are concatenated, the maps lead to the rows
\* that say what the merged rows said, through all steps of the call.
THEOREM ConcatInvariant == ConcatSpec => []ConcatInv
<1>1. ConcatInit => ConcatInv
    BY ConcatInvStart
<1>2. ASSUME ConcatInv, [ConcatNext]_concatVars PROVE ConcatInv'
    <2>1. CASE StartConcat
        BY <1>2, <2>1, StartConcatKeeps
    <2>2. ASSUME NEW t \in MsTables, CopyFirst(t) PROVE ConcatInv'
        BY <1>2, <2>2, CopyFirstKeeps
    <2>3. ASSUME NEW t \in MsTables, TableDone(t) PROVE ConcatInv'
        BY <1>2, <2>3, TableDoneKeeps
    <2>4. ASSUME NEW t \in Named, MergeByName(t) PROVE ConcatInv'
        BY <1>2, <2>4, MergeByNameKeeps
    <2>5. CASE MergeDataDescription
        BY <1>2, <2>5, MergeDataDescriptionKeeps
    <2>6. CASE AddObservation
        BY <1>2, <2>6, AddObservationKeeps
    <2>7. CASE AddState
        BY <1>2, <2>7, AddStateKeeps
    <2>8. CASE AddMainRow
        BY <1>2, <2>8, AddMainRowKeeps
    <2>9. CASE FlushConcat
        BY <1>2, <2>9, FlushConcatKeeps
    <2>10. CASE UNCHANGED concatVars
        BY <1>2, <2>10, ConcatInvStays
    <2> QED BY <1>2, <2>1, <2>2, <2>3, <2>4, <2>5, <2>6, <2>7, <2>8, <2>9, <2>10 DEF ConcatNext
<1> QED BY <1>1, <1>2, PTL DEF ConcatSpec

----------------------------------------------------------------------------
(* What the invariant says of a call that has merged all tables.           *)

AllMerged == step \in {"flush", "done", "failed"}

LEMMA TablesMerged ==
    ASSUME ConcatInv, AllMerged, NEW t \in MsTables
    PROVE  /\ Merged(t, IF t = "pol" THEN 0 ELSE Len(inputs.two[t]))
           /\ IsRows(out[t]) /\ DOMAIN out[t] = 1..Len(out[t]) /\ Len(out[t]) \in Nat
           /\ t # "pol" => Merged(t, Len(inputs.two[t]))
<1>1. Copied(t) /\ TableInv(t) /\ step # t
    BY Places8, TablesAre DEF AllMerged, Copied, ConcatInv
<1>2. MergedRows(t) = IF t = "pol" THEN 0 ELSE Len(inputs.two[t])
    BY <1>1 DEF MergedRows
<1>3. Merged(t, IF t = "pol" THEN 0 ELSE Len(inputs.two[t]))
    BY <1>1, <1>2 DEF TableInv
<1>4. IsRows(out[t])
    BY <1>3 DEF Merged, FirstCopied
<1> QED BY <1>3, <1>4, RowsAre

\* A row of the first MeasurementSet keeps its number.
LEMMA FirstRow ==
    ASSUME ConcatInv, AllMerged, NEW t \in MsTables, NEW id \in DOMAIN inputs.one[t]
    PROVE  id \in DOMAIN out[t] /\ out[t][id] = inputs.one[t][id]
<1>1. FirstCopied(inputs.one[t], out[t], IF t = "pol" THEN 0 ELSE Len(inputs.two[t]))
    BY TablesMerged DEF Merged
<1>2. DOMAIN inputs.one[t] = 1..Len(inputs.one[t]) /\ Len(inputs.one[t]) \in Nat
    BY InputRows DEF ConcatInv
<1>3. DOMAIN out[t] = 1..Len(out[t]) /\ Len(out[t]) \in Nat
    BY TablesMerged
<1>4. Len(inputs.one[t]) <= Len(out[t]) /\ \A i \in 1..Len(inputs.one[t]) : out[t][i] = inputs.one[t][i]
    BY <1>1 DEF FirstCopied
<1> QED BY <1>2, <1>3, <1>4

\* The row that a row of the second has become says the same.
LEMMA SecondRow ==
    ASSUME ConcatInv, AllMerged, NEW t \in Named \cup {"state"}
    PROVE  /\ \A id \in DOMAIN inputs.two[t] :
                /\ Remapped(t, id) = remap[t][id]
                /\ Remapped(t, id) \in DOMAIN out[t] /\ out[t][Remapped(t, id)] = inputs.two[t][id]
           /\ \A id : id \notin DOMAIN inputs.two[t] => Remapped(t, id) = id
<1>1. t \in MsTables /\ t # "pol"
    BY TablesAre DEF Named
<1>2. MapLeads(out[t], remap[t], Len(inputs.two[t]), inputs.two[t])
    BY <1>1, TablesMerged DEF Merged
<1>3. DOMAIN inputs.two[t] = 1..Len(inputs.two[t])
    BY <1>1, InputRows DEF ConcatInv
<1>4. DOMAIN remap[t] = DOMAIN inputs.two[t] /\ DOMAIN out[t] = 1..Len(out[t])
    BY <1>1, <1>2, <1>3, RowsAre, TablesMerged DEF MapLeads
<1> QED BY <1>2, <1>3, <1>4 DEF MapLeads, Remapped

LEMMA SecondDd ==
    ASSUME ConcatInv, AllMerged, NEW id \in DOMAIN inputs.two["dd"]
    PROVE  /\ Remapped("dd", id) \in DOMAIN out["dd"]
           /\ out["dd"][Remapped("dd", id)].spw \in DOMAIN out["spw"]
           /\ out["spw"][out["dd"][Remapped("dd", id)].spw] = inputs.two["spw"][inputs.two["dd"][id].spw]
           /\ out["dd"][Remapped("dd", id)].pol = inputs.two["dd"][id].pol
<1>1. "dd" \in MsTables /\ "spw" \in Named \cup {"state"}
    BY TablesAre DEF Named
<1>2. MapLeads(out["dd"], remap["dd"], Len(inputs.two["dd"]), NewDds)
    BY <1>1, TablesMerged DEF Merged
<1>3. DOMAIN inputs.two["dd"] = 1..Len(inputs.two["dd"])
    BY <1>1, InputRows DEF ConcatInv
<1>4. DOMAIN remap["dd"] = DOMAIN inputs.two["dd"] /\ DOMAIN out["dd"] = 1..Len(out["dd"])
    BY <1>1, <1>2, <1>3, RowsAre, TablesMerged DEF MapLeads
<1>5. Remapped("dd", id) \in DOMAIN out["dd"] /\ out["dd"][Remapped("dd", id)] = NewDds[id]
    BY <1>2, <1>3, <1>4 DEF MapLeads, Remapped
<1>6. inputs.two["dd"][id] \in [spw : DOMAIN inputs.two["spw"], pol : DOMAIN inputs.two["pol"]]
    BY DEF ConcatInv, CallInv, IsMeasurementSet
<1>7. PICK s : s = inputs.two["dd"][id].spw /\ s \in DOMAIN inputs.two["spw"]
    BY <1>6
<1>8. NewDds[id].spw = remap["spw"][s] /\ NewDds[id].pol = inputs.two["dd"][id].pol
    BY <1>7 DEF NewDds
<1>9. remap["spw"][s] \in DOMAIN out["spw"] /\ out["spw"][remap["spw"][s]] = inputs.two["spw"][s]
    BY <1>1, <1>7, SecondRow
<1> QED BY <1>5, <1>7, <1>8, <1>9

\* OBSERVATION has the rows of both, POLARIZATION those of the first.
LEMMA ObsRows ==
    ASSUME ConcatInv, AllMerged
    PROVE  LET n1 == Len(inputs.one["obs"])
               n2 == Len(inputs.two["obs"])
           IN  /\ n1 \in Nat /\ n2 \in Nat
               /\ DOMAIN inputs.one["obs"] = 1..n1 /\ DOMAIN inputs.two["obs"] = 1..n2
               /\ DOMAIN out["obs"] = 1..(n1 + n2) /\ remap["obs"] = <<>>
               /\ \A i \in 1..n1 : out["obs"][i] = inputs.one["obs"][i]
               /\ \A i \in 1..n2 : out["obs"][n1 + i] = inputs.two["obs"][i]
<1>1. "obs" \in MsTables /\ "obs" # "pol"
    BY TablesAre
<1>2. Merged("obs", Len(inputs.two["obs"])) /\ DOMAIN out["obs"] = 1..Len(out["obs"])
    BY <1>1, TablesMerged
<1>3. /\ Len(inputs.one["obs"]) \in Nat /\ DOMAIN inputs.one["obs"] = 1..Len(inputs.one["obs"])
      /\ Len(inputs.two["obs"]) \in Nat /\ DOMAIN inputs.two["obs"] = 1..Len(inputs.two["obs"])
    BY <1>1, InputRows DEF ConcatInv
<1>4. /\ Len(out["obs"]) = Len(inputs.one["obs"]) + Len(inputs.two["obs"]) /\ remap["obs"] = <<>>
      /\ \A i \in 1..Len(inputs.one["obs"]) : out["obs"][i] = inputs.one["obs"][i]
      /\ \A i \in 1..Len(inputs.two["obs"]) :
            out["obs"][Len(inputs.one["obs"]) + i] = inputs.two["obs"][i]
    BY <1>2 DEF Merged, FirstCopied
<1> QED BY <1>2, <1>3, <1>4

LEMMA PolRows ==
    ASSUME ConcatInv, AllMerged, NEW id
    PROVE  RowAt(out, "pol", id) = RowAt(inputs.one, "pol", id)
<1>1. "pol" \in MsTables
    BY TablesAre
<1>2. FirstCopied(inputs.one["pol"], out["pol"], 0)
    BY <1>1, TablesMerged DEF Merged
<1>3. /\ Len(inputs.one["pol"]) \in Nat /\ DOMAIN inputs.one["pol"] = 1..Len(inputs.one["pol"])
      /\ Len(out["pol"]) \in Nat /\ DOMAIN out["pol"] = 1..Len(out["pol"])
    BY <1>1, InputRows, TablesMerged DEF ConcatInv
<1>4. Len(out["pol"]) = Len(inputs.one["pol"])
    BY <1>2, <1>3 DEF FirstCopied
<1>5. DOMAIN out["pol"] = DOMAIN inputs.one["pol"]
    BY <1>3, <1>4
<1>6. \A i \in DOMAIN inputs.one["pol"] : out["pol"][i] = inputs.one["pol"][i]
    BY <1>2, <1>3 DEF FirstCopied
<1> QED BY <1>5, <1>6 DEF RowAt

\* The main rows of the output.
LEMMA MainRows ==
    ASSUME ConcatInv, AllMerged
    PROVE  LET n1 == Len(inputs.one["main"])
               n2 == Len(inputs.two["main"])
           IN  /\ n1 \in Nat /\ n2 \in Nat
               /\ DOMAIN inputs.one["main"] = 1..n1 /\ DOMAIN inputs.two["main"] = 1..n2
               /\ Len(out["main"]) = n1 + n2 /\ DOMAIN out["main"] = 1..(n1 + n2)
               /\ \A i \in 1..n1 : out["main"][i] = inputs.one["main"][i]
               /\ \A i \in 1..n2 : \A f \in MainFields :
                    out["main"][n1 + i][f] = Remapped(RefersTo[f], inputs.two["main"][i][f])
<1>1. "main" \in MsTables /\ "main" # "pol"
    BY TablesAre
<1>2. Merged("main", Len(inputs.two["main"])) /\ DOMAIN out["main"] = 1..Len(out["main"])
    BY <1>1, TablesMerged
<1>3. /\ Len(inputs.one["main"]) \in Nat /\ DOMAIN inputs.one["main"] = 1..Len(inputs.one["main"])
      /\ Len(inputs.two["main"]) \in Nat /\ DOMAIN inputs.two["main"] = 1..Len(inputs.two["main"])
    BY <1>1, InputRows DEF ConcatInv
<1>4. /\ Len(out["main"]) = Len(inputs.one["main"]) + Len(inputs.two["main"])
      /\ \A i \in 1..Len(inputs.one["main"]) : out["main"][i] = inputs.one["main"][i]
      /\ \A i \in 1..Len(inputs.two["main"]) : out["main"][Len(inputs.one["main"]) + i] = NewMain[i]
    BY <1>2 DEF Merged, FirstCopied
<1>5. \A i \in DOMAIN inputs.two["main"] : \A f \in MainFields :
        NewMain[i][f] = Remapped(RefersTo[f], inputs.two["main"][i][f])
    BY DEF NewMain
<1> QED BY <1>2, <1>3, <1>4, <1>5

RefersToRow(m, i, f) ==
    m["main"][i][f] \in DOMAIN m[RefersTo[f]] \/ (f = "state" /\ m["main"][i][f] = 0)

LEMMA InputReferences ==
    ASSUME ConcatInv
    PROVE  /\ \A i \in DOMAIN inputs.one["main"], f \in MainFields : RefersToRow(inputs.one, i, f)
           /\ \A i \in DOMAIN inputs.two["main"], f \in MainFields : RefersToRow(inputs.two, i, f)
BY DEF ConcatInv, CallInv, IsMeasurementSet, RefersToRow

----------------------------------------------------------------------------
(* Rows keep their meaning.                                                *)

LEMMA MeaningIs ==
    ASSUME NEW m, NEW i
    PROVE  Meaning(m, i) =
             [ant1 |-> RowAt(m, "antenna", m["main"][i]["ant1"]),
              ant2 |-> RowAt(m, "antenna", m["main"][i]["ant2"]),
              field |-> RowAt(m, "field", m["main"][i]["field"]),
              state |-> RowAt(m, "state", m["main"][i]["state"]),
              obs |-> RowAt(m, "obs", m["main"][i]["obs"]),
              spw |-> DescribedAt(m, "spw", m["main"][i]["dd"], "spw"),
              pol |-> DescribedAt(m, "pol", m["main"][i]["dd"], "pol")]
BY DEF Meaning

LEMMA TakenForIs ==
    ASSUME NEW i
    PROVE  TakenFor(i) =
             [ant1 |-> RowAt(inputs.two, "antenna", inputs.two["main"][i]["ant1"]),
              ant2 |-> RowAt(inputs.two, "antenna", inputs.two["main"][i]["ant2"]),
              field |-> RowAt(inputs.two, "field", inputs.two["main"][i]["field"]),
              state |-> RowAt(inputs.two, "state", inputs.two["main"][i]["state"]),
              obs |-> ObservationTaken(inputs.two["main"][i]["obs"]),
              spw |-> DescribedAt(inputs.two, "spw", inputs.two["main"][i]["dd"], "spw"),
              pol |-> PolarizationTaken(inputs.two["main"][i]["dd"])]
<1>1. PICK m, a, b, f, s, w, o, q :
        /\ m = inputs.two["main"][i]
        /\ a = RowAt(inputs.two, "antenna", m["ant1"]) /\ b = RowAt(inputs.two, "antenna", m["ant2"])
        /\ f = RowAt(inputs.two, "field", m["field"]) /\ s = RowAt(inputs.two, "state", m["state"])
        /\ w = DescribedAt(inputs.two, "spw", m["dd"], "spw")
        /\ o = RowAt(inputs.two, "obs", m["obs"])
        /\ q = DescribedAt(inputs.two, "pol", m["dd"], "pol")
    OBVIOUS
<1>2. Meaning(inputs.two, i) =
        [ant1 |-> a, ant2 |-> b, field |-> f, state |-> s, obs |-> o, spw |-> w, pol |-> q]
    BY <1>1 DEF Meaning
<1>3. PICK taken, polarization :
        taken = ObservationTaken(m["obs"]) /\ polarization = PolarizationTaken(m["dd"])
    OBVIOUS
<1>4. PICK said, t :
        /\ said = [ant1 |-> a, ant2 |-> b, field |-> f, state |-> s, obs |-> o, spw |-> w, pol |-> q]
        /\ t = [said EXCEPT !.obs = taken, !.pol = polarization]
    OBVIOUS
<1>5. TakenFor(i) = t
    BY <1>1, <1>2, <1>3, <1>4 DEF TakenFor
<1>6. t = [ant1 |-> a, ant2 |-> b, field |-> f, state |-> s, obs |-> taken, spw |-> w,
           pol |-> polarization]
    BY <1>4
<1> QED BY <1>1, <1>3, <1>5, <1>6

LEMMA Fields ==
    /\ {"ant1", "ant2", "field", "dd", "obs", "state"} = MainFields
    /\ RefersTo["ant1"] = "antenna" /\ RefersTo["ant2"] = "antenna" /\ RefersTo["field"] = "field"
    /\ RefersTo["dd"] = "dd" /\ RefersTo["obs"] = "obs" /\ RefersTo["state"] = "state"
BY DEF MainFields, RefersTo

LEMMA FirstMeansTheSame ==
    ASSUME ConcatInv, AllMerged, NEW i \in DOMAIN inputs.one["main"]
    PROVE  Meaning(out, i) = Meaning(inputs.one, i)
<1> DEFINE r == inputs.one["main"][i]
<1>1. out["main"][i] = r
    BY MainRows
<1>2. /\ r["ant1"] \in DOMAIN inputs.one["antenna"] /\ r["ant2"] \in DOMAIN inputs.one["antenna"]
      /\ r["field"] \in DOMAIN inputs.one["field"] /\ r["dd"] \in DOMAIN inputs.one["dd"]
      /\ r["obs"] \in DOMAIN inputs.one["obs"]
      /\ r["state"] \in DOMAIN inputs.one["state"] \/ r["state"] = 0
    BY InputReferences, Fields DEF RefersToRow
<1> HIDE DEF r
<1>3. {"antenna", "field", "dd", "spw", "state", "obs"} \subseteq MsTables
    BY TablesAre
<1>4. /\ RowAt(out, "antenna", r["ant1"]) = RowAt(inputs.one, "antenna", r["ant1"])
      /\ RowAt(out, "antenna", r["ant2"]) = RowAt(inputs.one, "antenna", r["ant2"])
      /\ RowAt(out, "field", r["field"]) = RowAt(inputs.one, "field", r["field"])
    BY <1>2, <1>3, FirstRow DEF RowAt
<1>5. RowAt(out, "state", r["state"]) = RowAt(inputs.one, "state", r["state"])
    <2>1. CASE r["state"] \in DOMAIN inputs.one["state"]
        BY <1>3, <2>1, FirstRow DEF RowAt
    <2>2. CASE r["state"] = 0
        <3>1. 0 \notin DOMAIN out["state"] /\ 0 \notin DOMAIN inputs.one["state"]
            BY <1>3, InputRows, TablesMerged DEF ConcatInv
        <3> QED BY <2>2, <3>1 DEF RowAt
    <2> QED BY <1>2, <2>1, <2>2
<1>6. /\ DescribedAt(out, "spw", r["dd"], "spw") = DescribedAt(inputs.one, "spw", r["dd"], "spw")
      /\ DescribedAt(out, "pol", r["dd"], "pol") = DescribedAt(inputs.one, "pol", r["dd"], "pol")
    <2>1. r["dd"] \in DOMAIN out["dd"] /\ out["dd"][r["dd"]] = inputs.one["dd"][r["dd"]]
        BY <1>2, <1>3, FirstRow
    <2>2. inputs.one["dd"][r["dd"]] \in [spw : DOMAIN inputs.one["spw"], pol : DOMAIN inputs.one["pol"]]
        BY <1>2 DEF ConcatInv, CallInv, IsMeasurementSet
    <2>3. PICK s : s = inputs.one["dd"][r["dd"]].spw /\ s \in DOMAIN inputs.one["spw"]
        BY <2>2
    <2>4. RowAt(out, "spw", s) = RowAt(inputs.one, "spw", s)
        BY <1>3, <2>3, FirstRow DEF RowAt
    <2>5. /\ DescribedAt(out, "spw", r["dd"], "spw") = RowAt(out, "spw", s)
          /\ DescribedAt(inputs.one, "spw", r["dd"], "spw") = RowAt(inputs.one, "spw", s)
        BY <1>2, <2>1, <2>3 DEF DescribedAt
    <2>6. PICK p : p = inputs.one["dd"][r["dd"]].pol
        OBVIOUS
    <2>7. /\ DescribedAt(out, "pol", r["dd"], "pol") = RowAt(out, "pol", p)
          /\ DescribedAt(inputs.one, "pol", r["dd"], "pol") = RowAt(inputs.one, "pol", p)
        BY <1>2, <2>1, <2>6 DEF DescribedAt
    <2> QED BY <2>4, <2>5, <2>7, PolRows
<1>7. RowAt(out, "obs", r["obs"]) = RowAt(inputs.one, "obs", r["obs"])
    BY <1>2, <1>3, FirstRow DEF RowAt
<1> QED BY <1>1, <1>4, <1>5, <1>6, <1>7, MeaningIs DEF r

LEMMA SecondMeansTheSame ==
    ASSUME ConcatInv, AllMerged, NEW i \in DOMAIN inputs.two["main"]
    PROVE  Meaning(out, Len(inputs.one["main"]) + i) = TakenFor(i)
<1> DEFINE r == inputs.two["main"][i]
           n == Len(inputs.one["main"])
           q == out["main"][n + i]
<1>1. \A f \in MainFields : q[f] = Remapped(RefersTo[f], r[f])
    BY MainRows
<1>2. /\ r["ant1"] \in DOMAIN inputs.two["antenna"] /\ r["ant2"] \in DOMAIN inputs.two["antenna"]
      /\ r["field"] \in DOMAIN inputs.two["field"] /\ r["dd"] \in DOMAIN inputs.two["dd"]
      /\ r["obs"] \in DOMAIN inputs.two["obs"]
      /\ r["state"] \in DOMAIN inputs.two["state"] \/ r["state"] = 0
    BY InputReferences, Fields DEF RefersToRow
<1> HIDE DEF r, q, n
<1>3. /\ q["ant1"] = Remapped("antenna", r["ant1"]) /\ q["ant2"] = Remapped("antenna", r["ant2"])
      /\ q["field"] = Remapped("field", r["field"]) /\ q["dd"] = Remapped("dd", r["dd"])
      /\ q["state"] = Remapped("state", r["state"]) /\ q["obs"] = Remapped("obs", r["obs"])
    BY <1>1, Fields
<1>4. {"antenna", "field", "state"} \subseteq Named \cup {"state"} /\ "state" \in MsTables
    BY TablesAre DEF Named
<1>5. /\ RowAt(out, "antenna", q["ant1"]) = RowAt(inputs.two, "antenna", r["ant1"])
      /\ RowAt(out, "antenna", q["ant2"]) = RowAt(inputs.two, "antenna", r["ant2"])
      /\ RowAt(out, "field", q["field"]) = RowAt(inputs.two, "field", r["field"])
    BY <1>2, <1>3, <1>4, SecondRow DEF RowAt
<1>6. RowAt(out, "state", q["state"]) = RowAt(inputs.two, "state", r["state"])
    <2>1. CASE r["state"] \in DOMAIN inputs.two["state"]
        BY <1>3, <1>4, <2>1, SecondRow DEF RowAt
    <2>2. CASE r["state"] = 0
        <3>1. 0 \notin DOMAIN out["state"] /\ 0 \notin DOMAIN inputs.two["state"]
            BY <1>4, InputRows, TablesMerged DEF ConcatInv
        <3>2. q["state"] = 0
            BY <1>3, <1>4, <2>2, <3>1, SecondRow
        <3> QED BY <2>2, <3>1, <3>2 DEF RowAt
    <2> QED BY <1>2, <2>1, <2>2
<1>7. /\ DescribedAt(out, "spw", q["dd"], "spw") = DescribedAt(inputs.two, "spw", r["dd"], "spw")
      /\ DescribedAt(out, "pol", q["dd"], "pol") = PolarizationTaken(r["dd"])
    <2>1. /\ q["dd"] \in DOMAIN out["dd"] /\ out["dd"][q["dd"]].spw \in DOMAIN out["spw"]
          /\ out["spw"][out["dd"][q["dd"]].spw] = inputs.two["spw"][inputs.two["dd"][r["dd"]].spw]
          /\ out["dd"][q["dd"]].pol = inputs.two["dd"][r["dd"]].pol
        BY <1>2, <1>3, SecondDd
    <2>2. inputs.two["dd"][r["dd"]] \in [spw : DOMAIN inputs.two["spw"], pol : DOMAIN inputs.two["pol"]]
        BY <1>2 DEF ConcatInv, CallInv, IsMeasurementSet
    <2>3. inputs.two["dd"][r["dd"]].spw \in DOMAIN inputs.two["spw"]
        BY <2>2
    <2>4. DescribedAt(out, "spw", q["dd"], "spw") = DescribedAt(inputs.two, "spw", r["dd"], "spw")
        BY <1>2, <2>1, <2>3 DEF DescribedAt, RowAt
    <2>5. PICK p : p = inputs.two["dd"][r["dd"]].pol
        OBVIOUS
    <2>6. DescribedAt(out, "pol", q["dd"], "pol") = RowAt(out, "pol", p)
        BY <2>1, <2>5 DEF DescribedAt
    <2> QED BY <2>4, <2>5, <2>6, PolRows DEF PolarizationTaken
<1>8. RowAt(out, "obs", q["obs"]) = ObservationTaken(r["obs"])
    <2>1. PICK n1, n2, id : n1 = Len(inputs.one["obs"]) /\ n2 = Len(inputs.two["obs"]) /\ id = r["obs"]
        OBVIOUS
    <2>2. /\ n1 \in Nat /\ n2 \in Nat
          /\ DOMAIN inputs.one["obs"] = 1..n1 /\ DOMAIN inputs.two["obs"] = 1..n2
          /\ DOMAIN out["obs"] = 1..(n1 + n2) /\ remap["obs"] = <<>>
          /\ \A k \in 1..n1 : out["obs"][k] = inputs.one["obs"][k]
          /\ \A k \in 1..n2 : out["obs"][n1 + k] = inputs.two["obs"][k]
        BY <2>1, ObsRows
    <2>3. id \in 1..n2 /\ q["obs"] = id
        BY <1>2, <1>3, <2>1, <2>2, NoRowsAreRows DEF Remapped
    <2>4. id \in 1..(n1 + n2)
        BY <2>2, <2>3
    <2>5. RowAt(out, "obs", id) = out["obs"][id]
        BY <2>2, <2>4 DEF RowAt
    <2>6. CASE id \in 1..n1
        BY <2>1, <2>2, <2>3, <2>5, <2>6 DEF ObservationTaken
    <2>7. CASE id \notin 1..n1
        <3>1. id - n1 \in 1..n2 /\ n1 + (id - n1) = id
            BY <2>2, <2>3, <2>7
        <3>2. ObservationTaken(id) = RowAt(inputs.two, "obs", id - n1)
            BY <2>1, <2>7 DEF ObservationTaken
        <3>3. PICK k : k = id - n1
            OBVIOUS
        <3>4. RowAt(inputs.two, "obs", k) = inputs.two["obs"][k] /\ out["obs"][id] = inputs.two["obs"][k]
            BY <2>2, <3>1, <3>3 DEF RowAt
        <3> QED BY <2>1, <2>3, <2>5, <3>2, <3>3, <3>4
    <2> QED BY <2>6, <2>7
<1> QED BY <1>5, <1>6, <1>7, <1>8, MeaningIs, TakenForIs DEF r, q, n

LEMMA MeaningKept ==
    ASSUME ConcatInv
    PROVE  RowsKeepTheirMeaning
<1> SUFFICES ASSUME step \in {"flush", "done"}
             PROVE  /\ Len(out["main"]) = Len(inputs.one["main"]) + Len(inputs.two["main"])
                    /\ \A i \in 1..Len(inputs.one["main"]) : Meaning(out, i) = Meaning(inputs.one, i)
                    /\ \A i \in 1..Len(inputs.two["main"]) :
                            Meaning(out, Len(inputs.one["main"]) + i) = TakenFor(i)
    BY DEF RowsKeepTheirMeaning
<1>1. AllMerged
    BY DEF AllMerged
<1> QED BY <1>1, MainRows, FirstMeansTheSame, SecondMeansTheSame

----------------------------------------------------------------------------
(* Names are merged, and references without a row come from the inputs.    *)

LEMMA NamesMerged ==
    ASSUME ConcatInv
    PROVE  NamesAreMerged
<1> DEFINE Count(s, n) == Cardinality({i \in DOMAIN s : s[i] = n})
<1> SUFFICES ASSUME step = "done", NEW t \in Named, NEW i \in DOMAIN out[t]
             PROVE  Count(out[t], out[t][i]) =
                        IF Count(inputs.one[t], out[t][i]) > 0 THEN Count(inputs.one[t], out[t][i])
                        ELSE Count(inputs.two[t], out[t][i])
    BY DEF NamesAreMerged
<1>1. AllMerged /\ t \in MsTables /\ t # "pol"
    BY TablesAre DEF AllMerged, Named
<1>2. PICK n : n = out[t][i]
    OBVIOUS
<1>3. n \in NamesOf(out[t])
    BY <1>2 DEF NamesOf
<1>4. NamesCounted(inputs.one[t], inputs.two[t], out[t], Len(inputs.two[t]))
    BY <1>1, TablesMerged DEF Merged
<1>5. /\ DOMAIN inputs.one[t] = 1..Len(inputs.one[t]) /\ Len(inputs.one[t]) \in Nat
      /\ DOMAIN inputs.two[t] = 1..Len(inputs.two[t]) /\ DOMAIN out[t] = 1..Len(out[t])
    BY <1>1, InputRows, TablesMerged DEF ConcatInv
<1>6. /\ Count(out[t], n) = Cardinality(Places(out[t], Len(out[t]), n))
      /\ Count(inputs.one[t], n) = Cardinality(Places(inputs.one[t], Len(inputs.one[t]), n))
      /\ Count(inputs.two[t], n) = Cardinality(Places(inputs.two[t], Len(inputs.two[t]), n))
    BY <1>5 DEF Places
<1> HIDE DEF Count
<1>7. Count(out[t], n) = IF n \in NamesOf(inputs.one[t]) THEN Count(inputs.one[t], n)
                         ELSE Count(inputs.two[t], n)
    BY <1>3, <1>4, <1>6 DEF NamesCounted
<1>8. n \in NamesOf(inputs.one[t]) <=> Places(inputs.one[t], Len(inputs.one[t]), n) # {}
    BY <1>5 DEF NamesOf, Places
<1>9. /\ IsFiniteSet(Places(inputs.one[t], Len(inputs.one[t]), n))
      /\ Cardinality(Places(inputs.one[t], Len(inputs.one[t]), n)) \in Nat
    BY <1>5, PlacesFinite
<1>10. Cardinality(Places(inputs.one[t], Len(inputs.one[t]), n)) = 0 <=>
            Places(inputs.one[t], Len(inputs.one[t]), n) = {}
    BY <1>9, FS_EmptySet
<1>11. n \in NamesOf(inputs.one[t]) <=> Count(inputs.one[t], n) > 0
    BY <1>6, <1>8, <1>9, <1>10
<1>12. Count(out[t], n) = IF Count(inputs.one[t], n) > 0 THEN Count(inputs.one[t], n)
                          ELSE Count(inputs.two[t], n)
    BY <1>7, <1>11
<1> QED BY <1>2, <1>12

HasNoState(m) == \E i \in DOMAIN m["main"] : m["main"][i]["state"] = 0

LEMMA KeysFollow ==
    ASSUME ConcatInv, AllMerged, ~HasNoState(inputs.one), ~HasNoState(inputs.two)
    PROVE  KeysAreValid
<1> DEFINE n1 == Len(inputs.one["main"])
           n2 == Len(inputs.two["main"])
<1>0. n1 \in Nat /\ n2 \in Nat /\ DOMAIN inputs.one["main"] = 1..n1 /\ DOMAIN inputs.two["main"] = 1..n2
    BY MainRows
<1> SUFFICES ASSUME NEW j \in DOMAIN out["main"], NEW f \in MainFields
             PROVE  out["main"][j][f] \in DOMAIN out[RefersTo[f]]
    BY DEF KeysAreValid
<1>1. PICK t \in MsTables : t = RefersTo[f]
    BY Places8
<1>2. CASE j \in 1..n1
    <2>1. out["main"][j] = inputs.one["main"][j]
        BY <1>2, MainRows
    <2>2. inputs.one["main"][j][f] \in DOMAIN inputs.one[t]
        BY <1>0, <1>1, <1>2, InputReferences DEF RefersToRow, HasNoState
    <2> QED BY <1>1, <2>1, <2>2, FirstRow
<1>3. CASE \E i \in 1..n2 : j = n1 + i
    <2>1. PICK i \in 1..n2 : j = n1 + i
        BY <1>3
    <2>2. PICK id : id = inputs.two["main"][i][f]
        OBVIOUS
    <2>3. out["main"][j][f] = Remapped(t, id)
        BY <1>1, <2>1, <2>2, MainRows
    <2>4. id \in DOMAIN inputs.two[t]
        BY <1>0, <1>1, <2>1, <2>2, InputReferences DEF RefersToRow, HasNoState
    <2>5. CASE t \in Named \cup {"state"}
        BY <1>1, <2>3, <2>4, <2>5, SecondRow
    <2>6. CASE t = "dd"
        BY <1>1, <2>3, <2>4, <2>6, SecondDd
    <2>7. CASE t = "obs"
        <3>1. Merged("obs", Len(inputs.two["obs"])) /\ DOMAIN out["obs"] = 1..Len(out["obs"])
            BY <2>7, TablesMerged
        <3>2. remap["obs"] = <<>> /\ Len(out["obs"]) = Len(inputs.one["obs"]) + Len(inputs.two["obs"])
            BY <3>1 DEF Merged
        <3>3. Remapped("obs", id) = id
            BY <3>2, NoRowsAreRows DEF Remapped
        <3>4. /\ Len(inputs.one["obs"]) \in Nat /\ Len(inputs.two["obs"]) \in Nat
              /\ id \in 1..Len(inputs.two["obs"])
            BY <2>4, <2>7, InputRows DEF ConcatInv
        <3>5. PICK a, b : a = Len(inputs.one["obs"]) /\ b = Len(inputs.two["obs"])
            OBVIOUS
        <3>6. a \in Nat /\ b \in Nat /\ id \in 1..b /\ DOMAIN out["obs"] = 1..(a + b)
            BY <3>1, <3>2, <3>4, <3>5
        <3>7. id \in 1..(a + b)
            BY <3>6
        <3> QED BY <1>1, <2>3, <2>7, <3>3, <3>6, <3>7
    <2>8. t \in Named \cup {"state", "dd", "obs"}
        BY <1>1, Fields DEF Named
    <2> QED BY <2>5, <2>6, <2>7, <2>8
<1>4. j \in 1..n1 \/ \E i \in 1..n2 : j = n1 + i
    <2>1. j \in 1..(n1 + n2)
        BY MainRows
    <2> HIDE DEF n1, n2
    <2>2. j \notin 1..n1 => j - n1 \in 1..n2 /\ j = n1 + (j - n1)
        BY <1>0, <2>1
    <2> QED BY <2>2
<1> QED BY <1>2, <1>3, <1>4

LEMMA OnlyNoStateFails ==
    ASSUME ConcatInv
    PROVE  FailsOnlyForNoState
<1>1. step = "failed" => AllMerged /\ ~KeysAreValid
    BY DEF AllMerged, ConcatInv, CallInv
<1>2. step = "failed" => HasNoState(inputs.one) \/ HasNoState(inputs.two)
    BY <1>1, KeysFollow
<1> QED BY <1>2 DEF FailsOnlyForNoState, HasNoState

LEMMA TypesFollow ==
    ASSUME ConcatInv
    PROVE  ConcatTypeOK
<1>1. ASSUME NEW t \in MsTables
      PROVE  /\ Len(out[t]) <= Len(inputs.one[t]) + Len(inputs.two[t])
             /\ \A i \in DOMAIN remap[t] : remap[t][i] \in DOMAIN out[t]
    <2>1. /\ Len(inputs.one[t]) \in Nat /\ Len(inputs.two[t]) \in Nat
          /\ TableInv(t)
        BY InputRows DEF ConcatInv
    <2> DEFINE n1 == Len(inputs.one[t])
               n2 == Len(inputs.two[t])
               n == Len(out[t])
    <2>2. CASE ~Copied(t)
        <3>1. out[t] = <<>> /\ remap[t] = <<>>
            BY <2>1, <2>2 DEF TableInv
        <3>2. n = 0 /\ DOMAIN remap[t] = {}
            BY <3>1, NoRowsAreRows
        <3>3. n1 \in Nat /\ n2 \in Nat
            BY <2>1
        <3> HIDE DEF n, n1, n2
        <3>4. n <= n1 + n2
            BY <3>2, <3>3
        <3> QED BY <3>2, <3>4 DEF n, n1, n2
    <2>3. CASE Copied(t)
        <3>1. PICK k \in 0..Len(inputs.two[t]) : Merged(t, k)
            BY <2>1, <2>3 DEF TableInv
        <3>2. FirstCopied(inputs.one[t], out[t], k)
            BY <3>1 DEF Merged
        <3>3. Len(out[t]) \in Nat /\ DOMAIN out[t] = 1..Len(out[t])
            BY <3>2, RowsAre DEF FirstCopied
        <3>4. n <= n1 + n2
            <4>1. n1 \in Nat /\ n2 \in Nat /\ n \in Nat /\ k \in 0..n2 /\ n <= n1 + k
                BY <2>1, <3>2, <3>3 DEF FirstCopied
            <4> HIDE DEF n, n1, n2
            <4> QED BY <4>1
        <3>5. remap[t] = <<>> \/ \E rows : MapLeads(out[t], remap[t], k, rows)
            BY <3>1, TablesAre DEF Merged, Named
        <3>6. \A i \in DOMAIN remap[t] : remap[t][i] \in DOMAIN out[t]
            BY <3>3, <3>5, NoRowsAreRows, RowsAre DEF MapLeads
        <3> QED BY <3>4, <3>6
    <2> QED BY <2>2, <2>3
<1> QED BY <1>1 DEF ConcatTypeOK, ConcatInv, CallInv

\* The output has no more rows than the inputs together, and no map leads out
\* of it, at any moment of the call.
THEOREM ConcatTypeCorrect == ConcatSpec => []ConcatTypeOK
<1>1. ConcatInv => ConcatTypeOK
    BY TypesFollow
<1> QED BY <1>1, ConcatInvariant, PTL

\* Concatenating any two MeasurementSets: each main row still says what it said,
\* but that a row of the second names the observation and the polarization that
\* its old numbers lead to; the names of the first are not added again, no name
\* of the second is lost, and the call fails only for a main row without a state.
THEOREM ConcatKeepsReferencesCorrect == ConcatSpec => []ConcatKeepsReferences
<1>1. ConcatInv => ConcatKeepsReferences
    BY MeaningKept, NamesMerged, OnlyNoStateFails DEF ConcatKeepsReferences
<1> QED BY <1>1, ConcatInvariant, PTL
=============================================================================
