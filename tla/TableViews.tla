----------------------------- MODULE TableViews -----------------------------
(***************************************************************************)
(* What looks at a Table without owning it: RefTable, TableIterator,       *)
(* ColumnsIndex and ConcatTable.  Each keeps row numbers or row counts of   *)
(* the moment it was made, and reads cells when it needs them, while the   *)
(* Table goes on changing under it (src/src/ref_table.cpp,                 *)
(* table_iterator.cpp, columns_index.cpp, concat_table.cpp).               *)
(***************************************************************************)
EXTENDS TableSession, FiniteSetsExt

CONSTANTS
    Key,        \* the key columns
    Others,     \* row counts the tables concatenated with this one may have
    NoView,     \* there is no view
    NoGroup     \* current() throws

ASSUME ViewsAssumption ==
    /\ Key \in Seq(Column) \ {<<>>}
    /\ Others \subseteq Nat

VARIABLE view   \* the view, one at a time

KeyVals == [DOMAIN Key -> Val]

ViewTypeOK ==
    \/ view = NoView
    \/ /\ view.kind = "ref"
       /\ view.rows \in Seq(Nat)
    \/ /\ view.kind = "iterator"
       /\ view.sorted \in Seq(1..MaxRows) /\ IsInjective(view.sorted)
       /\ view.start \in 0..MaxRows /\ view.end \in 0..MaxRows
       /\ view.started \in BOOLEAN /\ view.threw \in BOOLEAN
       /\ view.group = NoGroup \/ view.group \in Seq(1..MaxRows)
       /\ view.seen \in Seq(Seq(1..MaxRows))
    \/ /\ view.kind = "index"
       /\ DOMAIN view.entries \subseteq KeyVals
       /\ \A k \in DOMAIN view.entries : view.entries[k] \in Seq(1..MaxRows) \ {<<>>}
       /\ view.rows \in 0..MaxRows /\ view.built \in Rows
    \/ /\ view.kind = "concat"
       /\ view.counts \in Seq(Nat) /\ view.starts \in Seq(Nat)
       /\ view.total \in Nat

KeyOf(rows, r) == [i \in DOMAIN Key |-> rows[r][Key[i]]]

----------------------------------------------------------------------------
(* RefTable: row numbers, from a mask or one after the other.              *)

NewRefTable(mask) ==
    /\ view = NoView
    /\ view' = [kind |-> "ref", rows |-> InOrder({r \in DOMAIN mask : mask[r]})]
    /\ UNCHANGED table

RefTableAddRow(r) ==
    /\ view # NoView /\ view.kind = "ref"
    /\ Len(view.rows) < MaxRows
    /\ view' = [view EXCEPT !.rows = Append(@, r)]
    /\ UNCHANGED table

----------------------------------------------------------------------------
(* TableIterator.                                                          *)

KeyBefore(p, q) ==
    \E i \in DOMAIN Key :
        /\ \A j \in 1..(i - 1) : file[p][Key[j]] = file[q][Key[j]]
        /\ file[p][Key[i]] < file[q][Key[i]]

\* Mutant: the first key column decides.
SameFirstKey(p, q) == file[p][Key[1]] = file[q][Key[1]]

SameKey(p, q) == \A i \in DOMAIN Key : file[p][Key[i]] = file[q][Key[i]]

\* The rows the Table counts, sorted; rows of equal keys come in any order.
\* A single row is not compared, so it is not read.
NewTableIterator ==
    /\ view = NoView
    /\ nrow > 1 => \A r \in 1..nrow : Readable(r)
    /\ \E sorted \in SetToSeqs(1..nrow) :
        /\ \A i, j \in DOMAIN sorted : i < j => ~(nrow > 1 /\ KeyBefore(sorted[j], sorted[i]))
        /\ view' = [kind |-> "iterator", sorted |-> sorted, start |-> 0, end |-> 0,
                    started |-> FALSE, group |-> NoGroup,
                    seen |-> <<>>, threw |-> FALSE]
    /\ UNCHANGED table

\* Where the next group begins.

GroupStart == IF view.started THEN view.end ELSE 0

\* The group that begins at s: the rows after it with its key as the readers
\* show it now.  It ends early, with an exception, at a row they do not have.
GroupEnd(s) ==
    LET same(e) == /\ Readable(view.sorted[s + 1])
                   /\ Readable(view.sorted[e + 1])
                   /\ SameKey(view.sorted[s + 1], view.sorted[e + 1])
    IN  Max({e \in (s + 1)..Len(view.sorted) : \A i \in (s + 1)..(e - 1) : same(i)})

GroupThrows(s) ==
    LET e == GroupEnd(s)
    IN  e < Len(view.sorted) /\ ~(Readable(view.sorted[s + 1]) /\ Readable(view.sorted[e + 1]))

NextGroup ==
    /\ view # NoView /\ view.kind = "iterator"
    /\ view.sorted # <<>>
    /\ LET s == GroupStart
       IN  IF s >= Len(view.sorted) THEN
               view' = [view EXCEPT !.started = TRUE, !.start = s]
           ELSE IF GroupThrows(s) THEN
               view' = [view EXCEPT !.started = TRUE, !.start = s, !.end = GroupEnd(s),
                                    !.threw = TRUE]
           ELSE
               LET group == SubSeq(view.sorted, s + 1, GroupEnd(s))
               IN  view' = [view EXCEPT !.started = TRUE, !.start = s, !.end = GroupEnd(s),
                                        !.group = group, !.seen = Append(@, group)]
    /\ UNCHANGED table

\* reset() does not sort again.
ResetIterator ==
    /\ view # NoView /\ view.kind = "iterator"
    /\ view' = [view EXCEPT !.started = FALSE, !.start = 0, !.end = 0, !.group = NoGroup,
                            !.seen = <<>>, !.threw = FALSE]
    /\ UNCHANGED table

AtEnd == view.started /\ view.start >= Len(view.sorted)

----------------------------------------------------------------------------
(* ColumnsIndex.                                                           *)

\* The rows build() gets to before one that cannot be read.
Indexed == 1..Min({nrow, Len(file)})

NoEntries == [k \in {} |-> <<>>]

\* Mutant: the entries of the last build stay.
EntriesKept(old) ==
    LET keys == DOMAIN old \cup {KeyOf(file, r) : r \in Indexed}
    IN  [k \in keys |->
            (IF k \in DOMAIN old THEN old[k] ELSE <<>>)
                \o InOrder({r \in Indexed : KeyOf(file, r) = k})]

\* build(): the map is cleared and each row put under its key, the key read now.
Entries(old) ==
    [k \in {KeyOf(file, r) : r \in Indexed} |-> InOrder({r \in Indexed : KeyOf(file, r) = k})]

NewColumnsIndex ==
    /\ view = NoView
    /\ nrow <= Len(file)
    /\ view' = [kind |-> "index", entries |-> Entries(NoEntries), rows |-> nrow, built |-> file]
    /\ UNCHANGED table

\* rebuild(); when it throws, the rows before the one it could not read are in.
RebuildIndex ==
    /\ view # NoView /\ view.kind = "index"
    /\ view' = [view EXCEPT !.entries = Entries(view.entries),
                            !.rows = Cardinality(Indexed), !.built = file]
    /\ UNCHANGED table

\* get_row_numbers(key) and get_row_number(key).
RowNumbersOf(k) == IF k \in DOMAIN view.entries THEN view.entries[k] ELSE <<>>

OneRowOf(k) == Len(RowNumbersOf(k)) = 1

----------------------------------------------------------------------------
(* ConcatTable: this table between two others.                             *)

NewConcatTable(before, after) ==
    /\ view = NoView
    /\ view' = [kind |-> "concat", counts |-> <<before, nrow, after>>,
                starts |-> <<0, before, before + nrow>>, total |-> before + nrow + after]
    /\ UNCHANGED table

\* decompose_row, rows from 0 as in the code: the last table that starts at or
\* before the row.

DecomposeRow(row) ==
    LET t == Max({i \in DOMAIN view.starts : i = 1 \/ row >= view.starts[i]})
    IN  <<t, row - view.starts[t]>>

----------------------------------------------------------------------------
DropView ==
    /\ view # NoView
    /\ view' = NoView
    /\ UNCHANGED table

ViewNext ==
    \/ \E n \in 0..MaxRows : \E mask \in [1..n -> BOOLEAN] : NewRefTable(mask)
    \/ \E r \in 1..MaxRows : RefTableAddRow(r)
    \/ NewTableIterator
    \/ NextGroup
    \/ ResetIterator
    \/ NewColumnsIndex
    \/ RebuildIndex
    \/ \E before, after \in Others : NewConcatTable(before, after)
    \/ DropView

\* Anything else that is done to the table; the view stays, or goes with it.
TableMoves ==
    /\ file' \in Rows
    /\ mem' \in Rows
    /\ view' \in {view, NoView}

ViewSpec ==
    /\ SessionTypeOK /\ view = NoView
    /\ [][ViewNext \/ TableMoves]_<<table, view>>

----------------------------------------------------------------------------
(* Properties.                                                             *)

Iterating == view # NoView /\ view.kind = "iterator"

\* table_iterator.cpp:87-114.  Between reset and exhaustion the groups hold
\* every row the iterator was made with once, in sorted order, whatever becomes
\* of the table meanwhile, unless a next() threw.
IteratorVisitsEachRowOnce ==
    Iterating /\ ~view.threw =>
        /\ \E ends \in [0..Len(view.seen) -> 0..Len(view.sorted)] :
              /\ ends[0] = 0 /\ ends[Len(view.seen)] = view.end
              /\ \A i \in DOMAIN view.seen :
                    /\ ends[i - 1] < ends[i]
                    /\ view.seen[i] = SubSeq(view.sorted, ends[i - 1] + 1, ends[i])
        /\ AtEnd => view.end = Len(view.sorted)

\* The group that next() returns has one key, and the row after it another.
GroupHasItsKey ==
    Iterating /\ view' # NoView /\ view'.seen # view.seen /\ view'.seen # <<>> =>
        LET group == Last(view'.seen)
            key(r) == KeyOf(file, r)
        IN  /\ \A i \in 2..Len(group) : key(group[i]) = key(group[1])
            /\ view'.end < Len(view.sorted) => key(view.sorted[view'.end + 1]) # key(group[1])

\* table_iterator.cpp:77-106.  The rows of a group have one key at the moment
\* next() returns it, and the row after them has another, also when cells
\* changed after the rows were sorted.
GroupsShareTheirKey == [][GroupHasItsKey]_<<table, view>>

\* columns_index.cpp:64-136.  After a build or rebuild the index gives for each
\* key exactly the rows that had it then, in order, each row once, up to the
\* last row that could be read, whatever it held before.
IndexIsExact ==
    view # NoView /\ view.kind = "index" =>
        \A k \in KeyVals :
            LET rows == {r \in 1..view.rows : KeyOf(view.built, r) = k}
            IN  /\ Range(RowNumbersOf(k)) = rows
                /\ Len(RowNumbersOf(k)) = Cardinality(rows)
                /\ OneRowOf(k) <=> \E r \in rows : rows = {r}

\* concat_table.cpp:10-66.  The rows of a ConcatTable are those of its tables,
\* each once, also when tables among them are empty or grow later.
ConcatRowsAreTheRows ==
    view # NoView /\ view.kind = "concat" =>
        /\ {DecomposeRow(row) : row \in 0..(view.total - 1)} =
                UNION {{i} \X (0..(view.counts[i] - 1)) : i \in DOMAIN view.counts}
        /\ \A r, q \in 0..(view.total - 1) : DecomposeRow(r) = DecomposeRow(q) => r = q

\* An index and a ConcatTable lead to the rows they stand for, an iterator
\* through all rows by groups of one key.
ViewsLeadToTheRows == IndexIsExact /\ ConcatRowsAreTheRows
IteratorGroupsTheRows == []IteratorVisitsEachRowOnce /\ GroupsShareTheirKey
=============================================================================
