--------------------------- MODULE MsTools_proof ---------------------------
(***************************************************************************)
(* What holds of the tools (MsTools) for any MeasurementSet objects, any   *)
(* rows and any number of calls, and of selections (MsSelection) for any   *)
(* rows and expressions.                                                   *)
(***************************************************************************)
EXTENDS MsTools, MsSelection, FiniteSetTheorems, WellFoundedInduction, TLAPS

----------------------------------------------------------------------------
(* Induction on natural numbers, as the existence of a least one.          *)

LessThan == {ss \in Nat \X Nat : ss[1] < ss[2]}

LEMMA LessThanWellFounded == IsWellFoundedOn(LessThan, Nat)
<1>1. LessThan = OpToRel(<, Nat)
  BY Zenon DEF OpToRel, LessThan
<1>2. IsWellFoundedOn(OpToRel(<, Nat), Nat)
  BY NatLessThanWellFounded
<1> QED BY <1>1, <1>2

\* A set of natural numbers that is not empty has a least element.
LEMMA LeastNat ==
    ASSUME NEW T, T \subseteq Nat, T # {}
    PROVE  \E x \in T : \A y \in T : x <= y
<1>1. PICK x \in T : \A y \in T : ~ (<<y, x>> \in LessThan)
  BY LessThanWellFounded, WFMin
<1>2. \A y \in T : x <= y
  <2> TAKE y \in T
  <2>1. x \in Nat /\ y \in Nat
    OBVIOUS
  <2>2. y < x => <<y, x>> \in LessThan
    BY <2>1 DEF LessThan
  <2> QED BY <1>1, <2>1, <2>2
<1> QED BY <1>2

----------------------------------------------------------------------------
(* Finite sets of integers: least and greatest elements, and their order.  *)

\* A finite set of integers that is not empty has a greatest element.
LEMMA GreatestInt ==
    ASSUME NEW S \in SUBSET Int, IsFiniteSet(S), S # {}
    PROVE  \E m \in S : \A x \in S : x <= m
<1> DEFINE Lacks(U) == U # {} /\ ~ \E m \in U : \A x \in U : x <= m
           T == {n \in Nat : \E U \in SUBSET Int : IsFiniteSet(U) /\ Cardinality(U) = n /\ Lacks(U)}
<1>1. SUFFICES ASSUME Lacks(S) PROVE FALSE
  OBVIOUS
<1>2. Cardinality(S) \in T
  BY <1>1, FS_CardinalityType
<1>3. T \subseteq Nat /\ T # {}
  BY <1>2
<1>4. \A n \in T : \E U \in SUBSET Int : IsFiniteSet(U) /\ Cardinality(U) = n /\ Lacks(U)
  OBVIOUS
<1>5. \A U \in SUBSET Int : IsFiniteSet(U) /\ Lacks(U) => Cardinality(U) \in T
  BY FS_CardinalityType
<1> HIDE DEF T
<1>6. PICK n \in T : \A k \in T : n <= k
  BY <1>3, LeastNat
<1>7. PICK U \in SUBSET Int : IsFiniteSet(U) /\ Cardinality(U) = n /\ Lacks(U)
  BY <1>4
<1>8. PICK u \in U : TRUE
  BY <1>7
<1>9. IsFiniteSet(U \ {u}) /\ Cardinality(U \ {u}) = n - 1
  BY <1>7, <1>8, FS_RemoveElement
<1>10. n \in Nat
  BY <1>3
<1>11. ~ Lacks(U \ {u})
  <2>1. ~ (n - 1 \in T)
    BY <1>6, <1>10
  <2>2. U \ {u} \in SUBSET Int
    OBVIOUS
  <2> QED BY <1>5, <1>9, <2>1, <2>2
<1>12. CASE U \ {u} = {}
  <2>1. \A x \in U : x <= u
    BY <1>12
  <2> QED BY <1>7, <1>8, <2>1
<1>13. CASE U \ {u} # {}
  <2>1. PICK m \in U \ {u} : \A x \in U \ {u} : x <= m
    BY <1>11, <1>13
  <2>2. m \in Int /\ u \in Int
    OBVIOUS
  <2>3. CASE u <= m
    <3>1. \A x \in U : x <= m
      BY <2>1, <2>3
    <3> QED BY <1>7, <3>1
  <2>4. CASE m <= u
    <3>1. \A x \in U : x <= u
      <4> TAKE x \in U
      <4>1. x = u \/ x <= m
        BY <2>1
      <4> QED BY <2>2, <2>4, <4>1
    <3> QED BY <1>7, <1>8, <3>1
  <2> QED BY <2>2, <2>3, <2>4
<1> QED BY <1>12, <1>13

\* ... and a least one.
LEMMA LeastInt ==
    ASSUME NEW S \in SUBSET Int, IsFiniteSet(S), S # {}
    PROVE  \E m \in S : \A x \in S : m <= x
<1> DEFINE N == {0 - x : x \in S}
<1>1. IsFiniteSet(N)
  <2>1. [x \in S |-> 0 - x] \in Surjection(S, N)
    BY DEF Surjection
  <2> QED BY <2>1, FS_Surjection
<1>2. N \in SUBSET Int /\ N # {}
  <2>1. \A x \in S : 0 - x \in Int
    OBVIOUS
  <2>2. N \in SUBSET Int
    BY <2>1, Zenon
  <2>3. N # {}
    BY Zenon
  <2> QED BY <2>2, <2>3
<1>3. PICK m \in N : \A x \in N : x <= m
  BY <1>1, <1>2, GreatestInt
<1>4. PICK k \in S : m = 0 - k
  OBVIOUS
<1>5. \A x \in S : k <= x
  <2> TAKE x \in S
  <2>1. 0 - x \in N
    OBVIOUS
  <2> QED BY <1>3, <1>4, <2>1
<1> QED BY <1>5

IsInOrder(s) == \A i, j \in DOMAIN s : i < j => s[i] < s[j]

\* A finite set of integers can be enumerated in ascending order.
LEMMA OrderExists ==
    ASSUME NEW S \in SUBSET Int, IsFiniteSet(S)
    PROVE  \E s \in SetToSeqs(S) : IsInOrder(s)
<1> DEFINE Lacks(U) == ~ \E s \in SetToSeqs(U) : IsInOrder(s)
           T == {n \in Nat : \E U \in SUBSET Int : IsFiniteSet(U) /\ Cardinality(U) = n /\ Lacks(U)}
<1>1. SUFFICES ASSUME Lacks(S) PROVE FALSE
  OBVIOUS
<1>2. Cardinality(S) \in T
  BY <1>1, FS_CardinalityType
<1>3. T \subseteq Nat /\ T # {}
  BY <1>2
<1>4. \A n \in T : \E U \in SUBSET Int : IsFiniteSet(U) /\ Cardinality(U) = n /\ Lacks(U)
  OBVIOUS
<1>5. \A U \in SUBSET Int : IsFiniteSet(U) /\ Lacks(U) => Cardinality(U) \in T
  BY FS_CardinalityType
<1> HIDE DEF T
<1>6. PICK n \in T : \A k \in T : n <= k
  BY <1>3, LeastNat
<1>7. PICK U \in SUBSET Int : IsFiniteSet(U) /\ Cardinality(U) = n /\ Lacks(U)
  BY <1>4
<1>8. n \in Nat
  BY <1>3
<1>9. CASE U = {}
  <2>1. n = 0
    BY <1>7, <1>9, FS_EmptySet
  <2>2. <<>> \in [1..0 -> {}] /\ IsInOrder(<<>>) /\ DOMAIN <<>> = {}
    BY DEF IsInOrder
  <2>3. \A f \in [1..0 -> {}] : f \in SetToSeqs({})
    BY <1>7, <1>9, <2>1 DEF SetToSeqs
  <2> QED BY <1>7, <1>9, <2>2, <2>3
<1>10. CASE U # {}
  <2>1. PICK m \in U : \A x \in U : x <= m
    BY <1>7, <1>10, GreatestInt
  <2>2. IsFiniteSet(U \ {m}) /\ Cardinality(U \ {m}) = n - 1
    BY <1>7, <2>1, FS_RemoveElement
  <2>3. n - 1 \in Nat
    BY <2>2, FS_CardinalityType
  <2>4. ~ Lacks(U \ {m})
    <3>1. ~ (n - 1 \in T)
      BY <1>6, <1>8
    <3>2. U \ {m} \in SUBSET Int
      OBVIOUS
    <3> QED BY <1>5, <2>2, <3>1, <3>2
  <2>5. PICK s \in SetToSeqs(U \ {m}) : IsInOrder(s)
    BY <2>4
  <2>6. /\ s \in [1..(n - 1) -> U \ {m}]
        /\ \A i, j \in 1..(n - 1) : i < j => s[i] < s[j]
    BY <2>2, <2>5 DEF SetToSeqs, IsInOrder
  <2> DEFINE t == [i \in 1..n |-> IF i = n THEN m ELSE s[i]]
  <2>7. \A i \in 1..n : i = n \/ i \in 1..(n - 1)
    BY <1>8
  <2>8. t \in [1..n -> U]
    BY <2>1, <2>6, <2>7
  <2>9. \A i, j \in 1..n : i < j => t[i] < t[j]
    <3> SUFFICES ASSUME NEW i \in 1..n, NEW j \in 1..n, i < j PROVE t[i] < t[j]
      OBVIOUS
    <3>1. i \in 1..(n - 1) /\ t[i] = s[i] /\ s[i] \in U /\ s[i] # m
      BY <1>8, <2>6
    <3>2. CASE j = n
      <4>1. t[j] = m
        BY <3>2
      <4>2. m \in Int /\ s[i] \in Int /\ s[i] <= m
        BY <2>1, <3>1
      <4> QED BY <3>1, <4>1, <4>2
    <3>3. CASE j # n
      BY <2>6, <2>7, <3>1, <3>3
    <3> QED BY <3>2, <3>3
  <2>10. \A i, j \in 1..n : i # j => t[i] # t[j]
    <3> SUFFICES ASSUME NEW i \in 1..n, NEW j \in 1..n, i # j PROVE t[i] # t[j]
      OBVIOUS
    <3>1. t[i] \in Int /\ t[j] \in Int
      BY <2>8
    <3> HIDE DEF t
    <3>2. i < j \/ j < i
      OBVIOUS
    <3> QED BY <2>9, <3>1, <3>2
  <2>11. t \in SetToSeqs(U)
    BY <1>7, <2>8, <2>10 DEF SetToSeqs
  <2>12. IsInOrder(t)
    BY <2>8, <2>9 DEF IsInOrder
  <2> QED BY <1>7, <2>11, <2>12
<1> QED BY <1>9, <1>10

\* The order in which a map is walked has each key once, and ascends.
LEMMA InOrderEnumerates ==
    ASSUME NEW S \in SUBSET Int, IsFiniteSet(S)
    PROVE  /\ InOrder(S) \in [1..Cardinality(S) -> S]
           /\ \A i, j \in 1..Cardinality(S) : i < j => InOrder(S)[i] < InOrder(S)[j]
           /\ \A x \in S : \E i \in 1..Cardinality(S) : InOrder(S)[i] = x
           /\ Range(InOrder(S)) = S
<1> DEFINE n == Cardinality(S)
           s == InOrder(S)
<1>1. n \in Nat
  BY FS_CardinalityType
<1>2. s \in SetToSeqs(S) /\ IsInOrder(s)
  BY OrderExists DEF InOrder, IsInOrder
<1>3. s \in [1..n -> S] /\ \A i, j \in 1..n : i # j => s[i] # s[j]
  BY <1>2 DEF SetToSeqs
<1>4. \A i, j \in 1..n : i < j => s[i] < s[j]
  BY <1>2, <1>3 DEF IsInOrder
<1>5. s \in Injection(1..n, S)
  BY <1>3 DEF Injection, IsInjective
<1>6. IsFiniteSet(1..n) /\ Cardinality(1..n) = n
  BY <1>1, FS_Interval
<1>7. s \in Surjection(1..n, S)
  BY <1>5, <1>6, FS_Injection
<1>8. \A x \in S : \E i \in 1..n : s[i] = x
  BY <1>7 DEF Surjection
<1>9. Range(s) = S
  BY <1>3, <1>8 DEF Range
<1> QED BY <1>3, <1>4, <1>8, <1>9

----------------------------------------------------------------------------
(* Groups of rows.                                                         *)

\* Grouping by integer keys: each group has the rows of its key, and the keys
\* ascend.
LEMMA GroupsAreOfTheirKeys ==
    ASSUME NEW n \in Nat, NEW keyOf \in [1..n -> Int]
    PROVE  \E K \in Nat :
            LET c == GroupRows(keyOf)
            IN  /\ DOMAIN c = 1..K
                /\ \A k \in 1..K : /\ c[k].key \in Int
                                   /\ Range(c[k].rows) = {i \in 1..n : keyOf[i] = c[k].key}
                /\ \A k, l \in 1..K : l < k => c[l].key < c[k].key
                /\ \A i \in 1..n : \E k \in 1..K : c[k].key = keyOf[i]
<1> DEFINE S == Range(keyOf)
           keys == InOrder(S)
           K == Cardinality(S)
           Of(k) == {i \in 1..n : keyOf[i] = keys[k]}
<1>1. S \in SUBSET Int /\ IsFiniteSet(S)
  <2>1. keyOf \in Surjection(1..n, S)
    BY DEF Surjection, Range
  <2>2. IsFiniteSet(1..n)
    BY FS_Interval
  <2> QED BY <2>1, <2>2, FS_Surjection DEF Range
<1>2. /\ keys \in [1..K -> S]
      /\ \A i, j \in 1..K : i < j => keys[i] < keys[j]
      /\ \A x \in S : \E i \in 1..K : keys[i] = x
  BY <1>1, InOrderEnumerates
<1>3. K \in Nat
  BY <1>1, FS_CardinalityType
<1>4. GroupRows(keyOf) = [k \in 1..K |-> [key |-> keys[k], rows |-> InOrder(Of(k))]]
  <2>1. DOMAIN keyOf = 1..n /\ DOMAIN keys = 1..K
    BY <1>2
  <2> QED BY <2>1 DEF GroupRows
<1>5. \A k \in 1..K : Range(InOrder(Of(k))) = Of(k)
  <2> TAKE k \in 1..K
  <2>1. Of(k) \in SUBSET Int /\ Of(k) \in SUBSET (1..n)
    OBVIOUS
  <2>2. IsFiniteSet(Of(k))
    BY <2>1, FS_Interval, FS_Subset
  <2> HIDE DEF Of
  <2> QED BY <2>1, <2>2, InOrderEnumerates
<1>6. \A i \in 1..n : keyOf[i] \in S
  BY DEF Range
<1>7. \A k \in 1..K : keys[k] \in Int
  BY <1>1, <1>2
<1> DEFINE c == GroupRows(keyOf)
<1>8. /\ DOMAIN c = 1..K
      /\ \A k \in 1..K : c[k].key = keys[k] /\ c[k].rows = InOrder(Of(k))
  BY <1>4
<1>9. \A k \in 1..K : Range(c[k].rows) = {i \in 1..n : keyOf[i] = c[k].key}
  BY <1>5, <1>8
<1> HIDE DEF c, S, keys, K
<1>10. /\ \A k, l \in 1..K : l < k => c[l].key < c[k].key
       /\ \A i \in 1..n : \E k \in 1..K : c[k].key = keyOf[i]
  BY <1>2, <1>6, <1>8
<1>11. \A k \in 1..K : c[k].key \in Int
  BY <1>7, <1>8
<1> WITNESS K \in Nat
<1> QED BY <1>8, <1>9, <1>10, <1>11 DEF c

\* So each row is in one group.
LEMMA GroupsPartition ==
    ASSUME NEW n \in Nat, NEW keyOf \in [1..n -> Int]
    PROVE  LET c == GroupRows(keyOf)
           IN  /\ \A i \in 1..n : Cardinality({k \in DOMAIN c : i \in Range(c[k].rows)}) = 1
               /\ \A k \in DOMAIN c : \A l \in 1..(k - 1) : c[l].key < c[k].key
               /\ \A k \in DOMAIN c : \A i \in Range(c[k].rows) :
                    i \in 1..n /\ keyOf[i] = c[k].key
<1> DEFINE c == GroupRows(keyOf)
<1>1. PICK K \in Nat :
        /\ DOMAIN c = 1..K
        /\ \A k \in 1..K : /\ c[k].key \in Int
                           /\ Range(c[k].rows) = {i \in 1..n : keyOf[i] = c[k].key}
        /\ \A k, l \in 1..K : l < k => c[l].key < c[k].key
        /\ \A i \in 1..n : \E k \in 1..K : c[k].key = keyOf[i]
  BY GroupsAreOfTheirKeys
<1> HIDE DEF c
<1>2. ASSUME NEW i \in 1..n
      PROVE  Cardinality({k \in DOMAIN c : i \in Range(c[k].rows)}) = 1
  <2>1. PICK k \in 1..K : c[k].key = keyOf[i]
    BY <1>1
  <2>2. \A l \in 1..K : i \in Range(c[l].rows) => l = k
    <3> SUFFICES ASSUME NEW l \in 1..K, i \in Range(c[l].rows), l # k PROVE FALSE
      OBVIOUS
    <3>1. c[l].key = c[k].key /\ c[k].key \in Int
      BY <1>1, <2>1
    <3>2. l < k \/ k < l
      OBVIOUS
    <3> QED BY <1>1, <3>1, <3>2
  <2>3. i \in Range(c[k].rows)
    BY <1>1, <2>1
  <2>4. {l \in DOMAIN c : i \in Range(c[l].rows)} = {k}
    BY <1>1, <2>2, <2>3
  <2> QED BY <2>4, FS_Singleton
<1>3. \A k \in DOMAIN c : \A l \in 1..(k - 1) : c[l].key < c[k].key
  <2> SUFFICES ASSUME NEW k \in 1..K, NEW l \in 1..(k - 1) PROVE c[l].key < c[k].key
    BY <1>1
  <2>1. l \in 1..K /\ l < k
    OBVIOUS
  <2> QED BY <1>1, <2>1
<1>4. \A k \in DOMAIN c : \A i \in Range(c[k].rows) : i \in 1..n /\ keyOf[i] = c[k].key
  BY <1>1
<1> QED BY <1>2, <1>3, <1>4 DEF c

LEMMA Quotient ==
    ASSUME NEW a \in Nat, NEW w \in Nat \ {0}
    PROVE  /\ a \div w \in Nat /\ a % w \in 0..(w - 1)
           /\ a = (a \div w) * w + (a % w)
OBVIOUS

\* Two times in one bin are less than a bin apart.
LEMMA InOneBin ==
    ASSUME NEW a \in Nat, NEW b \in Nat, NEW w \in Nat \ {0}, a \div w = b \div w
    PROVE  a - b < w
<1>1. /\ a \div w \in Nat
      /\ a % w \in 0..(w - 1) /\ a = (a \div w) * w + (a % w)
      /\ b % w \in 0..(w - 1) /\ b = (b \div w) * w + (b % w)
  BY Quotient
<1>2. PICK q \in Nat, r \in 0..(w - 1), t \in 0..(w - 1) : a = q * w + r /\ b = q * w + t
  BY <1>1
<1>3. q * w \in Int
  OBVIOUS
<1> QED BY <1>2, <1>3

----------------------------------------------------------------------------
(* The inductive invariant.                                                *)

ToolRow == [key : Int, time : Int, flag : BOOLEAN]
ReaderOf(Row) == [read : BOOLEAN, rows : Seq(Row)]
AntennaHandle == [open : BOOLEAN, nrow : Nat, reader : ReaderOf(STRING)]
ToolHandle == [open : BOOLEAN, nrow : Nat, reader : ReaderOf(ToolRow),
               antenna : AntennaHandle, meta : [names : Seq(STRING), loaded : BOOLEAN]]

\* What the main table can be: the first rows of the filler, with some flags.
IsMain(m) ==
    /\ m \in Seq(ToolRow)
    /\ Len(m) <= Len(Rows)
    /\ \A i \in 1..Len(m) : m[i].key = Rows[i].key /\ m[i].time = Rows[i].time

\* The tables on disk hold what was flushed; between the two steps of a flush
\* ANTENNA is gone.
DiskInv ==
    /\ filled \in (0..Len(Rows)) \X (0..Len(Antennas))
    /\ main \in past /\ Len(main) <= filled[1]
    /\ \A m \in past : IsMain(m)
    /\ antenna.there \in BOOLEAN
    /\ antenna = [there |-> antenna.there,
                  rows |-> IF antenna.there THEN SubSeq(Antennas, 1, filled[2]) ELSE <<>>]

\* A handle knows no more rows than there are; what it has read of the main
\* table is all of it at one moment after it was opened, and what it has read of
\* ANTENNA is nothing or all of it.
KnowsMain(o) ==
    /\ o.nrow <= Len(main)
    /\ o.reader.read => o.reader.rows \in past /\ o.nrow <= Len(o.reader.rows)

KnowsAntenna(o) ==
    /\ o.antenna.nrow <= filled[2]
    /\ o.antenna.reader.rows # <<>> =>
        \E n \in o.antenna.nrow..Len(Antennas) : o.antenna.reader.rows = SubSeq(Antennas, 1, n)
    /\ o.meta.names = IF o.meta.loaded THEN SubSeq(Antennas, 1, o.antenna.nrow) ELSE <<>>
    /\ ~o.antenna.open => o.antenna = Unopened /\ ~o.meta.loaded

HandlesInv ==
    /\ handle \in [Handles -> ToolHandle]
    /\ \A h \in Handles : KnowsMain(handle[h]) /\ KnowsAntenna(handle[h])

RestInv ==
    /\ history \in Seq(Entries)
    /\ entries \in [Handles -> Seq(Entries)]
    /\ calls \in 0..MaxCalls

ToolsInv == DiskInv /\ HandlesInv /\ RestInv /\ StatsShowOneMoment /\ ChunksPartition

LEMMA FillerRows ==
    /\ Rows \in Seq(ToolRow) /\ Len(Rows) \in Nat
    /\ Antennas \in Seq(STRING) /\ Len(Antennas) \in Nat
    /\ \A n \in 0..Len(Rows) : IsMain(SubSeq(Rows, 1, n)) /\ Len(SubSeq(Rows, 1, n)) = n
    /\ \A n \in 0..Len(Antennas) :
        SubSeq(Antennas, 1, n) \in Seq(STRING) /\ Len(SubSeq(Antennas, 1, n)) = n
<1>1. Rows \in Seq(ToolRow) /\ Antennas \in Seq(STRING)
  BY MsToolsAssumption DEF ToolRow
<1>2. Len(Rows) \in Nat /\ Len(Antennas) \in Nat
  BY <1>1
<1>3. ASSUME NEW n \in 0..Len(Rows)
      PROVE  IsMain(SubSeq(Rows, 1, n)) /\ Len(SubSeq(Rows, 1, n)) = n
  <2>1. /\ SubSeq(Rows, 1, n) \in Seq(ToolRow)
        /\ Len(SubSeq(Rows, 1, n)) = n
        /\ \A i \in 1..n : SubSeq(Rows, 1, n)[i] = Rows[i]
    BY <1>1, <1>2
  <2> QED BY <1>2, <2>1 DEF IsMain
<1>4. ASSUME NEW n \in 0..Len(Antennas)
      PROVE  SubSeq(Antennas, 1, n) \in Seq(STRING) /\ Len(SubSeq(Antennas, 1, n)) = n
  BY <1>1, <1>2
<1> QED BY <1>1, <1>2, <1>3, <1>4

\* A handle that has read nothing.
LEMMA FreshHandles ==
    /\ \A n \in Nat : Fresh(n) \in ToolHandle /\ Fresh(n).nrow = n /\ ~Fresh(n).reader.read
                       /\ Fresh(n).antenna = Unopened /\ Fresh(n).meta = NoMeta
    /\ NotOpen \in ToolHandle /\ NotOpen.nrow = 0 /\ ~NotOpen.reader.read
    /\ NotOpen.antenna = Unopened /\ NotOpen.meta = NoMeta
<1>1. /\ Unread \in ReaderOf(ToolRow) /\ Unread \in ReaderOf(STRING)
      /\ NoMeta \in [names : Seq(STRING), loaded : BOOLEAN]
  BY DEF ReaderOf, Unread, NoMeta
<1>2. Unopened \in AntennaHandle
  BY <1>1 DEF Unopened, AntennaHandle
<1>3. ~Unread.read
  BY DEF Unread
<1> QED BY <1>1, <1>2, <1>3 DEF Fresh, NotOpen, ToolHandle

LEMMA FreshKnows ==
    ASSUME NEW o, o.nrow <= Len(main), ~o.reader.read, o.antenna = Unopened, o.meta = NoMeta,
           0 <= filled[2]
    PROVE  KnowsMain(o) /\ KnowsAntenna(o)
<1>1. KnowsMain(o)
  BY DEF KnowsMain
<1>2. KnowsAntenna(o)
  BY DEF KnowsAntenna, Unopened, Unread, NoMeta
<1> QED BY <1>1, <1>2

LEMMA ToolsInitInv == ToolsInit => ToolsInv
<1> SUFFICES ASSUME ToolsInit PROVE ToolsInv
  OBVIOUS
<1>1. main = <<>> /\ past = {<<>>} /\ filled = <<0, 0>> /\ antenna = [there |-> TRUE, rows |-> <<>>]
  BY DEF ToolsInit
<1>2. SubSeq(Antennas, 1, 0) = <<>> /\ IsMain(<<>>)
  BY FillerRows DEF IsMain
<1>3. DiskInv
  <2>1. filled \in (0..Len(Rows)) \X (0..Len(Antennas)) /\ filled[1] = 0 /\ filled[2] = 0
    BY <1>1, FillerRows
  <2>2. main \in past /\ Len(main) <= filled[1] /\ \A m \in past : IsMain(m)
    BY <1>1, <1>2, <2>1
  <2>3. antenna.there = TRUE /\ antenna = [there |-> TRUE, rows |-> SubSeq(Antennas, 1, filled[2])]
    BY <1>1, <1>2, <2>1
  <2> QED BY <2>1, <2>2, <2>3 DEF DiskInv
<1>4. Fresh(0) \in ToolHandle /\ NotOpen \in ToolHandle
  BY FreshHandles
<1>5. \A o \in {Fresh(0), NotOpen} : KnowsMain(o) /\ KnowsAntenna(o)
  <2>1. 0 <= Len(main) /\ 0 <= filled[2]
    BY <1>1
  <2> QED BY <2>1, FreshHandles, FreshKnows
<1>6. HandlesInv
  BY <1>4, <1>5 DEF ToolsInit, HandlesInv
<1>7. RestInv
  BY MsToolsAssumption DEF ToolsInit, RestInv
<1>8. StatsShowOneMoment /\ ChunksPartition
  BY DEF ToolsInit, NoAnswer, StatsShowOneMoment, ChunksPartition
<1> QED BY <1>3, <1>6, <1>7, <1>8 DEF ToolsInv

\* The properties of an answer stay true while the answer stays, for no moment
\* of the main table is forgotten.
LEMMA AnswersStay ==
    ASSUME StatsShowOneMoment, ChunksPartition, past \subseteq past',
           answer' = answer \/ answer' = NoAnswer
    PROVE  StatsShowOneMoment' /\ ChunksPartition'
<1>1. CASE answer' = NoAnswer
  BY <1>1 DEF StatsShowOneMoment, ChunksPartition, NoAnswer
<1>2. CASE answer' = answer
  <2>1. StatsShowOneMoment'
    BY <1>2 DEF StatsShowOneMoment
  <2>2. ChunksPartition'
    BY <1>2 DEF ChunksPartition
  <2> QED BY <2>1, <2>2
<1> QED BY <1>1, <1>2

----------------------------------------------------------------------------
(* The filler.                                                             *)

LEMMA WriterFlushBeginInv == ToolsInv /\ WriterFlushBegin => ToolsInv'
<1> SUFFICES ASSUME ToolsInv, WriterFlushBegin PROVE ToolsInv'
  OBVIOUS
<1> USE DEF ToolsInv
<1>1. PICK n \in 1..Len(Rows), a \in 1..Len(Antennas) :
        n >= filled[1] /\ a >= filled[2] /\ filled' = <<n, a>>
  BY DEF WriterFlushBegin
<1>2. /\ antenna' = [there |-> FALSE, rows |-> <<>>]
      /\ UNCHANGED <<main, history, handle, entries, answer, calls, past>>
  BY DEF WriterFlushBegin
<1>3. Len(Rows) \in Nat /\ Len(Antennas) \in Nat
  BY FillerRows
<1>4. filled[1] \in 0..Len(Rows) /\ filled[2] \in 0..Len(Antennas)
      /\ filled'[1] = n /\ filled'[2] = a /\ Len(main) \in Nat
  BY <1>1 DEF DiskInv, IsMain
<1>5. DiskInv'
  BY <1>1, <1>2, <1>3, <1>4 DEF DiskInv, IsMain
<1>6. HandlesInv'
  <2>1. ASSUME NEW h \in Handles PROVE (KnowsMain(handle[h]) /\ KnowsAntenna(handle[h]))'
    <3>1. KnowsMain(handle[h]) /\ KnowsAntenna(handle[h])
          /\ handle[h].antenna.nrow \in Nat /\ handle'[h] = handle[h]
      BY <1>2 DEF HandlesInv, ToolHandle, AntennaHandle
    <3>2. KnowsMain(handle[h])'
      BY <1>2, <3>1 DEF KnowsMain
    <3>3. handle'[h].antenna.nrow <= filled'[2]
      BY <1>1, <1>3, <1>4, <3>1 DEF KnowsAntenna
    <3>4. KnowsAntenna(handle[h])'
      BY <1>2, <3>1, <3>3 DEF KnowsAntenna
    <3> QED BY <3>2, <3>4
  <2> QED BY <1>2, <2>1 DEF HandlesInv
<1>7. RestInv'
  BY <1>2 DEF RestInv
<1>8. StatsShowOneMoment' /\ ChunksPartition'
  BY <1>2, AnswersStay
<1> QED BY <1>5, <1>6, <1>7, <1>8

LEMMA WriterFlushEndInv == ToolsInv /\ WriterFlushEnd => ToolsInv'
<1> SUFFICES ASSUME ToolsInv, WriterFlushEnd PROVE ToolsInv'
  OBVIOUS
<1> USE DEF ToolsInv
<1>1. /\ antenna' = [there |-> TRUE, rows |-> SubSeq(Antennas, 1, filled[2])]
      /\ main' = SubSeq(Rows, 1, filled[1])
      /\ past' = past \cup {main'}
      /\ UNCHANGED <<history, filled, handle, entries, answer, calls>>
  BY DEF WriterFlushEnd
<1>2. filled[1] \in 0..Len(Rows) /\ Len(main) <= filled[1] /\ Len(main) \in Nat
      /\ Len(Rows) \in Nat
  BY FillerRows DEF DiskInv, IsMain
<1>3. IsMain(main') /\ Len(main') = filled[1]
  BY <1>1, <1>2, FillerRows
<1>4. \A m \in past' : IsMain(m)
  BY <1>1, <1>3 DEF DiskInv
<1>5. DiskInv'
  <2>1. main' \in past' /\ Len(main') <= filled'[1]
    BY <1>1, <1>2, <1>3
  <2>2. filled' \in (0..Len(Rows)) \X (0..Len(Antennas))
    BY <1>1 DEF DiskInv
  <2> QED BY <1>1, <1>4, <2>1, <2>2 DEF DiskInv
<1>6. HandlesInv'
  <2>1. ASSUME NEW h \in Handles PROVE (KnowsMain(handle[h]) /\ KnowsAntenna(handle[h]))'
    <3>1. KnowsMain(handle[h]) /\ KnowsAntenna(handle[h])
          /\ handle[h].nrow \in Nat /\ handle'[h] = handle[h]
      BY <1>1 DEF HandlesInv, ToolHandle
    <3>2. KnowsMain(handle[h])'
      BY <1>1, <1>2, <1>3, <3>1 DEF KnowsMain
    <3>3. KnowsAntenna(handle[h])'
      BY <1>1, <3>1 DEF KnowsAntenna
    <3> QED BY <3>2, <3>3
  <2> QED BY <1>1, <2>1 DEF HandlesInv
<1>7. RestInv'
  BY <1>1 DEF RestInv
<1>8. StatsShowOneMoment' /\ ChunksPartition'
  BY <1>1, AnswersStay
<1> QED BY <1>5, <1>6, <1>7, <1>8

----------------------------------------------------------------------------
(* Opening, closing and queries.                                           *)

\* What holds when one handle becomes another that knows as much of the disk.
LEMMA HandleChanges ==
    ASSUME ToolsInv, NEW h \in Handles, NEW o \in ToolHandle, KnowsMain(o), KnowsAntenna(o),
           handle' = [handle EXCEPT ![h] = o],
           UNCHANGED <<main, antenna, filled, past>>
    PROVE  DiskInv' /\ HandlesInv'
<1>1. DiskInv'
  BY DEF ToolsInv, DiskInv
<1>2. handle \in [Handles -> ToolHandle] /\ \A k \in Handles : KnowsMain(handle[k]) /\ KnowsAntenna(handle[k])
  BY DEF ToolsInv, HandlesInv
<1>3. handle' \in [Handles -> ToolHandle] /\ \A k \in Handles : handle'[k] = handle[k] \/ handle'[k] = o
  BY <1>2
<1>4. \A k \in Handles : KnowsMain(handle'[k]) /\ KnowsAntenna(handle'[k])
  BY <1>2, <1>3
<1>5. HandlesInv'
  BY <1>3, <1>4 DEF HandlesInv, KnowsMain, KnowsAntenna
<1> QED BY <1>1, <1>5

LEMMA OpenHandleInv == \A h \in Handles : ToolsInv /\ OpenHandle(h) => ToolsInv'
<1> SUFFICES ASSUME NEW h \in Handles, ToolsInv, OpenHandle(h) PROVE ToolsInv'
  OBVIOUS
<1>1. Len(main) \in Nat /\ 0 <= filled[2]
  BY DEF ToolsInv, DiskInv, IsMain
<1>2. Fresh(Len(main)) \in ToolHandle /\ KnowsMain(Fresh(Len(main))) /\ KnowsAntenna(Fresh(Len(main)))
  BY <1>1, FreshHandles, FreshKnows
<1>3. DiskInv' /\ HandlesInv'
  BY <1>2, HandleChanges DEF OpenHandle
<1>4. RestInv'
  BY DEF ToolsInv, OpenHandle, RestInv
<1>5. StatsShowOneMoment' /\ ChunksPartition'
  BY AnswersStay DEF ToolsInv, OpenHandle
<1> QED BY <1>3, <1>4, <1>5 DEF ToolsInv

LEMMA CloseHandleInv == \A h \in Handles : ToolsInv /\ CloseHandle(h) => ToolsInv'
<1> SUFFICES ASSUME NEW h \in Handles, ToolsInv, CloseHandle(h) PROVE ToolsInv'
  OBVIOUS
<1>1. 0 <= Len(main) /\ 0 <= filled[2]
  BY DEF ToolsInv, DiskInv, IsMain
<1>2. NotOpen \in ToolHandle /\ KnowsMain(NotOpen) /\ KnowsAntenna(NotOpen)
  BY <1>1, FreshHandles, FreshKnows
<1>3. DiskInv' /\ HandlesInv'
  BY <1>2, HandleChanges DEF CloseHandle
<1>4. RestInv'
  BY DEF ToolsInv, CloseHandle, RestInv
<1>5. StatsShowOneMoment' /\ ChunksPartition'
  BY AnswersStay DEF ToolsInv, CloseHandle
<1> QED BY <1>3, <1>4, <1>5 DEF ToolsInv

\* The rows a query reads are the first ones of the main table at one moment.
LEMMA QueryReads ==
    ASSUME ToolsInv, NEW h \in Handles, handle[h].nrow # 0
    PROVE  /\ ReadMain(h) \in ReaderOf(ToolRow)
           /\ ReadMain(h).read
           /\ ReadMain(h).rows \in past
           /\ handle[h].nrow \in Nat /\ handle[h].nrow <= Len(ReadMain(h).rows)
           /\ IsMain(Seen(h)) /\ Len(Seen(h)) = handle[h].nrow
<1> DEFINE o == handle[h]
           rows == ReadMain(h).rows
           n == o.nrow
<1>1. o \in ToolHandle /\ KnowsMain(o)
  BY DEF ToolsInv, HandlesInv
<1>2. main \in past /\ main \in Seq(ToolRow) /\ \A m \in past : IsMain(m)
  BY DEF ToolsInv, DiskInv, IsMain
<1>3. /\ ReadMain(h) \in ReaderOf(ToolRow) /\ ReadMain(h).read
      /\ rows \in past /\ n <= Len(rows)
  <2>1. CASE o.reader.read
    BY <1>1, <2>1 DEF ReadMain, ToolHandle, KnowsMain
  <2>2. CASE ~o.reader.read
    BY <1>1, <1>2, <2>2 DEF ReadMain, ReaderOf, KnowsMain
  <2> QED BY <2>1, <2>2
<1>4. n \in Nat
  BY <1>1 DEF ToolHandle
<1>5. IsMain(rows)
  BY <1>2, <1>3
<1>6. Seen(h) = SubSeq(rows, 1, n)
  BY DEF Seen
<1> HIDE DEF rows, n
<1>7. rows \in Seq(ToolRow) /\ Len(rows) \in Nat /\ Len(rows) <= Len(Rows) /\ Len(Rows) \in Nat
  BY <1>5, FillerRows DEF IsMain
<1>8. /\ Seen(h) \in Seq(ToolRow) /\ Len(Seen(h)) = n
      /\ \A i \in 1..n : Seen(h)[i] = rows[i]
  BY <1>3, <1>4, <1>6, <1>7
<1>9. IsMain(Seen(h))
  BY <1>3, <1>4, <1>5, <1>7, <1>8 DEF IsMain
<1> QED BY <1>3, <1>4, <1>8, <1>9 DEF rows, n

LEMMA QueryInv ==
    ASSUME ToolsInv, NEW h \in Handles, NEW what, Query(h, what)
    PROVE  DiskInv' /\ HandlesInv' /\ RestInv'
<1> DEFINE o == handle[h]
           p == [o EXCEPT !.reader = ReadMain(h)]
<1>1. o \in ToolHandle /\ KnowsMain(o) /\ KnowsAntenna(o) /\ handle \in [Handles -> ToolHandle]
  BY DEF ToolsInv, HandlesInv
<1>2. UNCHANGED <<main, antenna, filled, past, history, entries>> /\ calls' = calls + 1 /\ calls < MaxCalls
  BY DEF Query, Call
<1>3. RestInv'
  BY <1>2, MsToolsAssumption DEF ToolsInv, RestInv
<1>4. CASE o.nrow = 0
  <2>1. handle' = [handle EXCEPT ![h] = o]
    BY <1>1, <1>4 DEF Query
  <2>2. DiskInv' /\ HandlesInv'
    BY <1>1, <1>2, <2>1, HandleChanges
  <2> QED BY <1>3, <2>2
<1>5. CASE o.nrow # 0
  <2>1. handle' = [handle EXCEPT ![h] = p]
    BY <1>1, <1>5 DEF Query
  <2>2. /\ ReadMain(h) \in ReaderOf(ToolRow) /\ ReadMain(h).rows \in past
        /\ o.nrow <= Len(ReadMain(h).rows)
    BY <1>5, QueryReads
  <2>3. p \in ToolHandle /\ p.reader = ReadMain(h) /\ p.nrow = o.nrow /\ p.antenna = o.antenna /\ p.meta = o.meta
    BY <1>1, <2>2 DEF ToolHandle
  <2> HIDE DEF p
  <2>4. KnowsMain(p) /\ KnowsAntenna(p)
    BY <1>1, <2>2, <2>3 DEF KnowsMain, KnowsAntenna
  <2>5. DiskInv' /\ HandlesInv'
    BY <1>2, <2>1, <2>3, <2>4, HandleChanges
  <2> QED BY <1>3, <2>5
<1> QED BY <1>4, <1>5

LEMMA FlagStatsInv == \A h \in Handles : ToolsInv /\ FlagStats(h) => ToolsInv'
<1> SUFFICES ASSUME NEW h \in Handles, ToolsInv, FlagStats(h) PROVE ToolsInv'
  OBVIOUS
<1> DEFINE n == handle[h].nrow
<1>1. DiskInv' /\ HandlesInv' /\ RestInv'
  BY QueryInv DEF FlagStats
<1>2. /\ answer'.to = "stats" /\ answer'.total = n
      /\ answer'.flagged = IF n = 0 THEN 0 ELSE Cardinality(Flagged(Seen(h)))
      /\ past' = past
  BY DEF FlagStats, Query
<1>3. ChunksPartition'
  BY <1>2 DEF ChunksPartition
<1>4. CASE n = 0
  <2>1. main \in past /\ IsMain(main)
    BY DEF ToolsInv, DiskInv
  <2>2. SubSeq(main, 1, 0) = <<>> /\ Len(main) >= 0
    BY <2>1 DEF IsMain
  <2>3. Flagged(<<>>) = {} /\ Cardinality({}) = 0
    BY FS_EmptySet DEF Flagged
  <2>4. StatsShowOneMoment'
    BY <1>2, <1>4, <2>1, <2>2, <2>3 DEF StatsShowOneMoment
  <2> QED BY <1>1, <1>3, <2>4 DEF ToolsInv
<1>5. CASE n # 0
  <2>1. ReadMain(h).rows \in past /\ n \in Nat /\ Len(ReadMain(h).rows) >= n
        /\ Seen(h) = SubSeq(ReadMain(h).rows, 1, n)
    <3>1. IsMain(ReadMain(h).rows) /\ ReadMain(h).rows \in past /\ n \in Nat /\ n <= Len(ReadMain(h).rows)
      BY <1>5, QueryReads DEF ToolsInv, DiskInv
    <3> QED BY <3>1 DEF Seen, IsMain
  <2>2. answer'.flagged = Cardinality(Flagged(SubSeq(ReadMain(h).rows, 1, n)))
    BY <1>2, <1>5, <2>1
  <2>3. StatsShowOneMoment'
    BY <1>2, <2>1, <2>2 DEF StatsShowOneMoment
  <2> QED BY <1>1, <1>3, <2>3 DEF ToolsInv
<1> QED BY <1>4, <1>5

LEMMA IterChunksInv == \A h \in Handles : ToolsInv /\ IterChunks(h) => ToolsInv'
<1> SUFFICES ASSUME NEW h \in Handles, ToolsInv, IterChunks(h) PROVE ToolsInv'
  OBVIOUS
<1> DEFINE n == handle[h].nrow
           keyOf == [i \in DOMAIN Seen(h) |-> Seen(h)[i].key]
           c == GroupRows(keyOf)
<1>1. DiskInv' /\ HandlesInv' /\ RestInv'
  BY QueryInv DEF IterChunks
<1>2. /\ answer'.to = "chunks" /\ answer'.total = n
      /\ answer'.chunks = IF n = 0 THEN <<>> ELSE c
  BY DEF IterChunks, Query
<1>3. StatsShowOneMoment'
  BY <1>2 DEF StatsShowOneMoment
<1>4. CASE n = 0
  <2>1. ChunksPartition'
    BY <1>2, <1>4 DEF ChunksPartition
  <2> QED BY <1>1, <1>3, <2>1 DEF ToolsInv
<1>5. CASE n # 0
  <2>1. IsMain(Seen(h)) /\ Len(Seen(h)) = n /\ n \in Nat
    BY <1>5, QueryReads
  <2>2. keyOf \in [1..n -> Int]
    <3>1. DOMAIN Seen(h) = 1..n /\ \A i \in 1..n : Seen(h)[i] \in ToolRow
      BY <2>1 DEF IsMain
    <3>2. \A i \in 1..n : Seen(h)[i].key \in Int
      BY <3>1 DEF ToolRow
    <3> QED BY <3>1, <3>2
  <2> HIDE DEF keyOf
  <2>3. /\ \A i \in 1..n : Cardinality({k \in DOMAIN c : i \in Range(c[k].rows)}) = 1
        /\ \A k \in DOMAIN c : \A l \in 1..(k - 1) : c[l].key < c[k].key
    BY <2>1, <2>2, GroupsPartition
  <2>4. answer'.chunks = c
    BY <1>2, <1>5
  <2> HIDE DEF c
  <2>5. ChunksPartition'
    BY <1>2, <2>3, <2>4 DEF ChunksPartition
  <2> QED BY <1>1, <1>3, <2>5 DEF ToolsInv
<1> QED BY <1>4, <1>5

\* The bin of a row is counted from the earliest time there is.
LEMMA BinsCountFromTheEarliest ==
    ASSUME NEW s \in Seq(ToolRow), s # <<>>
    PROVE  \E e \in Int : \A i \in 1..Len(s) :
            s[i].time - e \in Nat /\ BinOf(s, s[i].time) = (s[i].time - e) \div Interval
<1> DEFINE T == {s[i].time : i \in DOMAIN s}
           e == CHOOSE m \in T : \A i \in DOMAIN s : m <= s[i].time
<1>1. DOMAIN s = 1..Len(s) /\ Len(s) \in Nat /\ Len(s) # 0 /\ \A i \in DOMAIN s : s[i].time \in Int
  <2>1. DOMAIN s = 1..Len(s) /\ Len(s) \in Nat /\ \A i \in DOMAIN s : s[i] \in ToolRow
    OBVIOUS
  <2>2. Len(s) # 0
    OBVIOUS
  <2> QED BY <2>1, <2>2 DEF ToolRow
<1>2. IsFiniteSet(T)
  <2>1. [i \in DOMAIN s |-> s[i].time] \in Surjection(DOMAIN s, T)
    BY DEF Surjection
  <2>2. IsFiniteSet(DOMAIN s)
    BY <1>1, FS_Interval
  <2> QED BY <2>1, <2>2, FS_Surjection
<1>3. T \in SUBSET Int /\ s[1].time \in T
  BY <1>1
<1>4. \E m \in T : \A x \in T : m <= x
  BY <1>2, <1>3, LeastInt
<1>5. \E m \in T : \A i \in DOMAIN s : m <= s[i].time
  BY <1>4
<1>6. e \in T /\ \A i \in DOMAIN s : e <= s[i].time
  BY <1>5
<1>7. e \in Int
  BY <1>3, <1>6
<1>8. \A t : BinOf(s, t) = (t - e) \div Interval
  BY DEF BinOf
<1> HIDE DEF e, T
<1>9. \A i \in 1..Len(s) : s[i].time - e \in Nat
  BY <1>1, <1>6, <1>7
<1> QED BY <1>7, <1>8, <1>9

LEMMA TimeChunksInv == \A h \in Handles : ToolsInv /\ TimeChunks(h) => ToolsInv'
<1> SUFFICES ASSUME NEW h \in Handles, ToolsInv, TimeChunks(h) PROVE ToolsInv'
  OBVIOUS
<1> DEFINE n == handle[h].nrow
           s == Seen(h)
           keyOf == [i \in DOMAIN Seen(h) |-> BinOf(Seen(h), Seen(h)[i].time)]
           c == GroupRows(keyOf)
<1>1. DiskInv' /\ HandlesInv' /\ RestInv'
  BY QueryInv DEF TimeChunks
<1>2. /\ answer'.to = "bins" /\ answer'.total = n
      /\ answer'.chunks = IF n = 0 THEN <<>> ELSE c
  BY DEF TimeChunks, Query
<1>3. StatsShowOneMoment'
  BY <1>2 DEF StatsShowOneMoment
<1>4. CASE n = 0
  <2>1. ChunksPartition'
    BY <1>2, <1>4 DEF ChunksPartition
  <2> QED BY <1>1, <1>3, <2>1 DEF ToolsInv
<1>5. CASE n # 0
  <2>1. IsMain(s) /\ Len(s) = n /\ n \in Nat /\ s \in Seq(ToolRow) /\ DOMAIN s = 1..n /\ s # <<>>
    <3>1. IsMain(s) /\ Len(s) = n /\ n \in Nat
      BY <1>5, QueryReads
    <3>2. s \in Seq(ToolRow)
      BY <3>1 DEF IsMain
    <3> HIDE DEF s
    <3>3. DOMAIN s = 1..n /\ (s = <<>> => n = 0)
      BY <3>1, <3>2
    <3> QED BY <1>5, <3>1, <3>2, <3>3
  <2>2. PICK e \in Int : \A i \in 1..n :
            s[i].time - e \in Nat /\ BinOf(s, s[i].time) = (s[i].time - e) \div Interval
    BY <1>5, <2>1, BinsCountFromTheEarliest
  <2>3. \A i \in 1..n : keyOf[i] = (s[i].time - e) \div Interval
    BY <2>1, <2>2
  <2>4. Interval \in Nat \ {0}
    BY MsToolsAssumption
  <2>5. \A i \in 1..n : keyOf[i] \in Int
    <3> TAKE i \in 1..n
    <3>1. s[i].time - e \in Nat /\ keyOf[i] = (s[i].time - e) \div Interval
      BY <2>2, <2>3
    <3> HIDE DEF keyOf
    <3>2. (s[i].time - e) \div Interval \in Nat
      BY <2>4, <3>1, Quotient
    <3> QED BY <3>1, <3>2
  <2>6. keyOf \in [1..n -> Int]
    BY <2>1, <2>5
  <2> HIDE DEF keyOf
  <2>7. /\ \A i \in 1..n : Cardinality({k \in DOMAIN c : i \in Range(c[k].rows)}) = 1
        /\ \A k \in DOMAIN c : \A l \in 1..(k - 1) : c[l].key < c[k].key
        /\ \A k \in DOMAIN c : \A i \in Range(c[k].rows) : i \in 1..n /\ keyOf[i] = c[k].key
    BY <2>1, <2>6, GroupsPartition
  <2> HIDE DEF c
  <2>8. ASSUME NEW k \in DOMAIN c, NEW i \in Range(c[k].rows), NEW j \in Range(c[k].rows)
        PROVE  Rows[i].time - Rows[j].time < Interval
    <3>1. i \in 1..n /\ j \in 1..n /\ keyOf[i] = keyOf[j]
      BY <2>7
    <3>2. /\ s[i].time - e \in Nat /\ s[j].time - e \in Nat
          /\ (s[i].time - e) \div Interval = (s[j].time - e) \div Interval
      BY <2>2, <2>3, <3>1
    <3>3. (s[i].time - e) - (s[j].time - e) < Interval
      BY <2>4, <3>2, InOneBin
    <3>4. s[i].time = Rows[i].time /\ s[j].time = Rows[j].time
          /\ s[i].time \in Int /\ s[j].time \in Int
      <4>1. s[i] \in ToolRow /\ s[j] \in ToolRow
        BY <2>1, <3>1
      <4>2. s[i].time \in Int /\ s[j].time \in Int
        BY <4>1 DEF ToolRow
      <4> QED BY <2>1, <3>1, <4>2 DEF IsMain
    <3> QED BY <2>4, <3>3, <3>4
  <2>9. answer'.chunks = c
    BY <1>2, <1>5
  <2>10. ChunksPartition'
    BY <1>2, <2>7, <2>8, <2>9 DEF ChunksPartition
  <2> QED BY <1>1, <1>3, <2>10 DEF ToolsInv
<1> QED BY <1>4, <1>5

----------------------------------------------------------------------------
(* Flags and history.                                                      *)

LEMMA ModifyFlagRowsInv ==
    \A h \in Handles, rows \in SUBSET DOMAIN Rows, value \in BOOLEAN :
        ToolsInv /\ ModifyFlagRows(h, rows, value) => ToolsInv'
<1> SUFFICES ASSUME NEW h \in Handles, NEW rows \in SUBSET DOMAIN Rows, NEW value \in BOOLEAN,
                    ToolsInv, ModifyFlagRows(h, rows, value)
             PROVE  ToolsInv'
  OBVIOUS
<1>1. /\ past' = past \cup {main'} /\ answer' = NoAnswer
      /\ UNCHANGED <<antenna, history, filled, handle, entries>>
      /\ calls' = calls + 1 /\ calls < MaxCalls
      /\ \/ main' = main
         \/ main' = [i \in DOMAIN main |-> IF i \in rows THEN [main[i] EXCEPT !.flag = value]
                                           ELSE main[i]]
  BY DEF ModifyFlagRows, Call
<1>2. /\ IsMain(main) /\ main \in Seq(ToolRow) /\ DOMAIN main = 1..Len(main) /\ Len(main) \in Nat
      /\ \A m \in past : IsMain(m)
  BY DEF ToolsInv, DiskInv, IsMain
<1>3. IsMain(main') /\ Len(main') = Len(main)
  <2>1. CASE main' = main
    BY <1>2, <2>1
  <2>2. CASE main' = [i \in 1..Len(main) |-> IF i \in rows THEN [main[i] EXCEPT !.flag = value]
                                            ELSE main[i]]
    <3>1. \A i \in 1..Len(main) : /\ main'[i] \in ToolRow
                                  /\ main'[i].key = main[i].key /\ main'[i].time = main[i].time
      <4> TAKE i \in 1..Len(main)
      <4>1. main[i] \in ToolRow
        BY <1>2
      <4>2. main'[i] = [main[i] EXCEPT !.flag = value] \/ main'[i] = main[i]
        BY <2>2
      <4> QED BY <4>1, <4>2 DEF ToolRow
    <3>2. main' \in Seq(ToolRow) /\ Len(main') = Len(main)
      BY <1>2, <2>2, <3>1
    <3> QED BY <1>2, <3>1, <3>2 DEF IsMain
  <2> QED BY <1>1, <1>2, <2>1, <2>2
<1>4. DiskInv'
  <2>1. \A m \in past' : IsMain(m)
    BY <1>1, <1>2, <1>3
  <2> QED BY <1>1, <1>3, <2>1 DEF ToolsInv, DiskInv
<1>5. HandlesInv'
  <2>1. \A k \in Handles : KnowsMain(handle[k])'
    BY <1>1, <1>3 DEF ToolsInv, HandlesInv, KnowsMain
  <2>2. \A k \in Handles : KnowsAntenna(handle[k])'
    BY <1>1 DEF ToolsInv, HandlesInv, KnowsAntenna
  <2> QED BY <1>1, <2>1, <2>2 DEF ToolsInv, HandlesInv
<1>6. RestInv'
  BY <1>1, MsToolsAssumption DEF ToolsInv, RestInv
<1>7. StatsShowOneMoment' /\ ChunksPartition'
  BY <1>1, AnswersStay DEF ToolsInv
<1> QED BY <1>4, <1>5, <1>6, <1>7 DEF ToolsInv

\* A step that leaves the tables and handles alone keeps what is known of them.
LEMMA OthersStay ==
    ASSUME ToolsInv, UNCHANGED <<main, antenna, filled, handle, past>>, answer' = NoAnswer
    PROVE  DiskInv' /\ HandlesInv' /\ StatsShowOneMoment' /\ ChunksPartition'
<1>1. DiskInv'
  BY DEF ToolsInv, DiskInv
<1>2. HandlesInv'
  BY DEF ToolsInv, HandlesInv, KnowsMain, KnowsAntenna
<1>3. StatsShowOneMoment' /\ ChunksPartition'
  BY AnswersStay DEF ToolsInv
<1> QED BY <1>1, <1>2, <1>3

LEMMA AddEntryInv == \A h \in Handles, e \in Entries : ToolsInv /\ AddEntry(h, e) => ToolsInv'
<1> SUFFICES ASSUME NEW h \in Handles, NEW e \in Entries, ToolsInv, AddEntry(h, e) PROVE ToolsInv'
  OBVIOUS
<1>1. DiskInv' /\ HandlesInv' /\ StatsShowOneMoment' /\ ChunksPartition'
  BY OthersStay DEF AddEntry
<1>2. entries \in [Handles -> Seq(Entries)]
  BY DEF ToolsInv, RestInv
<1>3. Append(entries[h], e) \in Seq(Entries)
  BY <1>2
<1>4. entries' \in [Handles -> Seq(Entries)]
  BY <1>2, <1>3 DEF AddEntry
<1>5. RestInv'
  BY <1>4, MsToolsAssumption DEF ToolsInv, RestInv, AddEntry, Call
<1> QED BY <1>1, <1>5 DEF ToolsInv

LEMMA FlushHistoryInv == \A h \in Handles : ToolsInv /\ FlushHistory(h) => ToolsInv'
<1> SUFFICES ASSUME NEW h \in Handles, ToolsInv, FlushHistory(h) PROVE ToolsInv'
  OBVIOUS
<1>1. DiskInv' /\ HandlesInv' /\ StatsShowOneMoment' /\ ChunksPartition'
  BY OthersStay DEF FlushHistory
<1>2. entries \in [Handles -> Seq(Entries)] /\ <<>> \in Seq(Entries)
  BY DEF ToolsInv, RestInv
<1>3. entries' \in [Handles -> Seq(Entries)] /\ history' \in Seq(Entries)
  BY <1>2 DEF FlushHistory
<1>4. RestInv'
  BY <1>3, MsToolsAssumption DEF ToolsInv, RestInv, FlushHistory, Call
<1> QED BY <1>1, <1>4 DEF ToolsInv

----------------------------------------------------------------------------
(* The cache of antennas.                                                  *)

LEMMA OpenAntennaInv == \A h \in Handles : ToolsInv /\ OpenAntenna(h) => ToolsInv'
<1> SUFFICES ASSUME NEW h \in Handles, ToolsInv, OpenAntenna(h) PROVE ToolsInv'
  OBVIOUS
<1> DEFINE o == handle[h]
           a == [open |-> TRUE, nrow |-> Len(antenna.rows), reader |-> Unread]
           p == [o EXCEPT !.antenna = a]
<1>1. o \in ToolHandle /\ KnowsMain(o) /\ KnowsAntenna(o) /\ handle \in [Handles -> ToolHandle]
  BY DEF ToolsInv, HandlesInv
<1>2. /\ handle' = [handle EXCEPT ![h] = p] /\ ~o.antenna.open /\ antenna.there
      /\ UNCHANGED <<main, antenna, history, filled, entries, answer, calls, past>>
  BY <1>1 DEF OpenAntenna
<1>3. filled[2] \in 0..Len(Antennas) /\ Len(antenna.rows) = filled[2]
  <2>1. filled[2] \in 0..Len(Antennas) /\ antenna.rows = SubSeq(Antennas, 1, filled[2])
    BY <1>2 DEF ToolsInv, DiskInv
  <2> QED BY <2>1, FillerRows
<1>4. a \in AntennaHandle
  BY <1>3 DEF AntennaHandle, ReaderOf, Unread
<1>5. p \in ToolHandle /\ p.reader = o.reader /\ p.nrow = o.nrow /\ p.antenna = a /\ p.meta = o.meta
  BY <1>1, <1>4 DEF ToolHandle
<1>6. KnowsMain(p)
  BY <1>1, <1>5 DEF KnowsMain
<1>7. KnowsAntenna(p)
  <2>1. a.nrow = filled[2] /\ a.reader.rows = <<>> /\ a.open
    BY <1>3 DEF Unread
  <2>2. ~o.meta.loaded /\ o.meta.names = <<>>
    BY <1>1, <1>2 DEF KnowsAntenna
  <2> HIDE DEF a, p
  <2> QED BY <1>3, <1>5, <2>1, <2>2 DEF KnowsAntenna
<1> HIDE DEF p
<1>8. DiskInv' /\ HandlesInv'
  BY <1>2, <1>5, <1>6, <1>7, HandleChanges
<1>9. RestInv'
  BY <1>2 DEF ToolsInv, RestInv
<1>10. StatsShowOneMoment' /\ ChunksPartition'
  BY <1>2, AnswersStay DEF ToolsInv
<1> QED BY <1>8, <1>9, <1>10 DEF ToolsInv

\* The first rows of what a reader has: all of them, when it is long enough.
LEMMA FirstRows ==
    ASSUME NEW k \in 0..Len(Antennas), NEW n \in 0..k
    PROVE  FirstOf(SubSeq(Antennas, 1, k), n) = SubSeq(Antennas, 1, n)
<1>1. Len(Antennas) \in Nat
  BY FillerRows
<1>2. n \in 0..Len(Antennas) /\ k \in Nat /\ n \in Nat
  BY <1>1
<1>3. SubSeq(Antennas, 1, k) = [i \in 1..k |-> Antennas[i]]
      /\ SubSeq(Antennas, 1, n) = [i \in 1..n |-> Antennas[i]]
  BY <1>1, <1>2
<1>4. (1..n) \cap (1..k) = 1..n
  BY <1>2
<1> QED BY <1>2, <1>3, <1>4 DEF FirstOf

LEMMA EnsureAntennaCacheInv == \A h \in Handles : ToolsInv /\ EnsureAntennaCache(h) => ToolsInv'
<1> SUFFICES ASSUME NEW h \in Handles, ToolsInv, EnsureAntennaCache(h) PROVE ToolsInv'
  OBVIOUS
<1> DEFINE o == handle[h]
           a == o.antenna
           r == IF a.reader.read \/ a.nrow = 0 THEN a.reader
                ELSE [read |-> TRUE, rows |-> antenna.rows]
           got == FirstOf(r.rows, a.nrow)
           b == [a EXCEPT !.reader = r]
           m == [names |-> o.meta.names \o got, loaded |-> Len(got) = a.nrow]
           p == [[o EXCEPT !.antenna = b] EXCEPT !.meta = m]
<1>1. o \in ToolHandle /\ KnowsMain(o) /\ KnowsAntenna(o) /\ handle \in [Handles -> ToolHandle]
  BY DEF ToolsInv, HandlesInv
<1>2. /\ handle' = [handle EXCEPT ![h] = p] /\ a.open /\ ~o.meta.loaded
      /\ UNCHANGED <<main, antenna, history, filled, entries, past>>
      /\ answer' = NoAnswer /\ calls' = calls + 1 /\ calls < MaxCalls
  BY <1>1 DEF EnsureAntennaCache, Call
<1>3. a \in AntennaHandle /\ a.nrow \in Nat
  BY <1>1 DEF ToolHandle, AntennaHandle
<1>4. filled[2] \in 0..Len(Antennas) /\ a.nrow <= filled[2] /\ Len(Antennas) \in Nat
  BY <1>1, FillerRows DEF ToolsInv, DiskInv, KnowsAntenna
<1>5. antenna.rows = <<>> \/ antenna.rows = SubSeq(Antennas, 1, filled[2])
  BY DEF ToolsInv, DiskInv
<1>6. r.rows # <<>> => \E n \in a.nrow..Len(Antennas) : r.rows = SubSeq(Antennas, 1, n)
  <2>1. filled[2] \in a.nrow..Len(Antennas)
    BY <1>3, <1>4
  <2> QED BY <1>1, <1>5, <2>1 DEF KnowsAntenna
<1>7. r \in ReaderOf(STRING)
  <2>1. antenna.rows \in Seq(STRING)
    <3>1. <<>> \in Seq(STRING) /\ SubSeq(Antennas, 1, filled[2]) \in Seq(STRING)
      BY <1>4, FillerRows
    <3> QED BY <1>5, <3>1
  <2> QED BY <1>3, <2>1 DEF AntennaHandle, ReaderOf
<1>8. b \in AntennaHandle /\ b.open /\ b.nrow = a.nrow /\ b.reader = r
  BY <1>2, <1>3, <1>7 DEF AntennaHandle
<1>9. got = <<>> \/ got = SubSeq(Antennas, 1, a.nrow)
  <2>1. CASE r.rows = <<>>
    BY <2>1 DEF FirstOf
  <2>2. CASE r.rows # <<>>
    <3>1. PICK n \in a.nrow..Len(Antennas) : r.rows = SubSeq(Antennas, 1, n)
      BY <1>6, <2>2
    <3>2. n \in 0..Len(Antennas) /\ a.nrow \in 0..n
      BY <1>3, <1>4
    <3> QED BY <3>1, <3>2, FirstRows
  <2> QED BY <2>1, <2>2
<1>10. o.meta.names = <<>>
  BY <1>1, <1>2 DEF KnowsAntenna
<1>11. Len(SubSeq(Antennas, 1, a.nrow)) = a.nrow /\ SubSeq(Antennas, 1, a.nrow) \in Seq(STRING)
  BY <1>3, <1>4, FillerRows
<1>12. /\ m \in [names : Seq(STRING), loaded : BOOLEAN]
       /\ m.names = IF m.loaded THEN SubSeq(Antennas, 1, a.nrow) ELSE <<>>
  <2> HIDE DEF got
  <2>1. got \in Seq(STRING) /\ <<>> \o got = got
    <3>1. <<>> \in Seq(STRING)
      OBVIOUS
    <3>2. got \in Seq(STRING)
      BY <1>9, <1>11, <3>1
    <3> QED BY <3>2
  <2>2. Len(got) = a.nrow => got = SubSeq(Antennas, 1, a.nrow)
    <3>1. CASE got = SubSeq(Antennas, 1, a.nrow)
      BY <3>1
    <3>2. CASE got = <<>>
      <4>1. SubSeq(Antennas, 1, 0) = <<>>
        OBVIOUS
      <4> QED BY <3>2, <4>1
    <3> QED BY <1>9, <3>1, <3>2
  <2>3. Len(got) # a.nrow => got = <<>>
    BY <1>9, <1>11
  <2> QED BY <1>10, <2>1, <2>2, <2>3
<1> HIDE DEF b, m, r
<1>13. p \in ToolHandle /\ p.reader = o.reader /\ p.nrow = o.nrow /\ p.antenna = b /\ p.meta = m
  BY <1>1, <1>8, <1>12 DEF ToolHandle
<1> HIDE DEF p
<1>14. KnowsMain(p)
  BY <1>1, <1>13 DEF KnowsMain
<1>15. KnowsAntenna(p)
  BY <1>4, <1>6, <1>8, <1>12, <1>13 DEF KnowsAntenna
<1>16. DiskInv' /\ HandlesInv'
  BY <1>2, <1>13, <1>14, <1>15, HandleChanges
<1>17. RestInv'
  BY <1>2, MsToolsAssumption DEF ToolsInv, RestInv
<1>18. StatsShowOneMoment' /\ ChunksPartition'
  BY <1>2, AnswersStay DEF ToolsInv
<1> QED BY <1>16, <1>17, <1>18 DEF ToolsInv

----------------------------------------------------------------------------
(* The theorems.                                                           *)

LEMMA ToolsStep == ToolsInv /\ [ToolsNext]_toolVars => ToolsInv'
<1> SUFFICES ASSUME ToolsInv, [ToolsNext]_toolVars PROVE ToolsInv'
  OBVIOUS
<1>1. CASE WriterFlushBegin
  BY <1>1, WriterFlushBeginInv
<1>2. CASE WriterFlushEnd
  BY <1>2, WriterFlushEndInv
<1>3. ASSUME NEW h \in Handles, OpenHandle(h) PROVE ToolsInv'
  BY <1>3, OpenHandleInv
<1>4. ASSUME NEW h \in Handles, CloseHandle(h) PROVE ToolsInv'
  BY <1>4, CloseHandleInv
<1>5. ASSUME NEW h \in Handles, FlagStats(h) PROVE ToolsInv'
  BY <1>5, FlagStatsInv
<1>6. ASSUME NEW h \in Handles, NEW rows \in SUBSET DOMAIN Rows, NEW value \in BOOLEAN,
             ModifyFlagRows(h, rows, value)
      PROVE  ToolsInv'
  BY <1>6, ModifyFlagRowsInv
<1>7. ASSUME NEW h \in Handles, IterChunks(h) PROVE ToolsInv'
  BY <1>7, IterChunksInv
<1>8. ASSUME NEW h \in Handles, TimeChunks(h) PROVE ToolsInv'
  BY <1>8, TimeChunksInv
<1>9. ASSUME NEW h \in Handles, NEW e \in Entries, AddEntry(h, e) PROVE ToolsInv'
  BY <1>9, AddEntryInv
<1>10. ASSUME NEW h \in Handles, FlushHistory(h) PROVE ToolsInv'
  BY <1>10, FlushHistoryInv
<1>11. ASSUME NEW h \in Handles, OpenAntenna(h) PROVE ToolsInv'
  BY <1>11, OpenAntennaInv
<1>12. ASSUME NEW h \in Handles, EnsureAntennaCache(h) PROVE ToolsInv'
  BY <1>12, EnsureAntennaCacheInv
<1>13. CASE UNCHANGED toolVars
  <2>1. UNCHANGED <<main, antenna, filled, handle, past, answer, history, entries, calls>>
    BY <1>13 DEF toolVars
  <2>2. DiskInv' /\ RestInv'
    BY <2>1 DEF ToolsInv, DiskInv, RestInv
  <2>3. HandlesInv'
    BY <2>1 DEF ToolsInv, HandlesInv, KnowsMain, KnowsAntenna
  <2>4. StatsShowOneMoment' /\ ChunksPartition'
    BY <2>1, AnswersStay DEF ToolsInv
  <2> QED BY <2>2, <2>3, <2>4 DEF ToolsInv
<1> QED BY <1>1, <1>2, <1>3, <1>4, <1>5, <1>6, <1>7, <1>8, <1>9, <1>10, <1>11, <1>12, <1>13
        DEF ToolsNext

LEMMA ToolsAlways == ToolsSpec => []ToolsInv
<1>1. ToolsInit => ToolsInv
  BY ToolsInitInv
<1>2. ToolsInv /\ [ToolsNext]_toolVars => ToolsInv'
  BY ToolsStep
<1> QED BY <1>1, <1>2, PTL DEF ToolsSpec

\* Whatever the calls and flushes, the state is of the types it should be of.
THEOREM ToolsTypeCorrect == ToolsSpec => []ToolsTypeOK
<1>1. ASSUME ToolsInv PROVE ToolsTypeOK
  <2>1. Len(main) <= Len(Rows)
    BY <1>1 DEF ToolsInv, DiskInv, IsMain
  <2>2. IsPrefix(antenna.rows, Antennas)
    <3>1. filled[2] \in 0..Len(Antennas)
          /\ (antenna.rows = <<>> \/ antenna.rows = SubSeq(Antennas, 1, filled[2]))
      BY <1>1 DEF ToolsInv, DiskInv
    <3>2. SubSeq(Antennas, 1, 0) = <<>> /\ 0 \in 0..Len(Antennas) /\ Len(Antennas) \in Nat
      BY FillerRows
    <3>3. PICK n \in 0..Len(Antennas) : antenna.rows = SubSeq(Antennas, 1, n)
      BY <3>1, <3>2
    <3>4. Len(antenna.rows) = n /\ SubSeq(antenna.rows, 1, n) = antenna.rows
      BY <3>3, FillerRows
    <3> QED BY <3>2, <3>3, <3>4 DEF IsPrefix
  <2> QED BY <1>1, <2>1, <2>2 DEF ToolsInv, DiskInv, HandlesInv, RestInv, ToolsTypeOK
<1> QED BY <1>1, ToolsAlways, PTL

\* The statistics of ms_flag_stats are the truth about the first rows of the
\* main table at one moment.
THEOREM StatsAreOfOneMoment == ToolsSpec => []StatsShowOneMoment
<1>1. ToolsInv => StatsShowOneMoment
  BY DEF ToolsInv
<1> QED BY <1>1, ToolsAlways, PTL

\* ms_iter_chunks and ms_time_chunks put each row into one chunk, and a time
\* chunk is shorter than the interval.
THEOREM ChunksArePartitions == ToolsSpec => []ChunksPartition
<1>1. ToolsInv => ChunksPartition
  BY DEF ToolsInv
<1> QED BY <1>1, ToolsAlways, PTL

\* A cache of MsMetaData that is marked as loaded has every antenna, once.
THEOREM MetaDataAlwaysWhole == ToolsSpec => []MetaDataIsWhole
<1>1. ASSUME ToolsInv PROVE MetaDataIsWhole
  <2> SUFFICES ASSUME NEW h \in Handles, handle[h].meta.loaded
               PROVE  /\ Len(handle[h].meta.names) = handle[h].antenna.nrow
                      /\ IsPrefix(handle[h].meta.names, Antennas)
    BY DEF MetaDataIsWhole
  <2> DEFINE n == handle[h].antenna.nrow
  <2>1. handle[h] \in ToolHandle /\ KnowsAntenna(handle[h]) /\ filled[2] \in 0..Len(Antennas)
    BY <1>1 DEF ToolsInv, HandlesInv, DiskInv
  <2>2. n \in Nat /\ n <= filled[2] /\ handle[h].meta.names = SubSeq(Antennas, 1, n)
    BY <2>1 DEF ToolHandle, AntennaHandle, KnowsAntenna
  <2>3. Len(Antennas) \in Nat
    BY FillerRows
  <2>4. n \in 0..Len(Antennas) /\ Len(handle[h].meta.names) = n
    BY <2>1, <2>2, <2>3, FillerRows
  <2>5. SubSeq(SubSeq(Antennas, 1, n), 1, n) = SubSeq(Antennas, 1, n)
    BY <2>4, FillerRows
  <2> QED BY <2>2, <2>3, <2>4, <2>5 DEF IsPrefix
<1> QED BY <1>1, ToolsAlways, PTL

----------------------------------------------------------------------------
(* MsSelection: the rows a category selects, both ways.                    *)

LEMMA Forms ==
    /\ FormsOf("antenna") = {"pair", "list"}
    /\ FormsOf("field") = {"list", "below", "above"}
    /\ FormsOf("spw") = {"list"}
    /\ \A c \in {"scan", "obs", "array"} : FormsOf(c) = {"list", "below", "above"}
    /\ \A c \in {"time", "uvdist"} : FormsOf(c) = {"above", "below", "between"}
    /\ FormsOf("corr") = {"names"}
    /\ FormsOf("state") = {"list", "pattern", "below", "above"}
    /\ FormsOf("feed") = {"pair", "list"}
    /\ FormsOf("taql") = {"where"}
<1>1. FormsOf("antenna") = {"pair", "list"}  BY DEF FormsOf
<1>2. FormsOf("field") = {"list", "below", "above"}  BY DEF FormsOf
<1>3. FormsOf("spw") = {"list"}  BY DEF FormsOf
<1>4. \A c \in {"scan", "obs", "array"} : FormsOf(c) = {"list", "below", "above"}  BY DEF FormsOf
<1>5. \A c \in {"time", "uvdist"} : FormsOf(c) = {"above", "below", "between"}  BY DEF FormsOf
<1>6. FormsOf("corr") = {"names"}  BY DEF FormsOf
<1>7. FormsOf("state") = {"list", "pattern", "below", "above"}  BY DEF FormsOf
<1>8. FormsOf("feed") = {"pair", "list"}  BY DEF FormsOf
<1>9. FormsOf("taql") = {"where"}  BY DEF FormsOf
<1> QED BY <1>1, <1>2, <1>3, <1>4, <1>5, <1>6, <1>7, <1>8, <1>9

\* What the WHERE clause makes of an accepted expression: the same rows, more or
\* fewer for a reason that is named, or no clause.
Near(c, e) ==
    LET to == ToTaql(c, e)
    IN  /\ to.gives \in {"nothing", "unparsable", "exception"} => HasNoClause(c, e)
        /\ to.gives \notin {"unparsable", "exception"} =>
            /\ ~SelectsLess(c, e) => Filter(c, e).rows \subseteq to.rows
            /\ ~SelectsMore(c, e) => to.rows \subseteq Filter(c, e).rows
        /\ to.gives # "condition" => to.rows = MRows

LEMMA WhatIsGiven ==
    /\ \A what : Gives(what).gives = what /\ Gives(what).rows = MRows
    /\ \A S : Condition(S).gives = "condition" /\ Condition(S).rows = S
BY DEF Gives, Condition

LEMMA SameRowsAreNear ==
    ASSUME NEW c, NEW e, ToTaql(c, e) = Condition(Filter(c, e).rows)
    PROVE  Near(c, e)
<1>1. ToTaql(c, e).gives = "condition" /\ ToTaql(c, e).rows = Filter(c, e).rows
  BY WhatIsGiven
<1> QED BY <1>1 DEF Near

LEMMA NoClauseIsNear ==
    ASSUME NEW c, NEW e, NEW what \in {"unparsable", "exception"},
           ToTaql(c, e) = Gives(what), HasNoClause(c, e)
    PROVE  Near(c, e)
<1>1. ToTaql(c, e).gives = what /\ ToTaql(c, e).rows = MRows
  BY WhatIsGiven
<1> QED BY <1>1 DEF Near

LEMMA LeftOutIsNear ==
    ASSUME NEW c, NEW e, NEW what \in {"no condition", "nothing"}, ToTaql(c, e) = Gives(what),
           what = "nothing" => HasNoClause(c, e),
           SelectsMore(c, e) \/ Filter(c, e).rows = MRows,
           Filter(c, e).rows \subseteq MRows
    PROVE  Near(c, e)
<1>1. ToTaql(c, e).gives = what /\ ToTaql(c, e).rows = MRows
  BY WhatIsGiven
<1> QED BY <1>1 DEF Near

LEMMA MoreRowsAreNear ==
    ASSUME NEW c, NEW e, NEW S, ToTaql(c, e) = Condition(S), Filter(c, e).rows \subseteq S,
           SelectsMore(c, e)
    PROVE  Near(c, e)
<1>1. ToTaql(c, e).gives = "condition" /\ ToTaql(c, e).rows = S
  BY WhatIsGiven
<1> QED BY <1>1 DEF Near

LEMMA FewerRowsAreNear ==
    ASSUME NEW c, NEW e, NEW S, ToTaql(c, e) = Condition(S), S \subseteq Filter(c, e).rows,
           SelectsLess(c, e)
    PROVE  Near(c, e)
<1>1. ToTaql(c, e).gives = "condition" /\ ToTaql(c, e).rows = S
  BY WhatIsGiven
<1> QED BY <1>1 DEF Near

LEMMA RowsAreMain ==
    /\ \A f, ids : Having(f, ids) \subseteq MRows
    /\ \A e, S : S \subseteq MRows => Signed(e, S) \subseteq MRows
BY DEF Having, Signed

\* A list that has ids gives the same rows both ways.
LEMMA ListsAgree ==
    ASSUME NEW t \in {"antenna", "field"}, NEW e, e.form = "list", Resolve(t, e.tokens).ok, ~NoIds(e)
    PROVE  NameToTaql(e, t) = Condition(Signed(e, OfNamed(t, Resolve(t, e.tokens).ids)))
<1> DEFINE tokens == e.tokens
           names == UNION {Matches(t, tokens[i]) : i \in DOMAIN tokens}
           rows(ids) == Signed(e, OfNamed(t, ids))
<1>1. CASE IsNumeric(tokens)
  <2>1. Resolve(t, tokens).ids = IdsOf(tokens) /\ IdsOf(tokens) # {}
    BY <1>1 DEF Resolve, NoIds
  <2>2. \A i \in DOMAIN tokens : tokens[i].k # "name"
    BY <1>1 DEF IsNumeric
  <2>3. NameToTaql(e, t) = InList(IdsOf(tokens), rows(IdsOf(tokens)))
    BY <1>1, <2>1, <2>2 DEF NameToTaql
  <2> QED BY <1>1, <2>1, <2>3 DEF InList
<1>2. CASE ~IsNumeric(tokens)
  <2>1. (\A i \in DOMAIN tokens : Matches(t, tokens[i]) # {}) /\ Resolve(t, tokens).ids = names
    BY <1>2 DEF Resolve
  <2>2. PICK i \in DOMAIN tokens : TRUE
    BY <1>2 DEF IsNumeric
  <2>3. tokens[i].k = "name" /\ names # {}
    BY <2>1, <2>2 DEF Matches
  <2>4. ~ \A j \in DOMAIN tokens : tokens[j].k # "name"
    BY <2>2, <2>3
  <2>5. NameToTaql(e, t) = InList(names, rows(names))
    BY <2>4 DEF NameToTaql
  <2> QED BY <2>1, <2>3, <2>5 DEF InList
<1> QED BY <1>1, <1>2

\* A list without any is left out or cannot be parsed.
LEMMA EmptyLists ==
    ASSUME NEW t \in {"antenna", "field"}, NEW e, NoIds(e)
    PROVE  NameToTaql(e, t) = Gives(IF t = "field" THEN "nothing" ELSE "unparsable")
<1>1. \A i \in DOMAIN e.tokens : e.tokens[i].k # "name"
  BY DEF NoIds, IsNumeric
<1> QED BY <1>1 DEF NoIds, NameToTaql, InList

LEMMA AntennasAgree ==
    ASSUME NEW e, e.form \in FormsOf("antenna"), Filter("antenna", e).ok
    PROVE  Near("antenna", e)
<1>1. e.form \in {"pair", "list"} /\ Filter("antenna", e) = AntennaFilter(e) /\ ToTaql("antenna", e) = AntennaToTaql(e)
  <2>0. e.form \in {"pair", "list"}
    BY Forms
  <2>1. ~(e.form \in {"empty", "bad"}) /\ e.form # "bad" /\ e.form # "empty" /\ e # Unset
    BY <2>0 DEF Unset
  <2>2. Filter("antenna", e) = AntennaFilter(e)
    BY <2>1, Zenon DEF Filter
  <2>3. ToTaql("antenna", e) = AntennaToTaql(e)
    BY <2>1, Zenon DEF ToTaql
  <2> QED BY <2>0, <2>2, <2>3
<1>2. CASE e.form = "pair"
  <2>1. ToTaql("antenna", e) = Condition(Filter("antenna", e).rows)
    BY <1>1, <1>2 DEF AntennaFilter, AntennaToTaql, PairToTaql, Accept, Refused
  <2> QED BY <2>1, SameRowsAreNear
<1>3. CASE e.form = "list" /\ ~NoIds(e)
  <2>1. Resolve("antenna", e.tokens).ok
        /\ AntennaFilter(e).rows = Signed(e, OfNamed("antenna", Resolve("antenna", e.tokens).ids))
    BY <1>1, <1>3 DEF AntennaFilter, Accept, Refused, OfNamed
  <2>2. AntennaToTaql(e) = NameToTaql(e, "antenna")
    BY <1>3 DEF AntennaToTaql
  <2>3. ToTaql("antenna", e) = Condition(Filter("antenna", e).rows)
    BY <1>1, <1>3, <2>1, <2>2, ListsAgree
  <2> QED BY <2>3, SameRowsAreNear
<1>4. CASE NoIds(e)
  <2>1. ToTaql("antenna", e) = Gives("unparsable")
    BY <1>1, <1>4, EmptyLists DEF AntennaToTaql, NoIds
  <2>2. HasNoClause("antenna", e)
    BY <1>4 DEF HasNoClause
  <2> QED BY <2>1, <2>2, NoClauseIsNear
<1> QED BY <1>1, <1>2, <1>3, <1>4

LEMMA FieldsAgree ==
    ASSUME NEW e, e.form \in FormsOf("field"), Filter("field", e).ok
    PROVE  Near("field", e)
<1>1. e.form \in {"list", "below", "above"} /\ Filter("field", e) = FieldFilter(e) /\ ToTaql("field", e) = FieldToTaql(e)
  <2>0. e.form \in {"list", "below", "above"}
    BY Forms
  <2>1. ~(e.form \in {"empty", "bad"}) /\ e.form # "bad" /\ e.form # "empty" /\ e # Unset
    BY <2>0 DEF Unset
  <2>2. Filter("field", e) = FieldFilter(e)
    BY <2>1, Zenon DEF Filter
  <2>3. ToTaql("field", e) = FieldToTaql(e)
    BY <2>1, Zenon DEF ToTaql
  <2> QED BY <2>0, <2>2, <2>3
<1>2. CASE e.form \in {"below", "above"}
  <2>1. FieldFilter(e).rows \subseteq Beyond(e, "field")
    BY <1>2 DEF FieldFilter, Accept, Having, Beyond
  <2>2. ToTaql("field", e) = Condition(Beyond(e, "field"))
    BY <1>1, <1>2 DEF FieldToTaql
  <2>3. CASE BoundsAgree("field")
    <3>1. FieldFilter(e).rows = Beyond(e, "field")
      BY <1>2, <2>3 DEF BoundsAgree, FieldFilter, Accept, Having, Beyond
    <3> QED BY <1>1, <2>2, <3>1, SameRowsAreNear
  <2>4. CASE ~BoundsAgree("field")
    <3>1. SelectsMore("field", e)
      BY <1>2, <2>4 DEF SelectsMore
    <3> QED BY <1>1, <2>1, <2>2, <3>1, MoreRowsAreNear
  <2> QED BY <2>3, <2>4
<1>3. CASE e.form = "list" /\ ~NoIds(e)
  <2>1. Resolve("field", e.tokens).ok
        /\ FieldFilter(e).rows = Signed(e, OfNamed("field", Resolve("field", e.tokens).ids))
    BY <1>1, <1>3 DEF FieldFilter, Accept, Refused, OfNamed
  <2>2. FieldToTaql(e) = NameToTaql(e, "field")
    BY <1>3 DEF FieldToTaql
  <2>3. ToTaql("field", e) = Condition(Filter("field", e).rows)
    BY <1>1, <1>3, <2>1, <2>2, ListsAgree
  <2> QED BY <2>3, SameRowsAreNear
<1>4. CASE NoIds(e)
  <2>1. e.form = "list" /\ ToTaql("field", e) = Gives("nothing")
    BY <1>1, <1>4, EmptyLists DEF FieldToTaql, NoIds
  <2>2. HasNoClause("field", e) /\ SelectsMore("field", e)
    BY <1>4 DEF HasNoClause, SelectsMore
  <2>3. Filter("field", e).rows \subseteq MRows
    BY <1>1, <2>1, RowsAreMain DEF FieldFilter, Accept, Refused
  <2> QED BY <2>1, <2>2, <2>3, LeftOutIsNear
<1> QED BY <1>1, <1>2, <1>3, <1>4

LEMMA SpwsAgree ==
    ASSUME NEW e, e.form \in FormsOf("spw"), Filter("spw", e).ok
    PROVE  Near("spw", e)
<1>1. e.form = "list" /\ Filter("spw", e) = SpwFilter(e) /\ ToTaql("spw", e) = SpwToTaql(e)
  <2>0. e.form = "list"
    BY Forms
  <2>1. ~(e.form \in {"empty", "bad"}) /\ e.form # "bad" /\ e.form # "empty" /\ e # Unset
    BY <2>0 DEF Unset
  <2>2. Filter("spw", e) = SpwFilter(e)
    BY <2>1, Zenon DEF Filter
  <2>3. ToTaql("spw", e) = SpwToTaql(e)
    BY <2>1, Zenon DEF ToTaql
  <2> QED BY <2>0, <2>2, <2>3
<1> DEFINE Of(k) == CASE k.k \in {"id", "chan"} -> {k.v}
                      [] k.k = "all" -> DOMAIN Names["spw"]
                      [] OTHER -> {}
           Spws(k) == CASE k.k \in {"id", "chan"} -> {k.v}
                        [] k.k = "range" -> k.lo..k.hi
                        [] k.k = "all" -> DOMAIN Names["spw"]
                        [] k.k = "freq" -> {i \in DOMAIN Names["spw"] : Names["spw"][i] \in k.match}
                        [] k.k \in {"name", "bad"} -> Matches("spw", k)
           seen == UNION {Of(e.tokens[i]) : i \in DOMAIN e.tokens}
           spws == UNION {Spws(e.tokens[i]) : i \in DOMAIN e.tokens}
           dds == {d \in DOMAIN DdSpw : DdSpw[d] \in seen}
           all == {d \in DOMAIN DdSpw : DdSpw[d] \in spws}
<1>2. SpwFilter(e).rows = Having("dd", all)
  <2>1. \A S, ids : Accept(S, ids).rows = S
    BY DEF Accept
  <2>2. ~Refused.ok
    BY DEF Refused
  <2>3. ~ \E i \in DOMAIN e.tokens : e.tokens[i].k \in {"name", "bad"} /\ Matches("spw", e.tokens[i]) = {}
    BY <1>1, <2>2, Zenon DEF SpwFilter
  <2>4. SpwFilter(e) = Accept(Having("dd", all), spws)
    BY <2>3, Zenon DEF SpwFilter
  <2> QED BY <2>1, <2>4, Zenon
<1>3. ToTaql("spw", e) = IF dds = {} THEN Gives("no condition") ELSE Condition(Having("dd", dds))
  BY <1>1 DEF SpwToTaql
<1>4. \A i \in DOMAIN e.tokens : /\ IsLookedAt(e.tokens[i]) => Spws(e.tokens[i]) = Of(e.tokens[i])
                                 /\ ~IsLookedAt(e.tokens[i]) => Of(e.tokens[i]) = {}
  BY DEF IsLookedAt
<1>5. seen \subseteq spws
  BY <1>4
<1>6. dds \subseteq all
  BY <1>5
<1>7. CASE dds = {}
  <2>1. ASSUME NEW i \in DOMAIN e.tokens, NEW d \in DOMAIN DdSpw
        PROVE  /\ e.tokens[i].k \in {"id", "chan"} => DdSpw[d] # e.tokens[i].v
               /\ e.tokens[i].k = "all" => DdSpw[d] \notin DOMAIN Names["spw"]
    <3>1. DdSpw[d] \notin Of(e.tokens[i])
      BY <1>7
    <3> QED BY <3>1
  <2>2. SelectsMore("spw", e)
    BY <1>1, <2>1 DEF SelectsMore, NoWindowFound
  <2>3. Filter("spw", e).rows \subseteq MRows
    BY <1>1, <1>2, RowsAreMain
  <2> QED BY <1>3, <1>7, <2>2, <2>3, LeftOutIsNear
<1>8. CASE dds # {} /\ \A i \in DOMAIN e.tokens : IsLookedAt(e.tokens[i])
  <2>1. spws = seen
    BY <1>4, <1>8
  <2>2. all = dds
    BY <2>1
  <2> QED BY <1>1, <1>2, <1>3, <1>8, <2>2, SameRowsAreNear
<1>9. CASE dds # {} /\ \E i \in DOMAIN e.tokens : ~IsLookedAt(e.tokens[i])
  <2>1. SelectsLess("spw", e)
    BY <1>1, <1>9 DEF SelectsLess
  <2>2. Having("dd", dds) \subseteq Filter("spw", e).rows
    BY <1>1, <1>2, <1>6 DEF Having
  <2> QED BY <1>3, <1>9, <2>1, <2>2, FewerRowsAreNear
<1> QED BY <1>7, <1>8, <1>9

\* A list in one of the categories that leave out an empty one.
LEMMA IdListsAgree ==
    ASSUME NEW c \in {"scan", "obs", "array", "state"}, NEW e, e.form = "list",
           Filter(c, e) = ListFilter(e, c), ToTaql(c, e) = IntExprToTaql(e, c), Filter(c, e).ok
    PROVE  Near(c, e)
<1>1. IsNumeric(e.tokens) /\ Filter(c, e).rows = Signed(e, Having(c, IdsOf(e.tokens)))
  BY DEF ListFilter, Accept, Refused
<1>2. CASE IdsOf(e.tokens) = {}
  <2>1. ToTaql(c, e) = Gives("nothing")
    BY <1>1, <1>2 DEF IntExprToTaql
  <2>2. HasNoClause(c, e) /\ SelectsMore(c, e)
    BY <1>1, <1>2 DEF HasNoClause, SelectsMore, NoIds
  <2>3. Filter(c, e).rows \subseteq MRows
    BY <1>1, RowsAreMain
  <2> QED BY <2>1, <2>2, <2>3, LeftOutIsNear
<1>3. CASE IdsOf(e.tokens) # {}
  <2>1. ToTaql(c, e) = Condition(Filter(c, e).rows)
    BY <1>1, <1>3 DEF IntExprToTaql
  <2> QED BY <2>1, SameRowsAreNear
<1> QED BY <1>2, <1>3

\* SCAN_NUMBER, OBSERVATION_ID and ARRAY_ID.
LEMMA IdsAgree ==
    ASSUME NEW c \in {"scan", "obs", "array"}, NEW e, e.form \in FormsOf(c), Filter(c, e).ok
    PROVE  Near(c, e)
<1>1. e.form \in {"list", "below", "above"} /\ Filter(c, e) = IdFilter(e, c) /\ ToTaql(c, e) = BoundOrList(e, c)
  <2>0. e.form \in {"list", "below", "above"}
    BY Forms
  <2>1. ~(e.form \in {"empty", "bad"}) /\ e.form # "bad" /\ e.form # "empty" /\ e # Unset
    BY <2>0 DEF Unset
  <2>2. Filter(c, e) = IdFilter(e, c)
    BY <2>1, Zenon DEF Filter
  <2>3. ToTaql(c, e) = BoundOrList(e, c)
    BY <2>1, Zenon DEF ToTaql
  <2> QED BY <2>0, <2>2, <2>3
<1>2. CASE e.form \in {"below", "above"}
  <2>1. ToTaql(c, e) = Condition(Filter(c, e).rows)
    BY <1>1, <1>2 DEF IdFilter, BoundOrList, Accept
  <2> QED BY <2>1, SameRowsAreNear
<1>3. CASE e.form = "list"
  <2>1. Filter(c, e) = ListFilter(e, c) /\ ToTaql(c, e) = IntExprToTaql(e, c)
    BY <1>1, <1>3 DEF IdFilter, BoundOrList
  <2> QED BY <1>3, <2>1, IdListsAgree
<1> QED BY <1>1, <1>2, <1>3

LEMMA StatesAgree ==
    ASSUME NEW e, e.form \in FormsOf("state"), Filter("state", e).ok
    PROVE  Near("state", e)
<1>1. e.form \in {"list", "pattern", "below", "above"} /\ Filter("state", e) = StateFilter(e) /\ ToTaql("state", e) = StateToTaql(e)
  <2>0. e.form \in {"list", "pattern", "below", "above"}
    BY Forms
  <2>1. ~(e.form \in {"empty", "bad"}) /\ e.form # "bad" /\ e.form # "empty" /\ e # Unset
    BY <2>0 DEF Unset
  <2>2. Filter("state", e) = StateFilter(e)
    BY <2>1, Zenon DEF Filter
  <2>3. ToTaql("state", e) = StateToTaql(e)
    BY <2>1, Zenon DEF ToTaql
  <2> QED BY <2>0, <2>2, <2>3
<1>2. CASE e.form \in {"below", "above"}
  <2>1. StateFilter(e).rows \subseteq Beyond(e, "state")
    BY <1>2 DEF StateFilter, Accept, Having, Beyond
  <2>2. ToTaql("state", e) = Condition(Beyond(e, "state"))
    BY <1>1, <1>2 DEF StateToTaql, BoundOrList
  <2>3. CASE BoundsAgree("state")
    <3>1. StateFilter(e).rows = Beyond(e, "state")
      BY <1>2, <2>3 DEF BoundsAgree, StateFilter, Accept, Having, Beyond
    <3> QED BY <1>1, <2>2, <3>1, SameRowsAreNear
  <2>4. CASE ~BoundsAgree("state")
    <3>1. SelectsMore("state", e)
      BY <1>2, <2>4 DEF SelectsMore
    <3> QED BY <1>1, <2>1, <2>2, <3>1, MoreRowsAreNear
  <2> QED BY <2>3, <2>4
<1>3. CASE e.form = "list"
  <2>1. Filter("state", e) = ListFilter(e, "state") /\ ToTaql("state", e) = IntExprToTaql(e, "state")
    BY <1>1, <1>3 DEF StateFilter, StateToTaql, BoundOrList
  <2> QED BY <1>3, <2>1, IdListsAgree
<1>4. CASE e.form = "pattern"
  <2>1. Filter("state", e).rows = Having("state", Matches("state", e.token))
    BY <1>1, <1>4 DEF StateFilter, Accept
  <2>2. CASE Matches("state", e.token) # {}
    <3>1. ToTaql("state", e) = Condition(Having("state", Matches("state", e.token)))
      BY <1>1, <1>4, <2>2 DEF StateToTaql
    <3> QED BY <2>1, <3>1, SameRowsAreNear
  <2>3. CASE Matches("state", e.token) = {}
    <3>1. ToTaql("state", e) = Gives("no condition")
      BY <1>1, <1>4, <2>3 DEF StateToTaql
    <3>2. SelectsMore("state", e)
      BY <1>4, <2>3 DEF SelectsMore
    <3>3. Filter("state", e).rows \subseteq MRows
      BY <2>1, RowsAreMain
    <3> QED BY <3>1, <3>2, <3>3, LeftOutIsNear
  <2> QED BY <2>2, <2>3
<1> QED BY <1>1, <1>2, <1>3, <1>4

\* Without the autocorrelations a pair finds no more rows.
LEMMA PairWithoutAuto ==
    ASSUME NEW e \in PairExpr, e.link = "&&", NEW x, NEW y
    PROVE  PairRows([e EXCEPT !.link = "&"], x, y) \subseteq PairRows(e, x, y)
<1> DEFINE f == [e EXCEPT !.link = "&"]
<1>1. f.lhs = e.lhs /\ f.rhs = e.rhs /\ f.link = "&"
  BY DEF PairExpr
<1> HIDE DEF f
<1>2. CASE e.rhs = {}
  <2>1. PairRows(f, x, y) = Having(x, {e.lhs}) \cup Having(y, {e.lhs})
    BY <1>1, <1>2 DEF PairRows
  <2>2. PairRows(e, x, y) = Having(x, {e.lhs}) \cup Having(y, {e.lhs})
    BY <1>2 DEF PairRows
  <2> QED BY <2>1, <2>2 DEF f
<1>3. CASE e.rhs # {}
  <2> DEFINE cross == (Having(x, {e.lhs}) \cap Having(y, e.rhs)) \cup (Having(x, e.rhs) \cap Having(y, {e.lhs}))
  <2>1. PairRows(f, x, y) = cross
    BY <1>1, <1>3 DEF PairRows
  <2>2. PairRows(e, x, y) = cross \cup (Having(x, {e.lhs}) \cap Having(y, {e.lhs}))
                                  \cup (Having(x, e.rhs) \cap Having(y, e.rhs))
    BY <1>3 DEF PairRows
  <2> QED BY <2>1, <2>2 DEF f
<1> QED BY <1>2, <1>3

LEMMA FeedsAgree ==
    ASSUME NEW e, e.form \in FormsOf("feed"), Filter("feed", e).ok, e.form = "pair" => e \in PairExpr
    PROVE  Near("feed", e)
<1>1. e.form \in {"pair", "list"} /\ Filter("feed", e) = FeedFilter(e) /\ ToTaql("feed", e) = FeedToTaql(e)
  <2>0. e.form \in {"pair", "list"}
    BY Forms
  <2>1. ~(e.form \in {"empty", "bad"}) /\ e.form # "bad" /\ e.form # "empty" /\ e # Unset
    BY <2>0 DEF Unset
  <2>2. Filter("feed", e) = FeedFilter(e)
    BY <2>1, Zenon DEF Filter
  <2>3. ToTaql("feed", e) = FeedToTaql(e)
    BY <2>1, Zenon DEF ToTaql
  <2> QED BY <2>0, <2>2, <2>3
<1>2. CASE e.form = "pair" /\ e.link # "&&"
  <2>1. [e EXCEPT !.link = IF @ = "&&" THEN "&" ELSE @] = e
    BY <1>2 DEF PairExpr
  <2>2. ToTaql("feed", e) = Condition(Filter("feed", e).rows)
    BY <1>1, <1>2, <2>1 DEF FeedFilter, FeedToTaql, PairToTaql, Accept
  <2> QED BY <2>2, SameRowsAreNear
<1>3. CASE e.form = "pair" /\ e.link = "&&"
  <2> DEFINE f == [e EXCEPT !.link = "&"]
  <2>1. e \in PairExpr /\ [e EXCEPT !.link = IF @ = "&&" THEN "&" ELSE @] = f /\ f.neg = e.neg
    BY <1>3 DEF PairExpr
  <2>2. PairRows(f, "feed1", "feed2") \subseteq PairRows(e, "feed1", "feed2")
    BY <1>3, <2>1, PairWithoutAuto
  <2>3. ToTaql("feed", e) = Condition(Signed(f, PairRows(f, "feed1", "feed2")))
    BY <1>1, <1>3, <2>1 DEF FeedToTaql, PairToTaql
  <2>4. Filter("feed", e).rows = Signed(e, PairRows(e, "feed1", "feed2"))
    BY <1>1, <1>3 DEF FeedFilter, Accept
  <2> HIDE DEF f
  <2>5. CASE e.neg
    <3>1. Filter("feed", e).rows \subseteq Signed(f, PairRows(f, "feed1", "feed2"))
      BY <2>1, <2>2, <2>4, <2>5 DEF Signed
    <3>2. SelectsMore("feed", e)
      BY <1>3, <2>5 DEF SelectsMore, IsFeedPairWithAuto
    <3> QED BY <2>3, <3>1, <3>2, MoreRowsAreNear
  <2>6. CASE ~e.neg
    <3>1. Signed(f, PairRows(f, "feed1", "feed2")) \subseteq Filter("feed", e).rows
      BY <2>1, <2>2, <2>4, <2>6 DEF Signed
    <3>2. SelectsLess("feed", e)
      BY <1>3, <2>6 DEF SelectsLess, IsFeedPairWithAuto
    <3> QED BY <2>3, <3>1, <3>2, FewerRowsAreNear
  <2> QED BY <2>5, <2>6
<1>4. CASE e.form = "list"
  <2>1. IsNumeric(e.tokens)
        /\ FeedFilter(e).rows = Signed(e, Having("feed1", IdsOf(e.tokens)) \cup Having("feed2", IdsOf(e.tokens)))
    BY <1>1, <1>4 DEF FeedFilter, Accept, Refused
  <2>2. CASE IdsOf(e.tokens) # {}
    <3>1. ToTaql("feed", e) = Condition(Filter("feed", e).rows)
      BY <1>1, <1>4, <2>1, <2>2 DEF FeedToTaql, InList
    <3> QED BY <3>1, SameRowsAreNear
  <2>3. CASE IdsOf(e.tokens) = {}
    <3>1. ToTaql("feed", e) = Gives("unparsable")
      BY <1>1, <1>4, <2>1, <2>3 DEF FeedToTaql, InList
    <3>2. HasNoClause("feed", e)
      BY <1>4, <2>1, <2>3 DEF HasNoClause, NoIds
    <3> QED BY <3>1, <3>2, NoClauseIsNear
  <2> QED BY <2>2, <2>3
<1> QED BY <1>1, <1>2, <1>3, <1>4

\* A condition on the uv distance is left out or cannot be evaluated.
LEMMA UvdistsAgree ==
    ASSUME NEW e, e.form \in FormsOf("uvdist"), Filter("uvdist", e).ok
    PROVE  Near("uvdist", e)
<1>1. Filter("uvdist", e) = RangeFilter(e, "uvdist", e.unit) /\ ToTaql("uvdist", e) = UvdistToTaql(e) /\ e # Unset
  <2>0. e.form \in {"above", "below", "between"}
    BY Forms
  <2>1. ~(e.form \in {"empty", "bad"}) /\ e.form # "bad" /\ e.form # "empty" /\ e # Unset
    BY <2>0 DEF Unset
  <2>2. Filter("uvdist", e) = RangeFilter(e, "uvdist", e.unit)
    BY <2>1, Zenon DEF Filter
  <2>3. ToTaql("uvdist", e) = UvdistToTaql(e)
    BY <2>1, Zenon DEF ToTaql
  <2> QED BY <2>1, <2>2, <2>3
<1>2. HasNoClause("uvdist", e) /\ SelectsMore("uvdist", e)
  BY <1>1 DEF HasNoClause, SelectsMore
<1>3. Filter("uvdist", e).rows \subseteq MRows
  BY <1>1 DEF RangeFilter, Accept
<1>4. CASE e.unit = 1
  BY <1>1, <1>2, <1>4, NoClauseIsNear DEF UvdistToTaql
<1>5. CASE e.unit # 1
  BY <1>1, <1>2, <1>3, <1>5, LeftOutIsNear DEF UvdistToTaql
<1> QED BY <1>4, <1>5

\* An expression that evaluate() accepts, of any category.
LEMMA ExpressionsAgree ==
    ASSUME NEW c \in Category, NEW e, e # Unset, e.form \in FormsOf(c) \cup {"empty", "bad"},
           Filter(c, e).ok, e.form = "pair" => e \in PairExpr
    PROVE  Near(c, e)
<1>1. e.form \in FormsOf(c)
  BY DEF Filter, Refused
<1>2. c \in {"antenna", "field", "spw", "scan", "time", "uvdist", "corr",
             "state", "obs", "array", "feed", "taql"}
  BY DEF Category, Categories
<1>3. CASE c = "time"
  <2>1. e.form \in {"above", "below", "between"}
    BY <1>1, <1>3, Forms
  <2>2. ToTaql(c, e) = Condition(Filter(c, e).rows)
    BY <1>3, <2>1 DEF Filter, ToTaql
  <2> QED BY <2>2, SameRowsAreNear
<1>4. CASE c = "corr"
  <2>1. e.form = "names"
    BY <1>1, <1>4, Forms
  <2>2. ToTaql(c, e) = Gives("no condition") /\ Filter(c, e).rows = MRows
    BY <1>4, <2>1 DEF Filter, ToTaql, Accept
  <2> QED BY <2>2, LeftOutIsNear
<1>5. CASE c = "taql"
  <2>1. e.form = "where"
    BY <1>1, <1>5, Forms
  <2>2. ToTaql(c, e) = Condition(Filter(c, e).rows)
    BY <1>5, <2>1 DEF Filter, ToTaql, Accept
  <2> QED BY <2>2, SameRowsAreNear
<1> QED BY <1>1, <1>2, <1>3, <1>4, <1>5, AntennasAgree, FieldsAgree, SpwsAgree, IdsAgree,
           StatesAgree, FeedsAgree, UvdistsAgree

----------------------------------------------------------------------------
(* MsSelection: what evaluate() has done after so many categories.         *)

Active(i) == expr[Categories[i]] # Unset /\ Categories[i] \notin errors
RowsOf(i) == Filter(Categories[i], expr[Categories[i]]).rows

\* Up to the category to evaluate next, the selected rows meet each expression
\* that was not refused; only categories before it were, and an exception has
\* ended the call unless errors are collected.
SelectionInv ==
    /\ at \in 0..Threw
    /\ at = 0 => selected = MRows /\ errors = {}
    /\ at # 0 => expr \in Selections
    /\ at \in 1..(Threw - 1) =>
        /\ selected = {r \in MRows : \A i \in 1..(at - 1) : Active(i) => r \in RowsOf(i)}
        /\ \A c \in errors : \E i \in 1..(at - 1) : c = Categories[i]
        /\ \A i \in 1..(at - 1) : Active(i) => Filter(Categories[i], expr[Categories[i]]).ok
    /\ errors # {} /\ ~collect => at = Threw

LEMMA CategoriesAre ==
    /\ DOMAIN Categories = 1..12 /\ Len(Categories) = 12
    /\ \A i, j \in 1..12 : Categories[i] = Categories[j] => i = j
    /\ Category = {Categories[i] : i \in 1..12}
<1>1. DOMAIN Categories = 1..12 /\ Len(Categories) = 12
  BY DEF Categories
<1>2. \A i \in 1..12 : i \in {1, 2, 3, 4, 5, 6, 7, 8, 9, 10, 11, 12}
  OBVIOUS
<1>3. ASSUME NEW i \in 1..12, NEW j \in 1..12, Categories[i] = Categories[j] PROVE i = j
  BY <1>2, <1>3 DEF Categories
<1> QED BY <1>1, <1>3 DEF Category

LEMMA SelectionInitInv == SelectionInit => SelectionInv
BY DEF SelectionInit, SelectionInv, Threw

LEMMA StartEvaluateInv == SelectionInv /\ StartEvaluate => SelectionInv'
<1> SUFFICES ASSUME SelectionInv, StartEvaluate PROVE SelectionInv'
  OBVIOUS
<1>1. /\ at = 0 /\ at' = 1 /\ expr' \in Selections
      /\ selected' = MRows /\ errors' = {}
  BY DEF SelectionInv, StartEvaluate
<1>2. 1..(at' - 1) = {} /\ at' \in 0..Threw
  BY <1>1 DEF Threw
<1>3. selected' = {r \in MRows : \A i \in 1..(at' - 1) : Active(i)' => r \in RowsOf(i)'}
  BY <1>1, <1>2
<1> QED BY <1>1, <1>2, <1>3 DEF SelectionInv

\* The categories before the next one, and with it.
LEMMA OneMore ==
    ASSUME SelectionInv, at \in DOMAIN Categories
    PROVE  /\ at \in 1..12 /\ at - 1 \in Nat /\ at + 1 \in 2..13 /\ at \in 1..(Threw - 1)
           /\ \A i : i \in 1..at <=> i \in 1..(at - 1) \/ i = at
           /\ \A i \in 1..(at - 1) : i \in 1..12 /\ Categories[i] # Categories[at]
           /\ Categories[at] \in Category
           /\ Categories[at] \notin errors
<1>1. at \in 1..12
  BY CategoriesAre
<1>2. at - 1 \in Nat /\ at + 1 \in 2..13 /\ at \in 1..(Threw - 1)
  BY <1>1 DEF Threw
<1>3. \A i : i \in 1..at <=> i \in 1..(at - 1) \/ i = at
  BY <1>1
<1>4. \A i \in 1..(at - 1) : i \in 1..12 /\ i # at
  BY <1>1
<1>5. \A i \in 1..(at - 1) : i \in 1..12 /\ Categories[i] # Categories[at]
  BY <1>1, <1>4, CategoriesAre
<1>6. Categories[at] \notin errors
  BY <1>2, <1>5 DEF SelectionInv
<1> QED BY <1>1, <1>2, <1>3, <1>5, <1>6, CategoriesAre

LEMMA SkipCategoryInv == SelectionInv /\ SkipCategory => SelectionInv'
<1> SUFFICES ASSUME SelectionInv, SkipCategory PROVE SelectionInv'
  OBVIOUS
<1>1. /\ at \in DOMAIN Categories /\ expr[Categories[at]] = Unset /\ at' = at + 1
      /\ UNCHANGED <<expr, collect, selected, errors, listed>>
  BY DEF SkipCategory
<1>2. /\ at \in 1..12 /\ at + 1 \in 2..13 /\ at \in 1..(Threw - 1)
      /\ \A i : i \in 1..at <=> i \in 1..(at - 1) \/ i = at
  BY <1>1, OneMore
<1>3. at' - 1 = at /\ at' \in 1..(Threw - 1) /\ at # 0 /\ at # Threw
  BY <1>1, <1>2 DEF Threw
<1>4. \A i : Active(i)' = Active(i) /\ RowsOf(i)' = RowsOf(i)
  BY <1>1 DEF Active, RowsOf
<1>5. ~Active(at)
  BY <1>1 DEF Active
<1>6. /\ selected = {r \in MRows : \A i \in 1..(at - 1) : Active(i) => r \in RowsOf(i)}
      /\ \A c \in errors : \E i \in 1..(at - 1) : c = Categories[i]
      /\ \A i \in 1..(at - 1) : Active(i) => Filter(Categories[i], expr[Categories[i]]).ok
      /\ errors # {} => collect
  BY <1>2, <1>3 DEF SelectionInv
<1>7. selected' = {r \in MRows : \A i \in 1..(at' - 1) : Active(i)' => r \in RowsOf(i)'}
  <2>1. selected = {r \in MRows : \A i \in 1..at : Active(i) => r \in RowsOf(i)}
    BY <1>2, <1>5, <1>6
  <2> QED BY <1>1, <1>3, <1>4, <2>1
<1>8. \A c \in errors' : \E i \in 1..(at' - 1) : c = Categories[i]
  BY <1>1, <1>2, <1>3, <1>6
<1>9. \A i \in 1..(at' - 1) : Active(i)' => Filter(Categories[i], expr'[Categories[i]]).ok
  BY <1>1, <1>2, <1>3, <1>4, <1>5, <1>6
<1>10. expr' \in Selections /\ (errors' # {} => collect') /\ at' \in 0..Threw /\ at' # 0
  BY <1>1, <1>2, <1>3, <1>6 DEF SelectionInv, Threw
<1> QED BY <1>7, <1>8, <1>9, <1>10 DEF SelectionInv

LEMMA EvaluateCategoryInv == SelectionInv /\ EvaluateCategory => SelectionInv'
<1> SUFFICES ASSUME SelectionInv, EvaluateCategory PROVE SelectionInv'
  OBVIOUS
<1> DEFINE c == Categories[at]
           f == Filter(c, expr[c])
<1>1. /\ at \in DOMAIN Categories /\ expr[c] # Unset
      /\ selected' = IF f.ok THEN selected \cap f.rows ELSE selected
      /\ errors' = IF f.ok THEN errors ELSE errors \cup {c}
      /\ at' = IF f.ok \/ collect THEN at + 1 ELSE Threw
      /\ UNCHANGED <<expr, collect>>
  BY DEF EvaluateCategory
<1>2. /\ at \in 1..12 /\ at + 1 \in 2..13 /\ at \in 1..(Threw - 1)
      /\ \A i : i \in 1..at <=> i \in 1..(at - 1) \/ i = at
      /\ \A i \in 1..(at - 1) : i \in 1..12 /\ Categories[i] # c
      /\ c \notin errors
  BY <1>1, OneMore
<1>3. /\ selected = {r \in MRows : \A i \in 1..(at - 1) : Active(i) => r \in RowsOf(i)}
      /\ \A k \in errors : \E i \in 1..(at - 1) : k = Categories[i]
      /\ \A i \in 1..(at - 1) : Active(i) => Filter(Categories[i], expr[Categories[i]]).ok
      /\ errors # {} => collect
      /\ expr \in Selections
  BY <1>2 DEF SelectionInv, Threw
<1>4. CASE ~f.ok /\ ~collect
  <2>1. at' = Threw
    BY <1>1, <1>4
  <2> QED BY <1>1, <1>3, <2>1 DEF SelectionInv, Threw
<1>5. CASE f.ok \/ collect
  <2>1. at' - 1 = at /\ at' \in 1..(Threw - 1) /\ at' # 0 /\ at' # Threw /\ at' \in 0..Threw
    BY <1>1, <1>2, <1>5 DEF Threw
  <2>2. \A i \in 1..(at - 1) : Active(i)' <=> Active(i)
    BY <1>1, <1>2 DEF Active
  <2> PICK n \in 1..12 : n = at
    BY <1>2
  <2>3. Active(n)' <=> f.ok
    <3>1. Categories[n] = c
      OBVIOUS
    <3> QED BY <1>1, <1>2, <3>1 DEF Active
  <2>4. \A i : RowsOf(i)' = RowsOf(i)
    BY <1>1 DEF RowsOf
  <2>5. RowsOf(n) = f.rows
    BY DEF RowsOf
  <2>6. selected' = {r \in MRows : \A i \in 1..(at' - 1) : Active(i)' => r \in RowsOf(i)'}
    <3>1. {r \in MRows : \A i \in 1..at : Active(i)' => r \in RowsOf(i)}
            = {r \in selected : f.ok => r \in f.rows}
      BY <1>2, <1>3, <2>2, <2>3, <2>5
    <3>2. selected' = {r \in selected : f.ok => r \in f.rows}
      <4>1. CASE f.ok
        BY <1>1, <4>1
      <4>2. CASE ~f.ok
        BY <1>1, <4>2
      <4> QED BY <4>1, <4>2
    <3> QED BY <2>1, <2>4, <3>1, <3>2
  <2>7. \A k \in errors' : \E i \in 1..(at' - 1) : k = Categories[i]
    <3> SUFFICES ASSUME NEW k \in errors' PROVE \E i \in 1..at : k = Categories[i]
      BY <2>1
    <3>1. k \in errors \/ k = c
      BY <1>1
    <3> QED BY <1>2, <1>3, <3>1
  <2>8. \A i \in 1..(at' - 1) : Active(i)' => Filter(Categories[i], expr'[Categories[i]]).ok
    <3> SUFFICES ASSUME NEW i \in 1..at, Active(i)' PROVE Filter(Categories[i], expr[Categories[i]]).ok
      BY <1>1, <2>1
    <3>1. CASE i \in 1..(at - 1)
      BY <1>3, <2>2, <3>1
    <3>2. CASE i = n
      BY <2>3, <3>2
    <3> QED BY <1>2, <3>1, <3>2
  <2>9. errors' # {} => collect'
    BY <1>1, <1>3, <1>5
  <2> QED BY <1>1, <1>3, <2>1, <2>6, <2>7, <2>8, <2>9 DEF SelectionInv
<1> QED BY <1>4, <1>5

LEMMA SelectionAlways == SelectionSpec => []SelectionInv
<1>1. SelectionInit => SelectionInv
  BY SelectionInitInv
<1>2. SelectionInv /\ [SelectionNext]_selectionVars => SelectionInv'
  <2> SUFFICES ASSUME SelectionInv, [SelectionNext]_selectionVars PROVE SelectionInv'
    OBVIOUS
  <2>1. CASE StartEvaluate
    BY <2>1, StartEvaluateInv
  <2>2. CASE SkipCategory
    BY <2>2, SkipCategoryInv
  <2>3. CASE EvaluateCategory
    BY <2>3, EvaluateCategoryInv
  <2>4. CASE UNCHANGED selectionVars
    <3>1. UNCHANGED <<expr, collect, at, selected, errors>>
      BY <2>4 DEF selectionVars
    <3>2. \A i : Active(i)' = Active(i) /\ RowsOf(i)' = RowsOf(i)
      BY <3>1 DEF Active, RowsOf
    <3> QED BY <3>1, <3>2 DEF SelectionInv
  <2> QED BY <2>1, <2>2, <2>3, <2>4 DEF SelectionNext
<1> QED BY <1>1, <1>2, PTL DEF SelectionSpec

----------------------------------------------------------------------------
(* MsSelection: the two ways of selecting.                                 *)

\* After the last category the prefix is all of them.
LEMMA AllCategories ==
    ASSUME SelectionInv, Evaluated
    PROVE  /\ expr \in Selections
           /\ selected = {r \in MRows : \A c \in Category :
                    expr[c] # Unset /\ c \notin errors => r \in Filter(c, expr[c]).rows}
           /\ \A c \in Category : expr[c] # Unset /\ c \notin errors => Filter(c, expr[c]).ok
<1>1. at = 13 /\ at - 1 = 12 /\ at \in 1..(Threw - 1) /\ at # 0
  BY CategoriesAre DEF Evaluated, Threw
<1>2. /\ selected = {r \in MRows : \A i \in 1..12 : Active(i) => r \in RowsOf(i)}
      /\ \A i \in 1..12 : Active(i) => Filter(Categories[i], expr[Categories[i]]).ok
      /\ expr \in Selections
  BY <1>1 DEF SelectionInv
<1>3. {r \in MRows : \A i \in 1..12 : Active(i) => r \in RowsOf(i)}
        = {r \in MRows : \A c \in Category :
                expr[c] # Unset /\ c \notin errors => r \in Filter(c, expr[c]).rows}
  BY CategoriesAre DEF Active, RowsOf
<1>4. \A c \in Category : expr[c] # Unset /\ c \notin errors => Filter(c, expr[c]).ok
  BY <1>2, CategoriesAre DEF Active
<1> QED BY <1>2, <1>3, <1>4

\* No clause is written only for an expression that says so.
LEMMA ClauseWritten ==
    ASSUME NEW s, \A c \in Category :
               ToTaql(c, s[c]).gives \in {"nothing", "unparsable", "exception"} => HasNoClause(c, s[c]),
           \A c \in Category : s[c] = Unset => ToTaql(c, s[c]).gives = "no condition",
           ToTaqlWhere(s).gives # "condition"
    PROVE  \E c \in Category : s[c] # Unset /\ HasNoClause(c, s[c])
<1> DEFINE Giving(what) == {c \in Category : ToTaql(c, s[c]).gives = what}
<1>1. CASE Giving("exception") = {} /\ Giving("unparsable") = {} /\ Giving("nothing") = {}
  <2>1. ToTaqlWhere(s) = Condition({r \in MRows : \A c \in Giving("condition") : r \in ToTaql(c, s[c]).rows})
    BY <1>1 DEF ToTaqlWhere
  <2> QED BY <2>1, WhatIsGiven
<1>2. ASSUME NEW c \in Giving("exception") \cup Giving("unparsable") \cup Giving("nothing")
      PROVE  \E d \in Category : s[d] # Unset /\ HasNoClause(d, s[d])
  <2>1. c \in Category /\ ToTaql(c, s[c]).gives \in {"nothing", "unparsable", "exception"}
    BY <1>2
  <2> QED BY <2>1
<1> QED BY <1>1, <1>2

\* When one is written, its rows are those that every category lets through.
LEMMA ClauseRows ==
    ASSUME NEW s, ToTaqlWhere(s).gives = "condition",
           \A c \in Category : ToTaql(c, s[c]).gives # "condition" => ToTaql(c, s[c]).rows = MRows
    PROVE  /\ ToTaqlWhere(s).rows = {r \in MRows : \A c \in Category : r \in ToTaql(c, s[c]).rows}
           /\ \A c \in Category : ToTaql(c, s[c]).gives \notin {"unparsable", "exception"}
<1> DEFINE Giving(what) == {c \in Category : ToTaql(c, s[c]).gives = what}
           written == Giving("condition") \cup Giving("nothing") \cup Giving("unparsable")
           refused == \/ Giving("exception") # {} \/ Giving("unparsable") # {}
                      \/ Giving("nothing") # {} /\ Cardinality(written) > 1
           rows == {r \in MRows : \A c \in Giving("condition") : r \in ToTaql(c, s[c]).rows}
<1>1. ToTaqlWhere(s) = IF refused THEN Gives("exception") ELSE Condition(rows)
  BY DEF ToTaqlWhere
<1> HIDE DEF refused, rows
<1>2. ~refused /\ ToTaqlWhere(s).rows = rows
  BY <1>1, WhatIsGiven
<1>3. Giving("exception") = {} /\ Giving("unparsable") = {}
  BY <1>2 DEF refused
<1>4. rows = {r \in MRows : \A c \in Category : r \in ToTaql(c, s[c]).rows}
  BY DEF rows
<1> QED BY <1>2, <1>3, <1>4

LEMMA ConversionAgrees == SelectionInv => SelectionsAreExact
<1> SUFFICES ASSUME SelectionInv, Evaluated, errors = {}
             PROVE  IF ToTaqlWhere(expr).gives = "condition"
                    THEN /\ (\A c \in Category : ~SelectsLess(c, expr[c])) =>
                                selected \subseteq ToTaqlWhere(expr).rows
                         /\ (\A c \in Category : ~SelectsMore(c, expr[c])) =>
                                ToTaqlWhere(expr).rows \subseteq selected
                    ELSE \E c \in Category : expr[c] # Unset /\ HasNoClause(c, expr[c])
  BY DEF SelectionsAreExact
<1>1. /\ expr \in Selections
      /\ selected = {r \in MRows : \A c \in Category : expr[c] # Unset => r \in Filter(c, expr[c]).rows}
      /\ \A c \in Category : expr[c] # Unset => Filter(c, expr[c]).ok
  BY AllCategories
<1>2. ASSUME NEW c \in Category, expr[c] = Unset
      PROVE  ToTaql(c, expr[c]).gives = "no condition" /\ ToTaql(c, expr[c]).rows = MRows
  <2>1. ToTaql(c, expr[c]) = Gives("no condition")
    BY <1>2, Zenon DEF ToTaql
  <2> QED BY <2>1, WhatIsGiven
<1>3. ASSUME NEW c \in Category, expr[c] # Unset PROVE Near(c, expr[c])
  <2>1. /\ expr[c].form \in FormsOf(c) \cup {"empty", "bad"}
        /\ expr[c].form = "pair" => expr[c] \in PairExpr
    BY <1>1, <1>3, MsSelectionAssumption
  <2>2. Filter(c, expr[c]).ok
    BY <1>1, <1>3
  <2> QED BY <1>3, <2>1, <2>2, ExpressionsAgree
<1>4. \A c \in Category :
        ToTaql(c, expr[c]).gives \in {"nothing", "unparsable", "exception"} => HasNoClause(c, expr[c])
  BY <1>2, <1>3 DEF Near
<1>5. \A c \in Category : ToTaql(c, expr[c]).gives # "condition" => ToTaql(c, expr[c]).rows = MRows
  BY <1>2, <1>3 DEF Near
<1>6. CASE ToTaqlWhere(expr).gives # "condition"
  <2>1. \A c \in Category : expr[c] = Unset => ToTaql(c, expr[c]).gives = "no condition"
    BY <1>2
  <2> QED BY <1>4, <1>6, <2>1, ClauseWritten
<1>7. CASE ToTaqlWhere(expr).gives = "condition"
  <2>1. /\ ToTaqlWhere(expr).rows = {r \in MRows : \A c \in Category : r \in ToTaql(c, expr[c]).rows}
        /\ \A c \in Category : ToTaql(c, expr[c]).gives \notin {"unparsable", "exception"}
    BY <1>5, <1>7, ClauseRows
  <2>2. ASSUME \A c \in Category : ~SelectsLess(c, expr[c]), NEW r \in selected, NEW c \in Category
        PROVE  r \in ToTaql(c, expr[c]).rows
    <3>1. CASE expr[c] = Unset
      BY <1>1, <1>2, <2>2, <3>1
    <3>2. CASE expr[c] # Unset
      <4>1. Filter(c, expr[c]).rows \subseteq ToTaql(c, expr[c]).rows
        BY <1>3, <2>1, <2>2, <3>2 DEF Near
      <4> QED BY <1>1, <2>2, <3>2, <4>1
    <3> QED BY <3>1, <3>2
  <2>3. ASSUME \A c \in Category : ~SelectsMore(c, expr[c]), NEW r \in ToTaqlWhere(expr).rows,
               NEW c \in Category, expr[c] # Unset
        PROVE  r \in Filter(c, expr[c]).rows
    <3>1. ToTaql(c, expr[c]).rows \subseteq Filter(c, expr[c]).rows
      BY <1>3, <2>1, <2>3 DEF Near
    <3> QED BY <2>1, <2>3, <3>1
  <2>4. selected \subseteq MRows /\ ToTaqlWhere(expr).rows \subseteq MRows
    BY <1>1, <2>1
  <2> QED BY <1>1, <1>7, <2>1, <2>2, <2>3, <2>4
<1> QED BY <1>6, <1>7

\* For any MeasurementSet and any selections: the rows that evaluate() selects
\* and those that the WHERE clause does differ only in the named direction and for
\* a named reason, and only for one of these no clause is written
\* (ms_selection.cpp:446-1371, 1421-1803).
THEOREM SelectionsAlwaysExact == SelectionSpec => []SelectionsAreExact
<1>1. SelectionInv => SelectionsAreExact
  BY ConversionAgrees
<1> QED BY <1>1, SelectionAlways, PTL
=============================================================================
