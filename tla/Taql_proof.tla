---------------------------- MODULE Taql_proof ----------------------------
(***************************************************************************)
(* Proofs about TaqlStatements and TableViews: what a statement that ran to *)
(* its end, or was stopped, has done to the rows; what an index, an         *)
(* iterator and a concatenation lead to, however the table moves.           *)
(***************************************************************************)
EXTENDS TaqlStatements, TableViews, SequenceTheorems, FiniteSetTheorems, WellFoundedInduction,
    TLAPS

----------------------------------------------------------------------------
(* Induction on natural numbers, as the existence of a least one.          *)

LessThan == {ss \in Nat \X Nat : ss[1] < ss[2]}

LEMMA LessThanWellFounded == IsWellFoundedOn(LessThan, Nat)
<1>1. LessThan = OpToRel(<, Nat)
  BY Zenon DEF OpToRel, LessThan
<1>2. IsWellFoundedOn(OpToRel(<, Nat), Nat)
  BY NatLessThanWellFounded
<1> QED BY <1>1, <1>2

\* A set of natural numbers that is not empty has a least element.
LEMMA LeastNat ==
    ASSUME NEW T, T \subseteq Nat, T # {}
    PROVE  \E x \in T : \A y \in T : x <= y
<1>1. PICK x \in T : \A y \in T : ~ (<<y, x>> \in LessThan)
  BY LessThanWellFounded, WFMin
<1>2. \A y \in T : x <= y
  <2> TAKE y \in T
  <2>1. x \in Nat /\ y \in Nat
    OBVIOUS
  <2>2. y < x => <<y, x>> \in LessThan
    BY <2>1 DEF LessThan
  <2> QED BY <1>1, <2>1, <2>2
<1> QED BY <1>2

----------------------------------------------------------------------------
(* Finite sets of integers: least and greatest elements, and their order.  *)

\* A finite set of integers that is not empty has a greatest element.
LEMMA GreatestInt ==
    ASSUME NEW S \in SUBSET Int, IsFiniteSet(S), S # {}
    PROVE  \E m \in S : \A x \in S : x <= m
<1> DEFINE Lacks(U) == U # {} /\ ~ \E m \in U : \A x \in U : x <= m
           T == {n \in Nat : \E U \in SUBSET Int : IsFiniteSet(U) /\ Cardinality(U) = n /\ Lacks(U)}
<1>1. SUFFICES ASSUME Lacks(S) PROVE FALSE
  OBVIOUS
<1>2. Cardinality(S) \in T
  BY <1>1, FS_CardinalityType
<1>3. T \subseteq Nat /\ T # {}
  BY <1>2
<1>4. \A n \in T : \E U \in SUBSET Int : IsFiniteSet(U) /\ Cardinality(U) = n /\ Lacks(U)
  OBVIOUS
<1>5. \A U \in SUBSET Int : IsFiniteSet(U) /\ Lacks(U) => Cardinality(U) \in T
  BY FS_CardinalityType
<1> HIDE DEF T
<1>6. PICK n \in T : \A k \in T : n <= k
  BY <1>3, LeastNat
<1>7. PICK U \in SUBSET Int : IsFiniteSet(U) /\ Cardinality(U) = n /\ Lacks(U)
  BY <1>4
<1>8. PICK u \in U : TRUE
  BY <1>7
<1>9. IsFiniteSet(U \ {u}) /\ Cardinality(U \ {u}) = n - 1
  BY <1>7, <1>8, FS_RemoveElement
<1>10. n \in Nat
  BY <1>3
<1>11. ~ Lacks(U \ {u})
  <2>1. ~ (n - 1 \in T)
    BY <1>6, <1>10
  <2>2. U \ {u} \in SUBSET Int
    OBVIOUS
  <2> QED BY <1>5, <1>9, <2>1, <2>2
<1>12. CASE U \ {u} = {}
  <2>1. \A x \in U : x <= u
    BY <1>12
  <2> QED BY <1>7, <1>8, <2>1
<1>13. CASE U \ {u} # {}
  <2>1. PICK m \in U \ {u} : \A x \in U \ {u} : x <= m
    BY <1>11, <1>13
  <2>2. m \in Int /\ u \in Int
    OBVIOUS
  <2>3. CASE u <= m
    <3>1. \A x \in U : x <= m
      BY <2>1, <2>3
    <3> QED BY <1>7, <3>1
  <2>4. CASE m <= u
    <3>1. \A x \in U : x <= u
      <4> TAKE x \in U
      <4>1. x = u \/ x <= m
        BY <2>1
      <4> QED BY <2>2, <2>4, <4>1
    <3> QED BY <1>7, <1>8, <3>1
  <2> QED BY <2>2, <2>3, <2>4
<1> QED BY <1>12, <1>13

IsInOrder(s) == \A i, j \in DOMAIN s : i < j => s[i] < s[j]

\* A finite set of integers can be enumerated in ascending order.
LEMMA OrderExists ==
    ASSUME NEW S \in SUBSET Int, IsFiniteSet(S)
    PROVE  \E s \in SetToSeqs(S) : IsInOrder(s)
<1> DEFINE Lacks(U) == ~ \E s \in SetToSeqs(U) : IsInOrder(s)
           T == {n \in Nat : \E U \in SUBSET Int : IsFiniteSet(U) /\ Cardinality(U) = n /\ Lacks(U)}
<1>1. SUFFICES ASSUME Lacks(S) PROVE FALSE
  OBVIOUS
<1>2. Cardinality(S) \in T
  BY <1>1, FS_CardinalityType
<1>3. T \subseteq Nat /\ T # {}
  BY <1>2
<1>4. \A n \in T : \E U \in SUBSET Int : IsFiniteSet(U) /\ Cardinality(U) = n /\ Lacks(U)
  OBVIOUS
<1>5. \A U \in SUBSET Int : IsFiniteSet(U) /\ Lacks(U) => Cardinality(U) \in T
  BY FS_CardinalityType
<1> HIDE DEF T
<1>6. PICK n \in T : \A k \in T : n <= k
  BY <1>3, LeastNat
<1>7. PICK U \in SUBSET Int : IsFiniteSet(U) /\ Cardinality(U) = n /\ Lacks(U)
  BY <1>4
<1>8. n \in Nat
  BY <1>3
<1>9. CASE U = {}
  <2>1. n = 0
    BY <1>7, <1>9, FS_EmptySet
  <2>2. <<>> \in [1..0 -> {}] /\ IsInOrder(<<>>) /\ DOMAIN <<>> = {}
    BY DEF IsInOrder
  <2>3. \A f \in [1..0 -> {}] : f \in SetToSeqs({})
    BY <1>7, <1>9, <2>1 DEF SetToSeqs
  <2> QED BY <1>7, <1>9, <2>2, <2>3
<1>10. CASE U # {}
  <2>1. PICK m \in U : \A x \in U : x <= m
    BY <1>7, <1>10, GreatestInt
  <2>2. IsFiniteSet(U \ {m}) /\ Cardinality(U \ {m}) = n - 1
    BY <1>7, <2>1, FS_RemoveElement
  <2>3. n - 1 \in Nat
    BY <2>2, FS_CardinalityType
  <2>4. ~ Lacks(U \ {m})
    <3>1. ~ (n - 1 \in T)
      BY <1>6, <1>8
    <3>2. U \ {m} \in SUBSET Int
      OBVIOUS
    <3> QED BY <1>5, <2>2, <3>1, <3>2
  <2>5. PICK s \in SetToSeqs(U \ {m}) : IsInOrder(s)
    BY <2>4
  <2>6. /\ s \in [1..(n - 1) -> U \ {m}]
        /\ \A i, j \in 1..(n - 1) : i < j => s[i] < s[j]
    BY <2>2, <2>5 DEF SetToSeqs, IsInOrder
  <2> DEFINE t == [i \in 1..n |-> IF i = n THEN m ELSE s[i]]
  <2>7. \A i \in 1..n : i = n \/ i \in 1..(n - 1)
    BY <1>8
  <2>8. t \in [1..n -> U]
    BY <2>1, <2>6, <2>7
  <2>9. \A i, j \in 1..n : i < j => t[i] < t[j]
    <3> SUFFICES ASSUME NEW i \in 1..n, NEW j \in 1..n, i < j PROVE t[i] < t[j]
      OBVIOUS
    <3>1. i \in 1..(n - 1) /\ t[i] = s[i] /\ s[i] \in U /\ s[i] # m
      BY <1>8, <2>6
    <3>2. CASE j = n
      <4>1. t[j] = m
        BY <3>2
      <4>2. m \in Int /\ s[i] \in Int /\ s[i] <= m
        BY <2>1, <3>1
      <4> QED BY <3>1, <4>1, <4>2
    <3>3. CASE j # n
      BY <2>6, <2>7, <3>1, <3>3
    <3> QED BY <3>2, <3>3
  <2>10. \A i, j \in 1..n : i # j => t[i] # t[j]
    <3> SUFFICES ASSUME NEW i \in 1..n, NEW j \in 1..n, i # j PROVE t[i] # t[j]
      OBVIOUS
    <3>1. t[i] \in Int /\ t[j] \in Int
      BY <2>8
    <3> HIDE DEF t
    <3>2. i < j \/ j < i
      OBVIOUS
    <3> QED BY <2>9, <3>1, <3>2
  <2>11. t \in SetToSeqs(U)
    BY <1>7, <2>8, <2>10 DEF SetToSeqs
  <2>12. IsInOrder(t)
    BY <2>8, <2>9 DEF IsInOrder
  <2> QED BY <1>7, <2>11, <2>12
<1> QED BY <1>9, <1>10

\* The order in which a map is walked has each key once, and ascends.
LEMMA InOrderEnumerates ==
    ASSUME NEW S \in SUBSET Int, IsFiniteSet(S)
    PROVE  /\ InOrder(S) \in [1..Cardinality(S) -> S]
           /\ \A i, j \in 1..Cardinality(S) : i < j => InOrder(S)[i] < InOrder(S)[j]
           /\ \A x \in S : \E i \in 1..Cardinality(S) : InOrder(S)[i] = x
           /\ Range(InOrder(S)) = S
<1> DEFINE n == Cardinality(S)
           s == InOrder(S)
<1>1. n \in Nat
  BY FS_CardinalityType
<1>2. s \in SetToSeqs(S) /\ IsInOrder(s)
  BY OrderExists DEF InOrder, IsInOrder
<1>3. s \in [1..n -> S] /\ \A i, j \in 1..n : i # j => s[i] # s[j]
  BY <1>2 DEF SetToSeqs
<1>4. \A i, j \in 1..n : i < j => s[i] < s[j]
  BY <1>2, <1>3 DEF IsInOrder
<1>5. s \in Injection(1..n, S)
  BY <1>3 DEF Injection, IsInjective
<1>6. IsFiniteSet(1..n) /\ Cardinality(1..n) = n
  BY <1>1, FS_Interval
<1>7. s \in Surjection(1..n, S)
  BY <1>5, <1>6, FS_Injection
<1>8. \A x \in S : \E i \in 1..n : s[i] = x
  BY <1>7 DEF Surjection
<1>9. Range(s) = S
  BY <1>3, <1>8 DEF Range
<1> QED BY <1>3, <1>4, <1>8, <1>9

\* ... and is the only such sequence.
LEMMA InOrderIs ==
    ASSUME NEW S \in SUBSET Int, NEW n \in Nat, NEW s \in [1..n -> S],
           \A i, j \in 1..n : i < j => s[i] < s[j],
           \A x \in S : \E i \in 1..n : s[i] = x
    PROVE  /\ IsFiniteSet(S) /\ Cardinality(S) = n
           /\ InOrder(S) = s
<1>1. IsFiniteSet(1..n) /\ Cardinality(1..n) = n
  BY FS_Interval
<1>2. s \in Surjection(1..n, S)
  BY DEF Surjection
<1>3. s \in Injection(1..n, S)
  <2>1. \A i, j \in 1..n : s[i] = s[j] => i = j
    <3> SUFFICES ASSUME NEW i \in 1..n, NEW j \in 1..n, s[i] = s[j], i # j PROVE FALSE
      OBVIOUS
    <3>1. s[i] \in S /\ s[j] \in S /\ (i < j \/ j < i)
      OBVIOUS
    <3>2. s[i] \in Int /\ s[j] \in Int
      BY <3>1
    <3> QED BY <3>1, <3>2
  <2> QED BY <2>1 DEF Injection, IsInjective
<1>4. IsFiniteSet(S) /\ Cardinality(S) = n
  <2>1. s \in Bijection(1..n, S)
    BY <1>2, <1>3 DEF Bijection
  <2>2. ExistsBijection(1..n, S)
    BY <2>1 DEF ExistsBijection
  <2> QED BY <1>1, <2>2, FS_Bijection
<1>5. PICK t \in [1..n -> S] : /\ t = InOrder(S)
                               /\ \A i, j \in 1..n : i < j => t[i] < t[j]
                               /\ \A x \in S : \E i \in 1..n : t[i] = x
  BY <1>4, InOrderEnumerates
<1> DEFINE T == {i \in 1..n : s[i] # t[i]}
<1>6. T = {}
  <2>1. SUFFICES ASSUME T # {} PROVE FALSE
    OBVIOUS
  <2>2. T \subseteq Nat
    OBVIOUS
  <2>3. PICK i \in T : \A j \in T : i <= j
    BY <2>1, <2>2, LeastNat
  <2>7. i \in 1..n /\ s[i] # t[i]
    OBVIOUS
  <2>8. s[i] \in S /\ t[i] \in S
    BY <2>7
  <2>9. \A j \in 1..n : j < i => s[j] = t[j]
    <3> SUFFICES ASSUME NEW j \in 1..n, j < i, s[j] # t[j] PROVE FALSE
      OBVIOUS
    <3>1. j \in T
      OBVIOUS
    <3>2. i <= j
      BY <2>3, <3>1
    <3> QED BY <2>7, <3>2
  <2>4. i \in 1..n /\ s[i] # t[i] /\ s[i] \in Int /\ t[i] \in Int /\ \A j \in 1..n : j < i => s[j] = t[j]
    BY <2>7, <2>8, <2>9
  <2>5. ASSUME s[i] < t[i] PROVE FALSE
    <3>1. PICK j \in 1..n : t[j] = s[i]
      BY <1>5, <2>4
    <3>2. j < i
      <4>1. j = i \/ j < i \/ i < j
        BY <2>4
      <4>2. t[j] \in Int
        OBVIOUS
      <4>3. i < j => t[i] < t[j]
        BY <1>5, <2>4
      <4> QED BY <2>4, <2>5, <3>1, <4>1, <4>2, <4>3
    <3>3. s[j] < s[i] /\ s[j] = t[j] /\ s[j] \in Int
      BY <2>4, <3>2
    <3> QED BY <2>4, <3>1, <3>3
  <2>6. ASSUME t[i] < s[i] PROVE FALSE
    <3>1. PICK j \in 1..n : s[j] = t[i]
      BY <2>4
    <3>2. j < i
      <4>1. j = i \/ j < i \/ i < j
        BY <2>4
      <4>2. s[j] \in Int
        OBVIOUS
      <4>3. i < j => s[i] < s[j]
        BY <2>4
      <4> QED BY <2>4, <2>6, <3>1, <4>1, <4>2, <4>3
    <3>3. t[j] < t[i] /\ s[j] = t[j] /\ t[j] \in Int
      BY <1>5, <2>4, <3>2
    <3> QED BY <2>4, <3>1, <3>3
  <2> QED BY <2>4, <2>5, <2>6
<1>7. \A i \in 1..n : s[i] = t[i]
  BY <1>6
<1>8. s = t
  BY <1>7
<1> QED BY <1>4, <1>5, <1>8

\* Sets of row numbers are finite and have an order.
LEMMA RowsInOrder ==
    ASSUME NEW n \in Nat, NEW S \in SUBSET (1..n)
    PROVE  \E m \in 0..n : /\ IsFiniteSet(S) /\ Cardinality(S) = m
                           /\ InOrder(S) \in [1..m -> S] /\ Len(InOrder(S)) = m
                           /\ \A i, j \in 1..m : i < j => InOrder(S)[i] < InOrder(S)[j]
                           /\ \A x \in S : \E i \in 1..m : InOrder(S)[i] = x
                           /\ Range(InOrder(S)) = S
<1>1. IsFiniteSet(1..n) /\ Cardinality(1..n) = n
  BY FS_Interval
<1>2. IsFiniteSet(S) /\ Cardinality(S) <= n
  BY <1>1, FS_Subset
<1>3. PICK m \in Nat : m = Cardinality(S)
  BY <1>2, FS_CardinalityType
<1>4. S \in SUBSET Int
  OBVIOUS
<1>5. /\ InOrder(S) \in [1..m -> S]
      /\ \A i, j \in 1..m : i < j => InOrder(S)[i] < InOrder(S)[j]
      /\ \A x \in S : \E i \in 1..m : InOrder(S)[i] = x
      /\ Range(InOrder(S)) = S
  BY <1>2, <1>3, <1>4, InOrderEnumerates
<1>6. Len(InOrder(S)) = m
  BY <1>5
<1> QED BY <1>2, <1>3, <1>5, <1>6

\* The first members of a set are as many as their place says.
LEMMA FirstInOrder ==
    ASSUME NEW n \in Nat, NEW S \in SUBSET (1..n), NEW k \in 1..Cardinality(S)
    PROVE  Cardinality({q \in S : q <= InOrder(S)[k]}) = k
<1>1. PICK m \in 0..n : /\ IsFiniteSet(S) /\ Cardinality(S) = m
                        /\ InOrder(S) \in [1..m -> S]
                        /\ \A i, j \in 1..m : i < j => InOrder(S)[i] < InOrder(S)[j]
                        /\ \A x \in S : \E i \in 1..m : InOrder(S)[i] = x
  BY RowsInOrder
<1>2. PICK s \in [1..m -> S] : s = InOrder(S)
  BY <1>1
<1>3. /\ \A i, j \in 1..m : i < j => s[i] < s[j]
      /\ \A x \in S : \E i \in 1..m : s[i] = x
  BY <1>1, <1>2
<1>4. k \in 1..m /\ m \in Nat
  BY <1>1
<1>5. PICK F : F = {q \in S : q <= s[k]}
  OBVIOUS
<1>6. PICK f : f = [i \in 1..k |-> s[i]]
  OBVIOUS
<1>7. \A i \in 1..k : i \in 1..m /\ f[i] = s[i]
  BY <1>4, <1>6
<1>8. \A i \in 1..m : s[i] \in S
  OBVIOUS
<1>0. \A x \in S : x \in Int
  OBVIOUS
<1>9. \A i \in 1..m : s[i] \in Int
  BY <1>0, <1>8, Zenon
<1>10. ASSUME NEW i \in 1..k PROVE f[i] \in F
  <2>1. i \in 1..m /\ (i = k \/ i < k)
    BY <1>4
  <2>2. s[i] <= s[k]
    BY <1>3, <1>4, <1>9, <2>1
  <2>3. s[i] \in F
    BY <1>5, <1>8, <2>1, <2>2
  <2> QED BY <1>7, <2>3
<1>11. f \in [1..k -> F]
  BY <1>6, <1>7, <1>10
<1>12. \A i, j \in 1..k : i < j => f[i] < f[j]
  BY <1>3, <1>7
<1>13. ASSUME NEW x \in F PROVE \E i \in 1..k : f[i] = x
  <2>1. x \in S /\ x <= s[k]
    BY <1>5
  <2>2. PICK i \in 1..m : s[i] = x
    BY <1>3, <2>1
  <2>3. ~(k < i)
    <3>1. k < i => s[k] < s[i]
      BY <1>3, <1>4
    <3>2. s[i] \in Int /\ s[k] \in Int
      BY <1>4, <1>9
    <3> QED BY <2>1, <2>2, <3>1, <3>2
  <2>4. i \in 1..k
    BY <1>4, <2>3
  <2> QED BY <1>7, <2>2, <2>4
<1>14. F \in SUBSET Int /\ k \in Nat
  <2>1. \A x \in F : x \in Int
    BY <1>0, <1>5
  <2> QED BY <1>4, <2>1
<1>15. Cardinality(F) = k
  BY <1>11, <1>12, <1>13, <1>14, InOrderIs
<1> QED BY <1>2, <1>5, <1>15
----------------------------------------------------------------------------
(* Tables.                                                                 *)

\* A table of at most MaxRows rows is a sequence of rows.
LEMMA RowsAreSequences ==
    \A rows : rows \in Rows <=> rows \in Seq(Row) /\ Len(rows) <= MaxRows
<1>1. MaxRows \in Nat
  BY TableSessionAssumption
<1>2. ASSUME NEW rows \in Rows PROVE rows \in Seq(Row) /\ Len(rows) <= MaxRows
  <2>1. PICK m \in 0..MaxRows : rows \in [1..m -> Row]
    BY DEF Rows, BoundedSeq, SeqOf
  <2> QED BY <1>1, <2>1
<1>3. ASSUME NEW rows \in Seq(Row), Len(rows) <= MaxRows PROVE rows \in Rows
  <2>1. Len(rows) \in 0..MaxRows /\ rows \in [1..Len(rows) -> Row]
    BY <1>1, <1>3
  <2> QED BY <2>1 DEF Rows, BoundedSeq, SeqOf
<1> QED BY <1>2, <1>3

\* A finite set of integers has a greatest element, and Max is it.
LEMMA MaxIs ==
    ASSUME NEW S \in SUBSET Int, IsFiniteSet(S), S # {}
    PROVE  Max(S) \in S /\ \A x \in S : x <= Max(S)
<1>1. PICK m \in S : \A x \in S : x <= m
  BY GreatestInt
<1>2. \A x \in S : x \in Int
  OBVIOUS
<1>3. m \in S /\ \A x \in S : m >= x
  BY <1>1, <1>2
<1>4. Max(S) \in S /\ \A x \in S : Max(S) >= x
  BY <1>3, Zenon DEF Max
<1> QED BY <1>2, <1>4

\* A set of numbers in an interval has a greatest element.
LEMMA MaxBetween ==
    ASSUME NEW l \in Int, NEW h \in Int, NEW S \in SUBSET (l..h), S # {}
    PROVE  Max(S) \in S /\ Max(S) \in Int /\ l <= Max(S) /\ Max(S) <= h /\ \A x \in S : x <= Max(S)
<1>1. IsFiniteSet(l..h)
  BY FS_Interval
<1>2. IsFiniteSet(S)
  BY <1>1, FS_Subset
<1>3. S \in SUBSET Int
  OBVIOUS
<1>4. Max(S) \in S /\ \A x \in S : x <= Max(S)
  BY <1>2, <1>3, MaxIs
<1>5. Max(S) \in l..h
  BY <1>4
<1> QED BY <1>4, <1>5

\* The smaller of two numbers.
LEMMA MinOfTwo ==
    ASSUME NEW x \in Nat, NEW y \in Nat
    PROVE  Min({x, y}) = IF x <= y THEN x ELSE y
<1>1. PICK m : m = IF x <= y THEN x ELSE y
  OBVIOUS
<1>2. m \in {x, y} /\ \A z \in {x, y} : m =< z
  BY <1>1
<1>3. Min({x, y}) \in {x, y} /\ \A z \in {x, y} : Min({x, y}) =< z
  BY <1>2, Zenon DEF Min
<1> QED BY <1>1, <1>3

----------------------------------------------------------------------------
(* Views.                                                                  *)

RefViews == [kind : {"ref"}, rows : Seq(Nat)]
IteratorViews ==
    [kind : {"iterator"}, sorted : Seq(1..MaxRows), start : 0..MaxRows, end : 0..MaxRows,
     started : BOOLEAN, threw : BOOLEAN, group : {NoGroup} \cup Seq(1..MaxRows),
     seen : Seq(Seq(1..MaxRows))]
IndexViews ==
    [kind : {"index"}, rows : 0..MaxRows, built : Rows,
     entries : UNION {[keys -> Seq(1..MaxRows) \ {<<>>}] : keys \in SUBSET KeyVals}]
ConcatViews == [kind : {"concat"}, counts : Seq(Nat), starts : Seq(Nat), total : Nat]

\* The iterator has cut the sorted rows up to its end into groups.
IteratorInv(v) ==
    /\ v \in IteratorViews
    /\ IsInjective(v.sorted)
    /\ v.end <= Len(v.sorted)
    /\ ~v.started => v.end = 0
    /\ ~v.threw =>
        /\ v.started /\ v.start >= Len(v.sorted) => v.end = Len(v.sorted)
        /\ \E ends \in [0..Len(v.seen) -> 0..Len(v.sorted)] :
              /\ ends[0] = 0 /\ ends[Len(v.seen)] = v.end
              /\ \A i \in DOMAIN v.seen :
                    /\ ends[i - 1] < ends[i]
                    /\ v.seen[i] = SubSeq(v.sorted, ends[i - 1] + 1, ends[i])

RowsWithKey(rows, n, k) == InOrder({r \in 1..n : KeyOf(rows, r) = k})
EntriesOf(rows, n) == [k \in {KeyOf(rows, r) : r \in 1..n} |-> RowsWithKey(rows, n, k)]

\* The index is of the file it was built from, up to the rows it counts.
IndexInv(v) ==
    /\ v \in IndexViews
    /\ v.rows <= Len(v.built)
    /\ v.entries = EntriesOf(v.built, v.rows)

\* A concatenation is of three tables, each where the ones before it end.
ConcatInv(v) ==
    /\ v \in ConcatViews
    /\ Len(v.counts) = 3
    /\ v.starts = <<0, v.counts[1], v.counts[1] + v.counts[2]>>
    /\ v.total = v.counts[1] + v.counts[2] + v.counts[3]

ViewInv ==
    /\ SessionTypeOK
    /\ view = NoView \/ view \in RefViews \/ IteratorInv(view) \/ IndexInv(view) \/ ConcatInv(view)

LEMMA ViewTypes == ViewInv => ViewTypeOK
<1> SUFFICES ASSUME ViewInv PROVE ViewTypeOK
  OBVIOUS
<1>1. CASE view = NoView
  BY <1>1 DEF ViewTypeOK
<1>2. CASE view \in RefViews
  BY <1>2 DEF ViewTypeOK, RefViews
<1>3. CASE IteratorInv(view)
  BY <1>3 DEF ViewTypeOK, IteratorInv, IteratorViews
<1>4. CASE IndexInv(view)
  <2>1. view \in IndexViews
    BY <1>4 DEF IndexInv
  <2>2. PICK keys \in SUBSET KeyVals : view.entries \in [keys -> Seq(1..MaxRows) \ {<<>>}]
    BY <2>1 DEF IndexViews
  <2> QED BY <2>1, <2>2 DEF ViewTypeOK, IndexViews
<1>5. CASE ConcatInv(view)
  BY <1>5 DEF ViewTypeOK, ConcatInv, ConcatViews
<1> QED BY <1>1, <1>2, <1>3, <1>4, <1>5 DEF ViewInv

\* Each view is of the kind it says.
LEMMA KindsDiffer ==
    /\ \A v \in RefViews : v.kind = "ref"
    /\ \A v : IteratorInv(v) => v.kind = "iterator"
    /\ \A v : IndexInv(v) => v.kind = "index"
    /\ \A v : ConcatInv(v) => v.kind = "concat"
BY DEF RefViews, IteratorInv, IteratorViews, IndexInv, IndexViews, ConcatInv, ConcatViews

----------------------------------------------------------------------------
(* RefTable.                                                               *)

LEMMA NewRefTableStep ==
    ASSUME ViewInv, NEW n \in 0..MaxRows, NEW mask \in [1..n -> BOOLEAN], NewRefTable(mask)
    PROVE  ViewInv'
<1>1. PICK S : S = {r \in DOMAIN mask : mask[r]}
  OBVIOUS
<1>2. n \in Nat /\ S \in SUBSET (1..n)
  BY <1>1, TableSessionAssumption
<1>3. PICK m \in 0..n : InOrder(S) \in [1..m -> S]
  BY <1>2, RowsInOrder
<1>4. \A i \in 1..m : InOrder(S)[i] \in Nat
  <2>1. \A x \in S : x \in Nat
    BY <1>2
  <2> QED BY <1>3, <2>1, Zenon
<1>5. InOrder(S) \in [1..m -> Nat]
  BY <1>3, <1>4
<1>6. InOrder(S) \in Seq(Nat)
  BY <1>5
<1>7. view' = [kind |-> "ref", rows |-> InOrder(S)]
  BY <1>1, Zenon DEF NewRefTable
<1>8. view' \in RefViews
  BY <1>6, <1>7 DEF RefViews
<1>9. SessionTypeOK'
  BY DEF ViewInv, SessionTypeOK, NewRefTable, table
<1> QED BY <1>8, <1>9 DEF ViewInv

LEMMA RefTableAddRowStep ==
    ASSUME ViewInv, NEW r \in 1..MaxRows, RefTableAddRow(r)
    PROVE  ViewInv'
<1>1. view \in RefViews
  BY KindsDiffer DEF ViewInv, RefTableAddRow
<1>2. view.rows \in Seq(Nat) /\ r \in Nat
  BY <1>1 DEF RefViews
<1>3. Append(view.rows, r) \in Seq(Nat)
  BY <1>2
<1>4. view' = [view EXCEPT !.rows = Append(view.rows, r)]
  BY DEF RefTableAddRow
<1>5. view' \in RefViews
  BY <1>1, <1>3, <1>4 DEF RefViews
<1>6. SessionTypeOK'
  BY DEF ViewInv, SessionTypeOK, RefTableAddRow, table
<1> QED BY <1>5, <1>6 DEF ViewInv

----------------------------------------------------------------------------
(* TableIterator.                                                          *)

LEMMA NewTableIteratorStep ==
    ASSUME ViewInv, NewTableIterator
    PROVE  ViewInv'
<1>1. nrow \in Nat /\ nrow <= MaxRows /\ MaxRows \in Nat
  BY RowsAreSequences, TableSessionAssumption DEF ViewInv, SessionTypeOK, nrow
<1>2. PICK sorted \in SetToSeqs(1..nrow) :
        view' = [kind |-> "iterator", sorted |-> sorted, start |-> 0, end |-> 0,
                 started |-> FALSE, group |-> NoGroup, seen |-> <<>>, threw |-> FALSE]
  BY DEF NewTableIterator
<1>3. Cardinality(1..nrow) = nrow
  BY <1>1, FS_Interval
<1>4. sorted \in [1..nrow -> 1..nrow] /\ \A i, j \in 1..nrow : i # j => sorted[i] # sorted[j]
  BY <1>2, <1>3 DEF SetToSeqs
<1>5. IsInjective(sorted)
  BY <1>4 DEF IsInjective
<1>6. \A r \in 1..nrow : r \in 1..MaxRows
  BY <1>1
<1>7. sorted \in [1..nrow -> 1..MaxRows]
  BY <1>4, <1>6
<1>8. sorted \in Seq(1..MaxRows) /\ Len(sorted) = nrow
  BY <1>1, <1>7
<1>9. view' \in IteratorViews
  BY <1>1, <1>2, <1>8 DEF IteratorViews
<1>10. PICK ends : ends = [i \in 0..0 |-> 0]
  OBVIOUS
<1>11. ends \in [0..Len(<<>>) -> 0..Len(sorted)] /\ ends[0] = 0 /\ Len(<<>>) = 0 /\ DOMAIN <<>> = {}
  BY <1>1, <1>8, <1>10
<1>12. \E cut \in [0..Len(<<>>) -> 0..Len(sorted)] :
              /\ cut[0] = 0 /\ cut[Len(<<>>)] = 0
              /\ \A i \in DOMAIN <<>> :
                    /\ cut[i - 1] < cut[i]
                    /\ <<>>[i] = SubSeq(sorted, cut[i - 1] + 1, cut[i])
  BY <1>11
<1>13. IteratorInv(view')
  BY <1>1, <1>2, <1>5, <1>8, <1>9, <1>12 DEF IteratorInv
<1>14. SessionTypeOK'
  BY DEF ViewInv, SessionTypeOK, NewTableIterator, table
<1> QED BY <1>13, <1>14 DEF ViewInv

LEMMA ResetIteratorStep ==
    ASSUME ViewInv, ResetIterator
    PROVE  ViewInv'
<1>1. IteratorInv(view)
  BY KindsDiffer DEF ViewInv, ResetIterator
<1>2. view' = [view EXCEPT !.started = FALSE, !.start = 0, !.end = 0, !.group = NoGroup,
                           !.seen = <<>>, !.threw = FALSE]
  BY DEF ResetIterator
<1>3. view \in IteratorViews /\ IsInjective(view.sorted) /\ MaxRows \in Nat
  BY <1>1, TableSessionAssumption DEF IteratorInv
<1>4. /\ view' \in IteratorViews
      /\ view'.sorted = view.sorted /\ view'.end = 0 /\ view'.seen = <<>> /\ view'.started = FALSE
  <2>1. 0 \in 0..MaxRows /\ <<>> \in Seq(Seq(1..MaxRows))
    BY <1>3
  <2> QED BY <1>2, <1>3, <2>1 DEF IteratorViews
<1>5. Len(view.sorted) \in Nat
  BY <1>3 DEF IteratorViews
<1>6. PICK ends : ends = [i \in 0..0 |-> 0]
  OBVIOUS
<1>7. ends \in [0..Len(<<>>) -> 0..Len(view.sorted)] /\ ends[0] = 0 /\ Len(<<>>) = 0 /\ DOMAIN <<>> = {}
  BY <1>5, <1>6
<1>8. \E cut \in [0..Len(<<>>) -> 0..Len(view.sorted)] :
              /\ cut[0] = 0 /\ cut[Len(<<>>)] = 0
              /\ \A i \in DOMAIN <<>> :
                    /\ cut[i - 1] < cut[i]
                    /\ <<>>[i] = SubSeq(view.sorted, cut[i - 1] + 1, cut[i])
  BY <1>7
<1>9. IteratorInv(view')
  BY <1>3, <1>4, <1>5, <1>8 DEF IteratorInv
<1>10. SessionTypeOK'
  BY DEF ViewInv, SessionTypeOK, ResetIterator, table
<1> QED BY <1>9, <1>10 DEF ViewInv

\* A group that begins before the last row ends behind its first row, goes on
\* as long as the rows have its key, and stops at the first that has not.
LEMMA GroupEndIs ==
    ASSUME ViewInv, IteratorInv(view), NEW s \in Nat, s < Len(view.sorted)
    PROVE  /\ GroupEnd(s) \in Int
           /\ s < GroupEnd(s) /\ GroupEnd(s) <= Len(view.sorted)
           /\ \A i \in (s + 1)..(GroupEnd(s) - 1) : SameKey(view.sorted[s + 1], view.sorted[i + 1])
           /\ GroupEnd(s) < Len(view.sorted) /\ ~GroupThrows(s) =>
                ~SameKey(view.sorted[s + 1], view.sorted[GroupEnd(s) + 1])
<1> DEFINE same(i) == /\ Readable(view.sorted[s + 1])
                      /\ Readable(view.sorted[i + 1])
                      /\ SameKey(view.sorted[s + 1], view.sorted[i + 1])
<1>1. PICK n \in Nat : n = Len(view.sorted)
  BY DEF IteratorInv, IteratorViews
<1>2. PICK E : E = {e \in (s + 1)..n : \A i \in (s + 1)..(e - 1) : same(i)}
  OBVIOUS
<1>3. GroupEnd(s) = Max(E)
  BY <1>1, <1>2, Zenon DEF GroupEnd
<1>4. s + 1 \in E
  <2>1. s + 1 \in (s + 1)..n
    BY <1>1
  <2>2. ~ \E i : i \in (s + 1)..((s + 1) - 1)
    OBVIOUS
  <2> HIDE DEF same
  <2> QED BY <1>2, <2>1, <2>2, Zenon
<1>5. E \in SUBSET ((s + 1)..n)
  BY <1>2, Zenon
<1> HIDE DEF same
<1>6. /\ Max(E) \in E /\ Max(E) \in Int /\ s + 1 <= Max(E) /\ Max(E) <= n
      /\ \A x \in E : x <= Max(E)
  <2>1. E # {} /\ s + 1 \in Int /\ n \in Int
    BY <1>4
  <2> QED BY <1>5, <2>1, MaxBetween
<1>7. \A i \in (s + 1)..(Max(E) - 1) : same(i)
  BY <1>2, <1>6, Zenon
<1>8. ASSUME Max(E) < n, ~GroupThrows(s), SameKey(view.sorted[s + 1], view.sorted[Max(E) + 1])
      PROVE  FALSE
  <2>1. Readable(view.sorted[s + 1]) /\ Readable(view.sorted[Max(E) + 1])
    BY <1>1, <1>3, <1>8 DEF GroupThrows
  <2>2. same(Max(E))
    BY <1>8, <2>1 DEF same
  <2>3. Max(E) + 1 \in (s + 1)..n
    BY <1>6, <1>8
  <2>4. \A i \in (s + 1)..((Max(E) + 1) - 1) : i = Max(E) \/ i \in (s + 1)..(Max(E) - 1)
    BY <1>6
  <2>5. \A i \in (s + 1)..((Max(E) + 1) - 1) : same(i)
    BY <1>7, <2>2, <2>4, Zenon
  <2>6. Max(E) + 1 \in E
    BY <1>2, <2>3, <2>5, Zenon
  <2>7. Max(E) + 1 <= Max(E)
    BY <1>6, <2>6
  <2> QED BY <1>6, <2>7
<1>9. \A i \in (s + 1)..(Max(E) - 1) : SameKey(view.sorted[s + 1], view.sorted[i + 1])
  BY <1>7 DEF same
<1> QED BY <1>1, <1>3, <1>6, <1>8, <1>9

\* The step of next().
LEMMA NextGroupStep ==
    ASSUME ViewInv, NextGroup
    PROVE  ViewInv'
<1>1. IteratorInv(view)
  BY KindsDiffer DEF ViewInv, NextGroup
<1>2. view \in IteratorViews /\ IsInjective(view.sorted) /\ MaxRows \in Nat
  BY <1>1, TableSessionAssumption DEF IteratorInv
<1>3. SessionTypeOK'
  BY DEF ViewInv, SessionTypeOK, NextGroup, table
<1>4. PICK n \in Nat : n = Len(view.sorted)
  BY <1>2 DEF IteratorViews
<1>5. PICK s : s = GroupStart
  OBVIOUS
<1>6. s = view.end /\ s \in Nat /\ s <= n /\ s <= MaxRows
  BY <1>1, <1>2, <1>4, <1>5 DEF IteratorInv, IteratorViews, GroupStart
<1>7. CASE s >= n
  <2>1. view' = [view EXCEPT !.started = TRUE, !.start = s]
    BY <1>4, <1>5, <1>7 DEF NextGroup
  <2>2. /\ view' \in IteratorViews
        /\ view'.sorted = view.sorted /\ view'.end = view.end /\ view'.seen = view.seen
        /\ view'.threw = view.threw /\ view'.started = TRUE /\ view'.start = s
    BY <1>2, <1>6, <2>1 DEF IteratorViews
  <2>3. IteratorInv(view')
    BY <1>1, <1>4, <1>6, <1>7, <2>2 DEF IteratorInv
  <2> QED BY <1>3, <2>3 DEF ViewInv
<1>8. CASE ~(s >= n)
  <2>1. s < n
    BY <1>6, <1>8
  <2>2. PICK e \in Int : e = GroupEnd(s) /\ s < e /\ e <= n
    BY <1>1, <1>4, <1>6, <2>1, GroupEndIs
  <2>3. e \in 0..MaxRows /\ e \in 0..n
    <3>1. view.sorted \in Seq(1..MaxRows)
      BY <1>2 DEF IteratorViews
    <3>2. n <= MaxRows
      <4>1. view.sorted \in [1..n -> 1..MaxRows]
        BY <1>4, <3>1, LenProperties
      <4>2. view.sorted \in Injection(1..n, 1..MaxRows)
        BY <1>2, <4>1 DEF Injection
      <4>3. /\ IsFiniteSet(1..n) /\ Cardinality(1..n) = n
            /\ IsFiniteSet(1..MaxRows) /\ Cardinality(1..MaxRows) = MaxRows
        <5>1. 1 \in Int /\ n \in Int /\ MaxRows \in Int
          BY <1>2
        <5>2. IsFiniteSet(1..n) /\ Cardinality(1..n) = IF 1 > n THEN 0 ELSE n - 1 + 1
          BY <5>1, FS_Interval
        <5>3. IsFiniteSet(1..MaxRows) /\ Cardinality(1..MaxRows) = IF 1 > MaxRows THEN 0 ELSE MaxRows - 1 + 1
          BY <5>1, FS_Interval
        <5> QED BY <1>2, <5>2, <5>3
      <4>4. Cardinality(1..n) <= Cardinality(1..MaxRows)
        BY <4>2, <4>3, FS_Injection
      <4> QED BY <4>3, <4>4
    <3> QED BY <1>2, <1>4, <1>6, <2>2, <3>2
  <2>4. CASE GroupThrows(s)
    <3>1. view' = [view EXCEPT !.started = TRUE, !.start = s, !.end = e, !.threw = TRUE]
      BY <1>4, <1>5, <1>8, <2>2, <2>4 DEF NextGroup
    <3>2. /\ view' \in IteratorViews
          /\ view'.sorted = view.sorted /\ view'.end = e
          /\ view'.threw = TRUE /\ view'.started = TRUE
      BY <1>2, <1>6, <2>3, <3>1 DEF IteratorViews
    <3>3. IteratorInv(view')
      BY <1>2, <1>4, <2>2, <3>2 DEF IteratorInv
    <3> QED BY <1>3, <3>3 DEF ViewInv
  <2>5. CASE ~GroupThrows(s)
    <3>1. PICK group : group = SubSeq(view.sorted, s + 1, e)
      OBVIOUS
    <3>2. view' = [view EXCEPT !.started = TRUE, !.start = s, !.end = e, !.group = group,
                               !.seen = Append(view.seen, group)]
      BY <1>4, <1>5, <1>8, <2>2, <2>5, <3>1 DEF NextGroup
    <3>3. group \in Seq(1..MaxRows)
      <4>1. \A i \in (s + 1)..e : view.sorted[i] \in 1..MaxRows
        BY <1>2, <1>4, <1>6, <2>2 DEF IteratorViews
      <4>2. s + 1 \in Int
        BY <1>6
      <4> QED BY <2>2, <3>1, <4>1, <4>2, SubSeqProperties
    <3>4. view.seen \in Seq(Seq(1..MaxRows))
      BY <1>2 DEF IteratorViews
    <3>5. Append(view.seen, group) \in Seq(Seq(1..MaxRows))
      BY <3>3, <3>4
    <3>6. /\ view' \in IteratorViews
          /\ view'.sorted = view.sorted /\ view'.end = e
          /\ view'.threw = view.threw /\ view'.started = TRUE /\ view'.start = s
          /\ view'.seen = Append(view.seen, group)
      BY <1>2, <1>6, <2>3, <3>2, <3>3, <3>5 DEF IteratorViews
    <3>7. ASSUME ~view.threw
          PROVE  \E ends \in [0..Len(view'.seen) -> 0..Len(view'.sorted)] :
                    /\ ends[0] = 0 /\ ends[Len(view'.seen)] = view'.end
                    /\ \A i \in DOMAIN view'.seen :
                          /\ ends[i - 1] < ends[i]
                          /\ view'.seen[i] = SubSeq(view'.sorted, ends[i - 1] + 1, ends[i])
      <4>1. PICK m \in Nat : m = Len(view.seen)
        BY <3>4
      <4>2. PICK old \in [0..m -> 0..n] :
              /\ old[0] = 0 /\ old[m] = s
              /\ \A i \in DOMAIN view.seen :
                    /\ old[i - 1] < old[i]
                    /\ view.seen[i] = SubSeq(view.sorted, old[i - 1] + 1, old[i])
        BY <1>1, <1>4, <1>6, <3>7, <4>1 DEF IteratorInv
      <4>3. PICK ends : ends = [i \in 0..(m + 1) |-> IF i = m + 1 THEN e ELSE old[i]]
        OBVIOUS
      <4>4. /\ Len(view'.seen) = m + 1 /\ DOMAIN view'.seen = 1..(m + 1) /\ DOMAIN view.seen = 1..m
            /\ view'.seen[m + 1] = group /\ \A i \in 1..m : view'.seen[i] = view.seen[i]
        BY <3>3, <3>4, <3>6, <4>1
      <4>5. \A i \in 0..(m + 1) : i = m + 1 \/ i \in 0..m
        BY <4>1
      <4>6. ends[m + 1] = e /\ \A i \in 0..m : ends[i] = old[i]
        BY <4>1, <4>3
      <4>7. ends \in [0..(m + 1) -> 0..n]
        BY <2>3, <4>2, <4>3, <4>5
      <4>8. ASSUME NEW i \in 1..(m + 1)
            PROVE  ends[i - 1] < ends[i] /\ view'.seen[i] = SubSeq(view.sorted, ends[i - 1] + 1, ends[i])
        <5>1. CASE i = m + 1
          <6>1. ends[i - 1] = s /\ ends[i] = e
            BY <4>1, <4>2, <4>6, <5>1
          <6> QED BY <2>2, <3>1, <4>4, <5>1, <6>1
        <5>2. CASE i \in 1..m
          <6>1. ends[i - 1] = old[i - 1] /\ ends[i] = old[i]
            BY <4>1, <4>6, <5>2
          <6> QED BY <4>2, <4>4, <5>2, <6>1
        <5> QED BY <4>1, <5>1, <5>2
      <4>9. ends[0] = 0
        BY <4>1, <4>2, <4>6
      <4>10. view'.sorted = view.sorted /\ view'.end = e /\ Len(view'.sorted) = n
        BY <1>4, <3>6
      <4> QED BY <4>4, <4>6, <4>7, <4>8, <4>9, <4>10
    <3>8. ~(s >= Len(view'.sorted))
      BY <1>4, <1>8, <3>6
    <3>9. IteratorInv(view')
      BY <1>2, <1>4, <2>2, <3>6, <3>7, <3>8 DEF IteratorInv
    <3> QED BY <1>3, <3>9 DEF ViewInv
  <2> QED BY <2>4, <2>5
<1> QED BY <1>7, <1>8

----------------------------------------------------------------------------
(* ColumnsIndex.                                                           *)

\* Rows in order are a sequence of them, each once.
LEMMA RowsOfKey ==
    ASSUME NEW n \in Nat, NEW S \in SUBSET (1..n)
    PROVE  /\ IsFiniteSet(S) /\ Len(InOrder(S)) = Cardinality(S)
           /\ Range(InOrder(S)) = S
           /\ InOrder(S) \in Seq(1..n)
           /\ S # {} => InOrder(S) # <<>>
<1>3. PICK m \in 0..n : /\ IsFiniteSet(S) /\ Cardinality(S) = m
                        /\ InOrder(S) \in [1..m -> S] /\ Len(InOrder(S)) = m
                        /\ Range(InOrder(S)) = S
                        /\ \A x \in S : \E i \in 1..m : InOrder(S)[i] = x
  BY RowsInOrder
<1>4. InOrder(S) \in [1..m -> 1..n]
  <2>1. \A i \in 1..m : InOrder(S)[i] \in 1..n
    BY <1>3
  <2> QED BY <1>3, <2>1
<1>5. m \in Nat /\ InOrder(S) \in Seq(1..n)
  BY <1>3, <1>4
<1>6. ASSUME S # {} PROVE InOrder(S) # <<>>
  <2>1. PICK x \in S : TRUE
    BY <1>6
  <2>2. PICK i \in 1..m : InOrder(S)[i] = x
    BY <1>3
  <2>3. Len(InOrder(S)) # 0
    BY <1>3, <2>2
  <2> QED BY <2>3
<1> QED BY <1>3, <1>5, <1>6

\* What building an index gives, when it gets to row n of the file.
LEMMA BuiltIndex ==
    ASSUME ViewInv, NEW n \in Nat, n <= Len(file), NEW v, v.rows = n, v.built = file,
           DOMAIN v = {"kind", "entries", "rows", "built"},
           v = [x \in {"kind", "entries", "rows", "built"} |-> v[x]], v.kind = "index",
           v.entries = EntriesOf(file, n)
    PROVE  IndexInv(v)
<1>1. /\ file \in Seq(Row) /\ Len(file) \in Nat /\ Len(file) <= MaxRows /\ MaxRows \in Nat
      /\ file \in Rows
  BY RowsAreSequences, TableSessionAssumption DEF ViewInv, SessionTypeOK
<1>2. n \in 0..MaxRows /\ \A r \in 1..n : r \in 1..Len(file) /\ r \in 1..MaxRows
  BY <1>1
<1>3. PICK keys : keys = {KeyOf(file, r) : r \in 1..n}
  OBVIOUS
<1>4. ASSUME NEW r \in 1..n PROVE KeyOf(file, r) \in KeyVals
  <2>1. file[r] \in Row
    BY <1>1, <1>2
  <2>2. \A i \in DOMAIN Key : Key[i] \in Column
    BY ViewsAssumption
  <2>3. \A i \in DOMAIN Key : file[r][Key[i]] \in Val
    BY <2>1, <2>2 DEF Row
  <2> QED BY <2>3 DEF KeyOf, KeyVals
<1>5. keys \in SUBSET KeyVals
  BY <1>3, <1>4
<1>6. ASSUME NEW k \in keys
      PROVE  RowsWithKey(file, n, k) \in Seq(1..MaxRows) \ {<<>>}
  <2>1. PICK S : S = {r \in 1..n : KeyOf(file, r) = k}
    OBVIOUS
  <2>6. S \in SUBSET (1..n)
    BY <2>1, Zenon
  <2>2. InOrder(S) \in Seq(1..n) /\ (S # {} => InOrder(S) # <<>>)
    BY <2>6, RowsOfKey
  <2>3. S # {}
    BY <1>3, <2>1
  <2>4. 1..n \subseteq 1..MaxRows
    BY <1>2
  <2>5. InOrder(S) \in Seq(1..MaxRows)
    BY <2>2, <2>4, SeqMonotonic
  <2>7. RowsWithKey(file, n, k) = InOrder(S)
    BY <2>1, Zenon DEF RowsWithKey
  <2> QED BY <2>2, <2>3, <2>5, <2>7
<1>7. v.entries = [k \in keys |-> RowsWithKey(file, n, k)]
  BY <1>3, Zenon DEF EntriesOf
<1>8. v.entries \in [keys -> Seq(1..MaxRows) \ {<<>>}]
  BY <1>6, <1>7
<1>9. v.entries \in UNION {[D -> Seq(1..MaxRows) \ {<<>>}] : D \in SUBSET KeyVals}
  BY <1>5, <1>8, Zenon
<1>10. v \in IndexViews
  BY <1>1, <1>2, <1>9 DEF IndexViews
<1>11. v.entries = EntriesOf(v.built, v.rows)
  BY Zenon
<1>12. v.rows <= Len(v.built)
  OBVIOUS
<1> QED BY <1>10, <1>11, <1>12, Zenon DEF IndexInv

LEMMA IndexedRows ==
    ASSUME ViewInv
    PROVE  \E n \in Nat : /\ n <= Len(file) /\ Indexed = 1..n /\ Cardinality(Indexed) = n
                          /\ nrow <= Len(file) => n = nrow
<1>1. nrow \in Nat /\ Len(file) \in Nat
  BY RowsAreSequences DEF ViewInv, SessionTypeOK, nrow
<1>2. PICK n : n = Min({nrow, Len(file)})
  OBVIOUS
<1>3. n = IF nrow <= Len(file) THEN nrow ELSE Len(file)
  BY <1>1, <1>2, MinOfTwo
<1>4. n \in Nat /\ n <= Len(file) /\ (nrow <= Len(file) => n = nrow)
  BY <1>1, <1>3
<1>5. Indexed = 1..n
  BY <1>2 DEF Indexed
<1>6. Cardinality(1..n) = n
  BY <1>4, FS_Interval
<1> QED BY <1>4, <1>5, <1>6

LEMMA NewColumnsIndexStep ==
    ASSUME ViewInv, NewColumnsIndex
    PROVE  ViewInv'
<1>1. PICK n \in Nat : n <= Len(file) /\ Indexed = 1..n /\ n = nrow
  BY IndexedRows DEF NewColumnsIndex
<1>2. PICK v : v = [kind |-> "index", entries |-> Entries(NoEntries), rows |-> n, built |-> file]
  OBVIOUS
<1>3. view' = v
  BY <1>1, <1>2, Zenon DEF NewColumnsIndex
<1>4. Entries(NoEntries) = EntriesOf(file, n)
  BY <1>1, Zenon DEF Entries, EntriesOf, RowsWithKey
<1>5. /\ DOMAIN v = {"kind", "entries", "rows", "built"}
      /\ v = [x \in {"kind", "entries", "rows", "built"} |-> v[x]]
      /\ v.kind = "index" /\ v.rows = n /\ v.built = file /\ v.entries = Entries(NoEntries)
  BY <1>2
<1>6. IndexInv(v)
  BY <1>1, <1>4, <1>5, BuiltIndex, Zenon
<1>7. SessionTypeOK'
  BY DEF ViewInv, SessionTypeOK, NewColumnsIndex, table
<1>8. IndexInv(view')
  BY <1>3, <1>6, Zenon
<1> QED BY <1>7, <1>8 DEF ViewInv

LEMMA RebuildIndexStep ==
    ASSUME ViewInv, RebuildIndex
    PROVE  ViewInv'
<1>1. PICK n \in Nat : n <= Len(file) /\ Indexed = 1..n /\ Cardinality(Indexed) = n
  BY IndexedRows
<1>2. view \in IndexViews
  BY KindsDiffer DEF ViewInv, RebuildIndex, IndexInv
<1>3. PICK v : v = [view EXCEPT !.entries = Entries(view.entries), !.rows = n, !.built = file]
  OBVIOUS
<1>4. view' = v
  BY <1>1, <1>3, Zenon DEF RebuildIndex
<1>5. Entries(view.entries) = EntriesOf(file, n)
  BY <1>1, Zenon DEF Entries, EntriesOf, RowsWithKey
<1>6. /\ DOMAIN v = {"kind", "entries", "rows", "built"}
      /\ v = [x \in {"kind", "entries", "rows", "built"} |-> v[x]]
      /\ v.kind = "index" /\ v.rows = n /\ v.built = file /\ v.entries = Entries(view.entries)
  BY <1>2, <1>3 DEF IndexViews
<1>7. IndexInv(v)
  BY <1>1, <1>5, <1>6, BuiltIndex, Zenon
<1>8. SessionTypeOK'
  BY DEF ViewInv, SessionTypeOK, RebuildIndex, table
<1>9. IndexInv(view')
  BY <1>4, <1>7, Zenon
<1> QED BY <1>8, <1>9 DEF ViewInv

\* The index leads to the rows it was built from.
LEMMA IndexLeadsToTheRows == ViewInv => IndexIsExact
<1> SUFFICES ASSUME ViewInv, view # NoView, view.kind = "index", NEW k \in KeyVals
             PROVE  LET rows == {r \in 1..view.rows : KeyOf(view.built, r) = k}
                    IN  /\ Range(RowNumbersOf(k)) = rows
                        /\ Len(RowNumbersOf(k)) = Cardinality(rows)
                        /\ OneRowOf(k) <=> \E r \in rows : rows = {r}
  BY Zenon DEF IndexIsExact
<1>1. IndexInv(view)
  BY KindsDiffer DEF ViewInv
<1>2. PICK n \in Nat : n = view.rows
  BY <1>1, TableSessionAssumption DEF IndexInv, IndexViews
<1>3. PICK S : S = {r \in 1..n : KeyOf(view.built, r) = k}
  OBVIOUS
<1>4. /\ IsFiniteSet(S) /\ Len(InOrder(S)) = Cardinality(S)
      /\ Range(InOrder(S)) = S
  <2>1. S \in SUBSET (1..n)
    BY <1>3, Zenon
  <2> QED BY <2>1, RowsOfKey
<1>5. view.entries = [q \in {KeyOf(view.built, r) : r \in 1..n} |->
                        InOrder({r \in 1..n : KeyOf(view.built, r) = q})]
  <2>1. view.entries = EntriesOf(view.built, n)
    BY <1>1, <1>2, Zenon DEF IndexInv
  <2> QED BY <2>1, Zenon DEF EntriesOf, RowsWithKey
<1>6. Range(RowNumbersOf(k)) = S /\ Len(RowNumbersOf(k)) = Cardinality(S)
  <2>1. CASE k \in {KeyOf(view.built, r) : r \in 1..n}
    <3>1. view.entries[k] = InOrder(S) /\ k \in DOMAIN view.entries
      BY <1>3, <1>5, <2>1, Zenon
    <3>2. RowNumbersOf(k) = InOrder(S)
      BY <3>1, Zenon DEF RowNumbersOf
    <3> QED BY <1>4, <3>2
  <2>2. CASE ~(k \in {KeyOf(view.built, r) : r \in 1..n})
    <3>1. ~(k \in DOMAIN view.entries)
      BY <1>5, <2>2, Zenon
    <3>2. RowNumbersOf(k) = <<>>
      BY <3>1, Zenon DEF RowNumbersOf
    <3>3. S = {}
      BY <1>3, <2>2, Zenon
    <3>4. Range(<<>>) = {}
      BY DEF Range
    <3> QED BY <3>2, <3>3, <3>4, FS_EmptySet
  <2> QED BY <2>1, <2>2
<1>7. OneRowOf(k) <=> \E r \in S : S = {r}
  <2>1. Cardinality(S) = 1 <=> \E r : S = {r}
    BY <1>4, FS_Singleton, Zenon
  <2>2. (\E r : S = {r}) <=> \E r \in S : S = {r}
    BY Zenon
  <2> QED BY <1>6, <2>1, <2>2, Zenon DEF OneRowOf
<1> QED BY <1>2, <1>3, <1>6, <1>7, Zenon

----------------------------------------------------------------------------
(* ConcatTable.                                                            *)

LEMMA NewConcatTableStep ==
    ASSUME ViewInv, NEW before \in Others, NEW after \in Others, NewConcatTable(before, after)
    PROVE  ViewInv'
<1>1. before \in Nat /\ after \in Nat /\ nrow \in Nat
  BY RowsAreSequences, ViewsAssumption DEF ViewInv, SessionTypeOK, nrow
<1>2. view' = [kind |-> "concat", counts |-> <<before, nrow, after>>,
               starts |-> <<0, before, before + nrow>>, total |-> before + nrow + after]
  BY Zenon DEF NewConcatTable
<1>3. /\ <<before, nrow, after>> \in Seq(Nat) /\ <<0, before, before + nrow>> \in Seq(Nat)
      /\ before + nrow + after \in Nat
  BY <1>1
<1>4. view' \in ConcatViews
  BY <1>2, <1>3 DEF ConcatViews
<1>5. ConcatInv(view')
  BY <1>1, <1>2, <1>4 DEF ConcatInv
<1>6. SessionTypeOK'
  BY DEF ViewInv, SessionTypeOK, NewConcatTable, table
<1> QED BY <1>5, <1>6 DEF ViewInv

\* decompose_row finds the table the row is in.
LEMMA DecomposeRowIs ==
    ASSUME ConcatInv(view), NEW x \in Nat, NEW y \in Nat, NEW z \in Nat,
           view.counts[1] = x, view.counts[2] = y, view.counts[3] = z,
           NEW row \in 0..(x + y + z - 1)
    PROVE  DecomposeRow(row) = IF row >= x + y THEN <<3, row - (x + y)>>
                               ELSE IF row >= x THEN <<2, row - x>> ELSE <<1, row>>
<1>1. /\ view.starts = <<0, x, x + y>> /\ DOMAIN view.starts = 1..3
      /\ view.starts[1] = 0 /\ view.starts[2] = x /\ view.starts[3] = x + y
  BY DEF ConcatInv
<1>2. row \in Nat
  OBVIOUS
<1>3. PICK T : T = {i \in DOMAIN view.starts : i = 1 \/ row >= view.starts[i]}
  OBVIOUS
<1>4. T \in SUBSET (1..3) /\ 1 \in T /\ (2 \in T <=> row >= x) /\ (3 \in T <=> row >= x + y)
  BY <1>1, <1>3
<1>5. /\ Max(T) \in T /\ Max(T) \in Int /\ 1 <= Max(T) /\ Max(T) <= 3
      /\ \A i \in T : i <= Max(T)
  <2>1. T # {} /\ 1 \in Int /\ 3 \in Int
    BY <1>4
  <2> QED BY <1>4, <2>1, MaxBetween
<1>6. Max(T) = IF row >= x + y THEN 3 ELSE IF row >= x THEN 2 ELSE 1
  BY <1>2, <1>4, <1>5
<1>7. DecomposeRow(row) = <<Max(T), row - view.starts[Max(T)]>>
  BY <1>3, Zenon DEF DecomposeRow
<1> QED BY <1>1, <1>2, <1>6, <1>7

\* The rows of a concatenation are those of its tables.
LEMMA ConcatLeadsToTheRows == ViewInv => ConcatRowsAreTheRows
<1> SUFFICES ASSUME ViewInv, view # NoView, view.kind = "concat"
             PROVE  /\ {DecomposeRow(row) : row \in 0..(view.total - 1)} =
                            UNION {{i} \X (0..(view.counts[i] - 1)) : i \in DOMAIN view.counts}
                    /\ \A r, q \in 0..(view.total - 1) : DecomposeRow(r) = DecomposeRow(q) => r = q
  BY Zenon DEF ConcatRowsAreTheRows
<1>1. ConcatInv(view)
  BY KindsDiffer DEF ViewInv
<1>2. /\ view.counts \in Seq(Nat) /\ DOMAIN view.counts = 1..3
      /\ view.total = view.counts[1] + view.counts[2] + view.counts[3]
  BY <1>1 DEF ConcatInv, ConcatViews
<1>3. PICK x \in Nat, y \in Nat, z \in Nat :
        view.counts[1] = x /\ view.counts[2] = y /\ view.counts[3] = z
  BY <1>2
<1>4. PICK N : N = 0..(x + y + z - 1)
  OBVIOUS
<1>5. 0..(view.total - 1) = N
  BY <1>2, <1>3, <1>4
<1>6. \A row \in N :
        DecomposeRow(row) = IF row >= x + y THEN <<3, row - (x + y)>>
                            ELSE IF row >= x THEN <<2, row - x>> ELSE <<1, row>>
  BY <1>1, <1>3, <1>4, DecomposeRowIs
<1>7. \A r, q \in N : DecomposeRow(r) = DecomposeRow(q) => r = q
  <2> SUFFICES ASSUME NEW r \in N, NEW q \in N, DecomposeRow(r) = DecomposeRow(q) PROVE r = q
    OBVIOUS
  <2>1. r \in Nat /\ q \in Nat
    BY <1>4
  <2>2. DecomposeRow(r) = IF r >= x + y THEN <<3, r - (x + y)>>
                          ELSE IF r >= x THEN <<2, r - x>> ELSE <<1, r>>
    BY <1>6
  <2>3. DecomposeRow(q) = IF q >= x + y THEN <<3, q - (x + y)>>
                          ELSE IF q >= x THEN <<2, q - x>> ELSE <<1, q>>
    BY <1>6
  <2>4. /\ DecomposeRow(r)[1] = IF r >= x + y THEN 3 ELSE IF r >= x THEN 2 ELSE 1
        /\ DecomposeRow(r)[2] = IF r >= x + y THEN r - (x + y) ELSE IF r >= x THEN r - x ELSE r
    BY <2>2
  <2>5. /\ DecomposeRow(q)[1] = IF q >= x + y THEN 3 ELSE IF q >= x THEN 2 ELSE 1
        /\ DecomposeRow(q)[2] = IF q >= x + y THEN q - (x + y) ELSE IF q >= x THEN q - x ELSE q
    BY <2>3
  <2>6. PICK d, w : d = DecomposeRow(r)[1] /\ w = DecomposeRow(r)[2]
    OBVIOUS
  <2>7. d = DecomposeRow(q)[1] /\ w = DecomposeRow(q)[2]
    BY <2>6
  <2>8. /\ d = IF r >= x + y THEN 3 ELSE IF r >= x THEN 2 ELSE 1
        /\ w = IF r >= x + y THEN r - (x + y) ELSE IF r >= x THEN r - x ELSE r
    BY <2>4, <2>6
  <2>9. /\ d = IF q >= x + y THEN 3 ELSE IF q >= x THEN 2 ELSE 1
        /\ w = IF q >= x + y THEN q - (x + y) ELSE IF q >= x THEN q - x ELSE q
    BY <2>5, <2>7
  <2> QED BY <2>1, <2>8, <2>9
<1>8. PICK U : U = UNION {{i} \X (0..(view.counts[i] - 1)) : i \in 1..3}
  OBVIOUS
<1>9. \A p : p \in U <=> \E i \in 1..3 : \E j \in 0..(view.counts[i] - 1) : p = <<i, j>>
  BY <1>8
<1>10. ASSUME NEW row \in N PROVE DecomposeRow(row) \in U
  <2>1. row \in Nat /\ row < x + y + z
    BY <1>4
  <2>2. CASE row >= x + y
    <3>1. row - (x + y) \in 0..(view.counts[3] - 1) /\ 3 \in 1..3
      BY <1>3, <2>1, <2>2
    <3>2. DecomposeRow(row) = <<3, row - (x + y)>>
      BY <1>6, <2>2
    <3> QED BY <1>9, <3>1, <3>2
  <2>3. CASE ~(row >= x + y) /\ row >= x
    <3>1. row - x \in 0..(view.counts[2] - 1) /\ 2 \in 1..3
      BY <1>3, <2>1, <2>3
    <3>2. DecomposeRow(row) = <<2, row - x>>
      BY <1>6, <2>3
    <3> QED BY <1>9, <3>1, <3>2
  <2>4. CASE ~(row >= x)
    <3>1. row \in 0..(view.counts[1] - 1) /\ 1 \in 1..3
      BY <1>3, <2>1, <2>4
    <3>2. DecomposeRow(row) = <<1, row>>
      BY <1>6, <2>1, <2>4
    <3> QED BY <1>9, <3>1, <3>2
  <2> QED BY <2>2, <2>3, <2>4
<1>11. ASSUME NEW p \in U PROVE \E row \in N : DecomposeRow(row) = p
  <2>0. PICK i \in 1..3 : \E j \in 0..(view.counts[i] - 1) : p = <<i, j>>
    BY <1>9
  <2>1. PICK j \in 0..(view.counts[i] - 1) : p = <<i, j>>
    BY <2>0
  <2>2. CASE i = 1
    <3>1. j \in N /\ ~(j >= x) /\ ~(j >= x + y)
      BY <1>3, <1>4, <2>1, <2>2
    <3>2. DecomposeRow(j) = <<1, j>>
      BY <1>6, <3>1
    <3> QED BY <2>1, <2>2, <3>1, <3>2
  <2>3. CASE i = 2
    <3>1. x + j \in N /\ x + j >= x /\ ~(x + j >= x + y) /\ (x + j) - x = j
      BY <1>3, <1>4, <2>1, <2>3
    <3>2. DecomposeRow(x + j) = <<2, (x + j) - x>>
      BY <1>6, <3>1
    <3> QED BY <2>1, <2>3, <3>1, <3>2
  <2>4. CASE i = 3
    <3>1. x + y + j \in N /\ x + y + j >= x + y /\ (x + y + j) - (x + y) = j
      BY <1>3, <1>4, <2>1, <2>4
    <3>2. DecomposeRow(x + y + j) = <<3, (x + y + j) - (x + y)>>
      BY <1>6, <3>1
    <3> QED BY <2>1, <2>4, <3>1, <3>2
  <2> QED BY <2>1, <2>2, <2>3, <2>4
<1>12. {DecomposeRow(row) : row \in N} = U
  BY <1>10, <1>11
<1> QED BY <1>2, <1>5, <1>7, <1>8, <1>12

----------------------------------------------------------------------------
(* What the views promise.                                                 *)

LEMMA TableMovesStep == ViewInv /\ TableMoves => ViewInv'
<1> SUFFICES ASSUME ViewInv, TableMoves PROVE ViewInv'
  OBVIOUS
<1>1. SessionTypeOK'
  BY DEF TableMoves, SessionTypeOK
<1>2. CASE view' = NoView
  BY <1>1, <1>2 DEF ViewInv
<1>3. CASE view' = view
  <2>1. view' = NoView \/ view' \in RefViews \/ IteratorInv(view') \/ IndexInv(view') \/ ConcatInv(view')
    BY <1>3 DEF ViewInv
  <2> QED BY <1>1, <2>1 DEF ViewInv
<1> QED BY <1>2, <1>3 DEF TableMoves

LEMMA ViewStep == ViewInv /\ [ViewNext \/ TableMoves]_<<table, view>> => ViewInv'
<1> SUFFICES ASSUME ViewInv, [ViewNext \/ TableMoves]_<<table, view>> PROVE ViewInv'
  OBVIOUS
<1>1. CASE \E n \in 0..MaxRows : \E mask \in [1..n -> BOOLEAN] : NewRefTable(mask)
  BY <1>1, NewRefTableStep
<1>2. CASE \E r \in 1..MaxRows : RefTableAddRow(r)
  BY <1>2, RefTableAddRowStep
<1>3. CASE NewTableIterator
  BY <1>3, NewTableIteratorStep
<1>4. CASE NextGroup
  BY <1>4, NextGroupStep
<1>5. CASE ResetIterator
  BY <1>5, ResetIteratorStep
<1>6. CASE NewColumnsIndex
  BY <1>6, NewColumnsIndexStep
<1>7. CASE RebuildIndex
  BY <1>7, RebuildIndexStep
<1>8. CASE \E before, after \in Others : NewConcatTable(before, after)
  BY <1>8, NewConcatTableStep
<1>9. CASE DropView
  BY <1>9 DEF ViewInv, SessionTypeOK, DropView, table
<1>10. CASE TableMoves
  BY <1>10, TableMovesStep
<1>11. CASE UNCHANGED <<table, view>>
  <2>1. SessionTypeOK'
    BY <1>11 DEF ViewInv, SessionTypeOK, table
  <2>2. view' = NoView \/ view' \in RefViews \/ IteratorInv(view') \/ IndexInv(view') \/ ConcatInv(view')
    BY <1>11 DEF ViewInv
  <2> QED BY <2>1, <2>2 DEF ViewInv
<1> QED BY <1>1, <1>2, <1>3, <1>4, <1>5, <1>6, <1>7, <1>8, <1>9, <1>10, <1>11 DEF ViewNext

LEMMA ViewInvariant == ViewSpec => []ViewInv
<1>1. SessionTypeOK /\ view = NoView => ViewInv
  BY DEF ViewInv
<1> QED BY <1>1, ViewStep, PTL DEF ViewSpec

\* Every view is always a well-formed one.
THEOREM ViewsTypeCorrect == ViewSpec => []ViewTypeOK
BY ViewInvariant, ViewTypes, PTL

\* An index always gives for each key the rows that had it when it was built,
\* and a concatenation always has the rows of its tables, each once.
THEOREM ViewsAlwaysLeadToTheRows == ViewSpec => []ViewsLeadToTheRows
<1>1. ViewInv => ViewsLeadToTheRows
  BY IndexLeadsToTheRows, ConcatLeadsToTheRows DEF ViewsLeadToTheRows
<1> QED BY <1>1, ViewInvariant, PTL

LEMMA IteratorVisits == ViewInv => IteratorVisitsEachRowOnce
<1> SUFFICES ASSUME ViewInv, Iterating, ~view.threw PROVE
        /\ \E ends \in [0..Len(view.seen) -> 0..Len(view.sorted)] :
              /\ ends[0] = 0 /\ ends[Len(view.seen)] = view.end
              /\ \A i \in DOMAIN view.seen :
                    /\ ends[i - 1] < ends[i]
                    /\ view.seen[i] = SubSeq(view.sorted, ends[i - 1] + 1, ends[i])
        /\ AtEnd => view.end = Len(view.sorted)
  BY Zenon DEF IteratorVisitsEachRowOnce
<1>1. IteratorInv(view)
  BY KindsDiffer DEF ViewInv, Iterating
<1> QED BY <1>1, Zenon DEF IteratorInv, AtEnd

\* next() gives the rows of one key, all that follow one another.
LEMMA NextGroupHasItsKey ==
    ASSUME ViewInv, NextGroup, view'.seen # view.seen
    PROVE  LET group == Last(view'.seen)
               key(r) == KeyOf(file, r)
           IN  /\ \A i \in 2..Len(group) : key(group[i]) = key(group[1])
               /\ view'.end < Len(view.sorted) => key(view.sorted[view'.end + 1]) # key(group[1])
<1>1. IteratorInv(view)
  BY KindsDiffer DEF ViewInv, NextGroup
<1>2. view \in IteratorViews
  BY <1>1 DEF IteratorInv
<1>3. PICK n \in Nat : n = Len(view.sorted)
  BY <1>2 DEF IteratorViews
<1>4. PICK s : s = GroupStart
  OBVIOUS
<1>5. s \in Nat
  BY <1>2, <1>4 DEF IteratorViews, GroupStart
<1>6. s < n /\ ~GroupThrows(s)
  <2>1. ASSUME s >= n PROVE FALSE
    <3>1. view' = [view EXCEPT !.started = TRUE, !.start = s]
      BY <1>3, <1>4, <2>1 DEF NextGroup
    <3>2. view'.seen = view.seen
      BY <1>2, <3>1 DEF IteratorViews
    <3> QED BY <3>2
  <2>2. ASSUME ~(s >= n), GroupThrows(s) PROVE FALSE
    <3>1. view' = [view EXCEPT !.started = TRUE, !.start = s, !.end = GroupEnd(s), !.threw = TRUE]
      BY <1>3, <1>4, <2>2 DEF NextGroup
    <3>2. view'.seen = view.seen
      BY <1>2, <3>1 DEF IteratorViews
    <3> QED BY <3>2
  <2> QED BY <1>3, <1>5, <2>1, <2>2
<1>7. PICK e \in Int : e = GroupEnd(s)
  BY <1>1, <1>3, <1>5, <1>6, GroupEndIs
<1>8. /\ s < e /\ e <= n
      /\ \A i \in (s + 1)..(e - 1) : SameKey(view.sorted[s + 1], view.sorted[i + 1])
      /\ e < n => ~SameKey(view.sorted[s + 1], view.sorted[e + 1])
  BY <1>1, <1>3, <1>5, <1>6, <1>7, GroupEndIs
<1>9. PICK group : group = SubSeq(view.sorted, s + 1, e)
  OBVIOUS
<1>10. view' = [view EXCEPT !.started = TRUE, !.start = s, !.end = e, !.group = group,
                            !.seen = Append(view.seen, group)]
  BY <1>3, <1>4, <1>5, <1>6, <1>7, <1>9 DEF NextGroup
<1>11. view'.end = e /\ view'.seen = Append(view.seen, group)
  BY <1>2, <1>10 DEF IteratorViews
<1>12. /\ group \in Seq(1..MaxRows) /\ Len(group) = e - s
       /\ \A i \in 1..(e - s) : group[i] = view.sorted[s + i]
  <2>5. view.sorted \in Seq(1..MaxRows)
    BY <1>2 DEF IteratorViews
  <2>6. \A i \in (s + 1)..e : i \in 1..n
    BY <1>5, <1>8
  <2>1. \A i \in (s + 1)..e : view.sorted[i] \in 1..MaxRows
    BY <1>3, <2>5, <2>6, ElementOfSeq
  <2>2. s + 1 \in Int
    BY <1>5
  <2>3. /\ group \in Seq(1..MaxRows)
        /\ Len(group) = IF s + 1 <= e THEN e - (s + 1) + 1 ELSE 0
        /\ \A i \in 1..(e - (s + 1) + 1) : group[i] = view.sorted[(s + 1) + i - 1]
    BY <1>9, <2>1, <2>2, SubSeqProperties
  <2>4. e - (s + 1) + 1 = e - s /\ \A i \in 1..(e - s) : (s + 1) + i - 1 = s + i
    BY <1>5
  <2> QED BY <1>5, <1>8, <2>3, <2>4
<1>13. Last(view'.seen) = group
  <2>1. view.seen \in Seq(Seq(1..MaxRows))
    BY <1>2 DEF IteratorViews
  <2> QED BY <1>11, <1>12, <2>1 DEF Last
<1>14. \A p, q : SameKey(p, q) <=> KeyOf(file, p) = KeyOf(file, q)
  <2> SUFFICES ASSUME NEW p, NEW q PROVE SameKey(p, q) <=> KeyOf(file, p) = KeyOf(file, q)
    OBVIOUS
  <2>1. ASSUME SameKey(p, q) PROVE KeyOf(file, p) = KeyOf(file, q)
    BY <2>1, Zenon DEF SameKey, KeyOf
  <2>2. ASSUME KeyOf(file, p) = KeyOf(file, q), NEW i \in DOMAIN Key
        PROVE  file[p][Key[i]] = file[q][Key[i]]
    <3>1. KeyOf(file, p)[i] = file[p][Key[i]]
      BY Zenon DEF KeyOf
    <3>2. KeyOf(file, q)[i] = file[q][Key[i]]
      BY Zenon DEF KeyOf
    <3> QED BY <2>2, <3>1, <3>2
  <2> QED BY <2>1, <2>2 DEF SameKey
<1>15. group[1] = view.sorted[s + 1]
  BY <1>5, <1>8, <1>12
<1>16. ASSUME NEW i \in 2..Len(group) PROVE KeyOf(file, group[i]) = KeyOf(file, group[1])
  <2>1. i - 1 + s \in (s + 1)..(e - 1) /\ group[i] = view.sorted[(i - 1 + s) + 1]
    <3>1. (i - 1 + s) + 1 = s + i /\ i \in 1..(e - s)
      BY <1>5, <1>8, <1>12
    <3> QED BY <1>5, <1>8, <1>12, <3>1
  <2>2. SameKey(view.sorted[s + 1], group[i])
    BY <1>8, <2>1
  <2> QED BY <1>14, <1>15, <2>2
<1>17. view'.end < Len(view.sorted) => KeyOf(file, view.sorted[view'.end + 1]) # KeyOf(file, group[1])
  BY <1>3, <1>8, <1>11, <1>14, <1>15
<1> QED BY <1>13, <1>16, <1>17

LEMMA GroupStepHasItsKey ==
    ViewInv /\ [ViewNext \/ TableMoves]_<<table, view>> => [GroupHasItsKey]_<<table, view>>
<1> SUFFICES ASSUME ViewInv, ViewNext \/ TableMoves,
                    Iterating, view' # NoView, view'.seen # view.seen, view'.seen # <<>>
             PROVE  LET group == Last(view'.seen)
                        key(r) == KeyOf(file, r)
                    IN  /\ \A i \in 2..Len(group) : key(group[i]) = key(group[1])
                        /\ view'.end < Len(view.sorted) =>
                              key(view.sorted[view'.end + 1]) # key(group[1])
  BY Zenon DEF GroupHasItsKey
<1>1. IteratorInv(view)
  BY KindsDiffer DEF ViewInv, Iterating
<1>2. view \in IteratorViews
  BY <1>1 DEF IteratorInv
<1>3. ~ResetIterator
  BY <1>2 DEF ResetIterator, IteratorViews
<1>4. view.kind = "iterator" /\ view # NoView
  BY DEF Iterating
<1>5. /\ ~ \E n \in 0..MaxRows : \E mask \in [1..n -> BOOLEAN] : NewRefTable(mask)
      /\ ~ \E r \in 1..MaxRows : RefTableAddRow(r)
      /\ ~NewTableIterator /\ ~NewColumnsIndex /\ ~RebuildIndex
      /\ ~ \E before, after \in Others : NewConcatTable(before, after)
      /\ ~DropView
  BY <1>4 DEF NewRefTable, RefTableAddRow, NewTableIterator, NewColumnsIndex, RebuildIndex,
              NewConcatTable, DropView
<1>6. ~TableMoves
  BY Zenon DEF TableMoves
<1>7. NextGroup
  BY <1>3, <1>5, <1>6 DEF ViewNext
<1> QED BY <1>7, NextGroupHasItsKey, Zenon

\* However the table changes meanwhile, the groups an iterator has returned are
\* the sorted rows, each once, cut where the key changes at that moment.
THEOREM IteratorAlwaysGroupsTheRows == ViewSpec => IteratorGroupsTheRows
<1>1. ViewSpec => []IteratorVisitsEachRowOnce
  BY ViewInvariant, IteratorVisits, PTL
<1>2. ViewSpec => GroupsShareTheirKey
  BY ViewInvariant, GroupStepHasItsKey, PTL DEF ViewSpec, GroupsShareTheirKey
<1> QED BY <1>1, <1>2 DEF IteratorGroupsTheRows

----------------------------------------------------------------------------
(* Rows taken away.                                                        *)

\* RemoveAt closes the gap.
LEMMA RemoveAtIs ==
    ASSUME NEW S, NEW s \in Seq(S), NEW r \in 1..Len(s)
    PROVE  RemoveAt(s, r) = [i \in 1..(Len(s) - 1) |-> IF i < r THEN s[i] ELSE s[i + 1]]
<1>1. PICK n \in Nat : n = Len(s)
  OBVIOUS
<1>2. r \in 1..n /\ \A i \in 1..n : s[i] \in S
  BY <1>1
<1>3. PICK u : u = SubSeq(s, 1, r - 1)
  OBVIOUS
<1>4. PICK v : v = SubSeq(s, r + 1, n)
  OBVIOUS
<1>5. u \in Seq(S) /\ Len(u) = r - 1 /\ \A i \in 1..(r - 1) : u[i] = s[i]
  <2>1. 1 \in Int /\ r - 1 \in Int /\ \A i \in 1..(r - 1) : s[i] \in S
    BY <1>1, <1>2
  <2>2. /\ u \in Seq(S) /\ Len(u) = IF 1 <= r - 1 THEN (r - 1) - 1 + 1 ELSE 0
        /\ \A i \in 1..((r - 1) - 1 + 1) : u[i] = s[1 + i - 1]
    BY <1>3, <2>1, SubSeqProperties
  <2>3. (r - 1) - 1 + 1 = r - 1 /\ \A i \in 1..(r - 1) : 1 + i - 1 = i
    BY <1>2
  <2> QED BY <1>2, <2>2, <2>3
<1>6. v \in Seq(S) /\ Len(v) = n - r /\ \A i \in 1..(n - r) : v[i] = s[r + i]
  <2>1. r + 1 \in Int /\ n \in Int /\ \A i \in (r + 1)..n : s[i] \in S
    BY <1>1, <1>2
  <2>2. /\ v \in Seq(S) /\ Len(v) = IF r + 1 <= n THEN n - (r + 1) + 1 ELSE 0
        /\ \A i \in 1..(n - (r + 1) + 1) : v[i] = s[(r + 1) + i - 1]
    BY <1>4, <2>1, SubSeqProperties
  <2>3. n - (r + 1) + 1 = n - r /\ \A i \in 1..(n - r) : (r + 1) + i - 1 = r + i
    BY <1>1, <1>2
  <2> QED BY <1>1, <1>2, <2>2, <2>3
<1>7. RemoveAt(s, r) = u \o v
  BY <1>1, <1>3, <1>4 DEF RemoveAt
<1>8. u \o v \in Seq(S) /\ Len(u \o v) = n - 1 /\ DOMAIN (u \o v) = 1..(n - 1)
  BY <1>1, <1>2, <1>5, <1>6
<1>9. ASSUME NEW i \in 1..(n - 1) PROVE (u \o v)[i] = IF i < r THEN s[i] ELSE s[i + 1]
  <2>1. (u \o v)[i] = IF i <= Len(u) THEN u[i] ELSE v[i - Len(u)]
    BY <1>1, <1>2, <1>5, <1>6, ConcatProperties
  <2>2. CASE i < r
    BY <1>2, <1>5, <2>1, <2>2
  <2>3. CASE ~(i < r)
    <3>1. i - (r - 1) \in 1..(n - r) /\ r + (i - (r - 1)) = i + 1
      BY <1>1, <1>2, <2>3
    <3> QED BY SMTT(20), <1>2, <1>5, <1>6, <2>1, <2>3, <3>1
  <2> QED BY <2>2, <2>3
<1>10. u \o v \in [1..(n - 1) -> S]
  BY <1>8, LenProperties
<1> QED BY <1>1, <1>7, <1>9, <1>10

\* The rows that stay, one after the other.
LEMMA WithoutIs ==
    ASSUME NEW rows, NEW G, NEW T, T = DOMAIN rows \ G, NEW t, t = InOrder(T)
    PROVE  Without(rows, G) = [i \in DOMAIN t |-> rows[t[i]]]
BY Zenon DEF Without

\* What stays is rows, and not more than there were.
LEMMA WithoutType ==
    ASSUME NEW rows \in Seq(Row), NEW G
    PROVE  Without(rows, G) \in Seq(Row) /\ Len(Without(rows, G)) <= Len(rows)
<1>1. PICK n \in Nat : n = Len(rows)
  OBVIOUS
<1>2. PICK T : T = DOMAIN rows \ G
  OBVIOUS
<1>3. T \in SUBSET (1..n)
  BY <1>1, <1>2
<1>4. PICK m \in 0..n : InOrder(T) \in [1..m -> T]
  BY <1>1, <1>3, RowsInOrder
<1>5. PICK t : t = InOrder(T)
  OBVIOUS
<1>6. t \in [1..m -> T]
  BY <1>4, <1>5
<1>7. Without(rows, G) = [i \in 1..m |-> rows[t[i]]]
  <2>1. DOMAIN t = 1..m
    BY <1>6
  <2>2. Without(rows, G) = [i \in DOMAIN t |-> rows[t[i]]]
    BY <1>2, <1>5, WithoutIs
  <2> QED BY <2>1, <2>2
<1>8. \A i \in 1..m : rows[t[i]] \in Row
  <2> SUFFICES ASSUME NEW i \in 1..m PROVE rows[t[i]] \in Row
    OBVIOUS
  <2>1. t[i] \in 1..n
    BY <1>3, <1>6
  <2> QED BY <1>1, <2>1
<1>9. Without(rows, G) \in [1..m -> Row] /\ m \in Nat /\ m <= n
  BY <1>1, <1>4, <1>7, <1>8
<1> QED BY <1>1, <1>9

\* Without nothing, all rows are there.
LEMMA WithoutNothing ==
    ASSUME NEW rows \in Seq(Row)
    PROVE  Without(rows, {}) = rows
<1>1. PICK n \in Nat : n = Len(rows)
  OBVIOUS
<1>2. PICK t : t = [i \in 1..n |-> i]
  OBVIOUS
<1>3. PICK T : T = 1..n
  OBVIOUS
<1>4. t \in [1..n -> T] /\ \A i, j \in 1..n : i < j => t[i] < t[j]
  BY <1>2, <1>3
<1>5. \A x \in T : \E i \in 1..n : t[i] = x
  BY <1>2, <1>3
<1>6. T = DOMAIN rows \ {} /\ T \in SUBSET (1..Len(rows))
  BY <1>1, <1>3
<1>7. Without(rows, {}) = [i \in 1..n |-> rows[t[i]]]
  <2>1. T \in SUBSET Int
    BY <1>3
  <2>2. t = InOrder(T)
    BY <1>4, <1>5, <2>1, InOrderIs
  <2>3. DOMAIN t = 1..n
    BY <1>4
  <2>4. Without(rows, {}) = [i \in DOMAIN t |-> rows[t[i]]]
    BY <1>6, <2>2, WithoutIs
  <2> QED BY <2>3, <2>4
<1>8. rows \in [1..n -> Row]
  BY <1>1
<1> QED BY <1>2, <1>7, <1>8

\* Removing the row before all that are gone is having it gone with them: the
\* rows before it are all there, so it still has its number.
LEMMA WithoutMore ==
    ASSUME NEW rows \in Seq(Row), NEW G, NEW r \in 1..Len(rows), r \notin G,
           \A g \in G : g \in Int /\ r < g
    PROVE  /\ r <= Len(Without(rows, G))
           /\ RemoveAt(Without(rows, G), r) = Without(rows, G \cup {r})
<1>1. PICK n \in Nat : n = Len(rows)
  OBVIOUS
<1>2. PICK T : T = DOMAIN rows \ G
  OBVIOUS
<1>3. T \in SUBSET (1..n) /\ r \in T /\ r \in Nat /\ \A i \in 1..r : i \in T
  BY <1>1, <1>2
<1>4. PICK m \in 0..n : /\ Cardinality(T) = m
                        /\ InOrder(T) \in [1..m -> T]
                        /\ \A i, j \in 1..m : i < j => InOrder(T)[i] < InOrder(T)[j]
                        /\ \A x \in T : \E i \in 1..m : InOrder(T)[i] = x
  <2>1. T \in SUBSET (1..n)
    BY <1>3
  <2> QED BY <2>1, RowsInOrder
<1>5. PICK s \in [1..m -> T] : s = InOrder(T)
  BY <1>4
<1>6. /\ \A i, j \in 1..m : i < j => s[i] < s[j]
      /\ \A x \in T : \E i \in 1..m : s[i] = x
  BY <1>4, <1>5
<1>7. m \in Nat
  BY <1>1, <1>4
<1>8. PICK k \in 1..m : s[k] = r
  BY <1>3, <1>6
<1>9. k = r
  <2>1. PICK F : F = {q \in T : q <= InOrder(T)[k]}
    OBVIOUS
  <2>2. Cardinality(F) = k
    BY <1>1, <1>3, <1>4, <2>1, FirstInOrder
  <2>3. F = 1..r
    <3>1. \A q : q \in F <=> q \in T /\ q <= r
      BY <1>5, <1>8, <2>1
    <3>2. \A q \in T : q \in Int /\ 1 <= q
      BY <1>3
    <3>3. \A q \in F : q \in 1..r
      <4> SUFFICES ASSUME NEW q \in F PROVE q \in 1..r
        OBVIOUS
      <4>1. q \in T /\ q <= r
        BY <3>1
      <4>2. q \in Int /\ 1 <= q /\ r \in Int
        BY <1>3, <3>2, <4>1
      <4> QED BY <4>1, <4>2
    <3>4. \A q \in 1..r : q \in F
      BY <1>3, <3>1
    <3> QED BY <3>3, <3>4
  <2>4. Cardinality(1..r) = r
    BY <1>3, FS_Interval
  <2> QED BY <2>2, <2>3, <2>4
<1>10. Without(rows, G) = [i \in 1..m |-> rows[s[i]]]
  <2>1. DOMAIN s = 1..m
    OBVIOUS
  <2>2. Without(rows, G) = [i \in DOMAIN s |-> rows[s[i]]]
    BY <1>2, <1>5, WithoutIs
  <2> QED BY <2>1, <2>2
<1>11. PICK w : w = Without(rows, G)
  OBVIOUS
<1>12. \A i \in 1..m : s[i] \in 1..n
  <2>1. \A x \in T : x \in 1..n
    BY <1>3
  <2> QED BY <2>1
<1>13. w \in Seq(Row) /\ Len(w) = m /\ \A i \in 1..m : w[i] = rows[s[i]]
  <2>1. \A i \in 1..m : rows[s[i]] \in Row
    BY <1>1, <1>12
  <2>2. w \in [1..m -> Row]
    BY <1>10, <1>11, <2>1
  <2> QED BY <1>7, <1>10, <1>11, <2>2
<1>14. RemoveAt(w, r) = [i \in 1..(m - 1) |-> IF i < r THEN w[i] ELSE w[i + 1]]
  BY <1>8, <1>9, <1>13, RemoveAtIs
<1>15. PICK U : U = T \ {r}
  OBVIOUS
<1>16. PICK t : t = [i \in 1..(m - 1) |-> IF i < r THEN s[i] ELSE s[i + 1]]
  OBVIOUS
<1>17. \A i \in 1..(m - 1) : i \in 1..m /\ i + 1 \in 1..m
  BY <1>7
<1>18. \A i \in 1..m : s[i] \in T /\ s[i] \in Int
  BY <1>12
<1>19. \A i \in 1..m : i # r => s[i] # r
  <2> SUFFICES ASSUME NEW i \in 1..m, i # r PROVE s[i] # r
    OBVIOUS
  <2>1. i < r \/ r < i
    BY <1>3
  <2>2. (i < r => s[i] < s[r]) /\ (r < i => s[r] < s[i])
    BY <1>6, <1>8, <1>9
  <2>3. s[r] = r /\ s[i] \in Int /\ r \in Int
    BY <1>3, <1>8, <1>9, <1>18
  <2> QED BY <2>1, <2>2, <2>3
<1>20. t \in [1..(m - 1) -> U]
  <2>1. ASSUME NEW i \in 1..(m - 1) PROVE (IF i < r THEN s[i] ELSE s[i + 1]) \in U
    <3>1. CASE i < r
      <4>1. s[i] # r /\ s[i] \in T
        BY <1>3, <1>17, <1>18, <1>19, <3>1
      <4> QED BY <1>15, <3>1, <4>1
    <3>2. CASE ~(i < r)
      <4>1. i + 1 # r /\ i + 1 \in 1..m
        BY <1>3, <1>17, <3>2
      <4>2. s[i + 1] # r /\ s[i + 1] \in T
        BY <1>18, <1>19, <4>1
      <4> QED BY <1>15, <3>2, <4>2
    <3> QED BY <3>1, <3>2
  <2> QED BY <1>16, <2>1
<1>21. \A i, j \in 1..(m - 1) : i < j => t[i] < t[j]
  <2> SUFFICES ASSUME NEW i \in 1..(m - 1), NEW j \in 1..(m - 1), i < j PROVE t[i] < t[j]
    OBVIOUS
  <2>1. PICK p \in 1..m : p = (IF i < r THEN i ELSE i + 1) /\ t[i] = s[p]
    BY <1>16, <1>17
  <2>2. PICK q \in 1..m : q = (IF j < r THEN j ELSE j + 1) /\ t[j] = s[q]
    BY <1>16, <1>17
  <2>3. p < q
    BY <1>3, <2>1, <2>2
  <2> QED BY <1>6, <2>1, <2>2, <2>3
<1>22. \A x \in U : \E i \in 1..(m - 1) : t[i] = x
  <2> SUFFICES ASSUME NEW x \in U PROVE \E i \in 1..(m - 1) : t[i] = x
    OBVIOUS
  <2>1. x \in T /\ x # r
    BY <1>15
  <2>2. PICK p \in 1..m : s[p] = x
    BY <1>6, <2>1
  <2>3. p # r
    BY <1>8, <1>9, <2>1, <2>2
  <2>4. CASE p < r
    <3>1. p \in 1..(m - 1)
      BY <1>7, <1>8, <1>9, <2>4
    <3>2. t[p] = s[p]
      BY <1>16, <2>4, <3>1
    <3> QED BY <2>2, <3>1, <3>2
  <2>5. CASE ~(p < r)
    <3>1. p - 1 \in 1..(m - 1) /\ ~(p - 1 < r) /\ (p - 1) + 1 = p
      BY <1>3, <1>7, <2>3, <2>5
    <3>2. t[p - 1] = s[p]
      BY <1>16, <3>1
    <3> QED BY <2>2, <3>1, <3>2
  <2> QED BY <2>4, <2>5
<1>23. PICK H : H = G \cup {r}
  OBVIOUS
<1>24. U = DOMAIN rows \ H /\ U \in SUBSET (1..Len(rows)) /\ m - 1 \in Nat
  BY <1>1, <1>2, <1>3, <1>7, <1>8, <1>15, <1>23
<1>25. Without(rows, H) = [i \in 1..(m - 1) |-> rows[t[i]]]
  <2>1. U \in SUBSET Int
    BY <1>24
  <2>2. t = InOrder(U)
    BY ZenonT(30), <1>20, <1>21, <1>22, <1>24, <2>1, InOrderIs
  <2>3. DOMAIN t = 1..(m - 1)
    BY <1>20
  <2>4. Without(rows, H) = [i \in DOMAIN t |-> rows[t[i]]]
    BY <1>24, <2>2, WithoutIs
  <2> QED BY <2>3, <2>4
<1>26. ASSUME NEW i \in 1..(m - 1) PROVE rows[t[i]] = (IF i < r THEN w[i] ELSE w[i + 1])
  BY <1>13, <1>16, <1>17
<1>27. RemoveAt(w, r) = Without(rows, H)
  BY <1>14, <1>25, <1>26
<1> QED BY <1>8, <1>9, <1>11, <1>13, <1>23, <1>27

----------------------------------------------------------------------------
(* What the expressions and clauses of a statement give.                   *)

\* A statement has the clauses of its command.
LEMMA StatementForms ==
    ASSUME NEW s \in Statements
    PROVE  /\ s.cmd \in {"update", "delete", "insert", "alter", "count"}
           /\ s.cmd = "update" => s.set \in Seq(Assignment)
           /\ s.cmd = "delete" => s.limit \in {NoLimit} \cup Nat
           /\ s.cmd = "insert" => /\ s.columns \in Seq(Column)
                                  /\ s.lists \in Seq(Seq(Val \cup {Fail}))
           /\ s.cmd = "alter" => s.steps \in Seq(Nat \cup {Fail})
<1>1. s \in Statement
  BY TaqlAssumption
<1>2. CASE s \in [cmd : {"update"}, where : {NoWhere} \cup SUBSET Row, set : Seq(Assignment)]
  BY <1>2
<1>3. CASE s \in [cmd : {"delete"}, where : {NoWhere} \cup SUBSET Row, limit : {NoLimit} \cup Nat]
  BY <1>3
<1>4. CASE s \in [cmd : {"insert"}, columns : Seq(Column), lists : Seq(Seq(Val \cup {Fail}))]
  BY <1>4
<1>5. CASE s \in [cmd : {"alter"}, steps : Seq(Nat \cup {Fail})]
  BY <1>5
<1>6. CASE s \in [cmd : {"count"}, where : {NoWhere} \cup SUBSET Row]
  BY <1>6
<1> QED BY <1>1, <1>2, <1>3, <1>4, <1>5, <1>6 DEF Statement

LEMMA RowTypes ==
    /\ BlankRow \in Row
    /\ \A row \in Row, c \in Column : row[c] \in Val
BY TableSessionAssumption DEF BlankRow, Row

\* The last number of a prefix that is as long as its members are good.
LEMMA LongestPrefix ==
    ASSUME NEW n \in Nat, NEW K, K \in SUBSET (0..n), 0 \in K
    PROVE  Max(K) \in 0..n /\ Max(K) \in K /\ (n \in K => Max(K) = n)
<1>1. /\ Max(K) \in K /\ Max(K) \in Int /\ 0 <= Max(K) /\ Max(K) <= n
      /\ \A k \in K : k <= Max(K)
  <2>1. K # {} /\ 0 \in Int /\ n \in Int
    OBVIOUS
  <2> QED BY <2>1, MaxBetween
<1>2. n \in K => n <= Max(K)
  BY <1>1
<1> QED BY <1>1, <1>2

\* The values a row is given are values, up to the first that throws.
LEMMA AssignedType ==
    ASSUME NEW rows \in Seq(Row), rows = mem, NEW shown \in Seq(Row), shown = file,
           NEW set \in Seq(Assignment), NEW r \in 1..Len(rows)
    PROVE  Assigned(set, r) \in Row
<1>1. PICK n \in Nat : n = Len(set)
  OBVIOUS
<1>2. PICK K : K = {k \in 0..Len(set) : \A i \in 1..k : Evaluates(set[i].value, r)}
  OBVIOUS
<1>3. PICK top : top = Max(K)
  OBVIOUS
<1>4. top \in 0..n /\ \A i \in 1..top : Evaluates(set[i].value, r)
  <2>1. K \in SUBSET (0..n) /\ \A k \in K : \A i \in 1..k : Evaluates(set[i].value, r)
    BY <1>1, <1>2, Zenon
  <2>2. 0 \in K
    <3>1. 0 \in 0..n /\ ~ \E i : i \in 1..0
      BY <1>1
    <3> QED BY <1>1, <1>2, <3>1, Zenon
  <2>3. Max(K) \in 0..n /\ Max(K) \in K
    BY <2>1, <2>2, LongestPrefix
  <2> QED BY <1>3, <2>1, <2>3
<1>5. ASSUME NEW c \in Column
      PROVE  (LET here == {i \in 1..top : set[i].column = c}
              IN  IF here = {} THEN mem[r][c] ELSE Value(set[Max(here)].value, r)) \in Val
  <2>1. PICK here : here = {i \in 1..top : set[i].column = c}
    OBVIOUS
  <2>2. CASE here = {}
    <3>1. mem[r] \in Row
      OBVIOUS
    <3>2. mem[r][c] \in Val
      BY <3>1, RowTypes
    <3> QED BY <2>1, <2>2, <3>2, Zenon
  <2>3. CASE here # {}
    <3>1. here \in SUBSET (1..top) /\ top \in Int /\ 1 \in Int
      BY <1>4, <2>1
    <3>2. Max(here) \in 1..top
      BY <2>3, <3>1, MaxBetween
    <3>3. PICK i \in 1..top : i = Max(here)
      BY <3>2
    <3>4. set[i] \in Assignment
      BY <1>1, <1>4
    <3>5. PICK e \in Expression : e = set[i].value
      BY <3>4 DEF Assignment
    <3>6. Evaluates(e, r)
      BY <1>4, <3>5
    <3>7. Value(e, r) \in Val
      <4>1. CASE e \in Column
        <5>1. r <= Len(file)
          BY <3>6, <4>1 DEF Evaluates, CanRead, Readable
        <5>2. file[r] \in Row
          BY <5>1
        <5>3. file[r][e] \in Val
          BY <4>1, <5>2, RowTypes
        <5> QED BY <4>1, <5>3 DEF Value
      <4>2. CASE e \notin Column
        BY <3>5, <3>6, <4>2 DEF Value, Evaluates, Expression
      <4> QED BY <4>1, <4>2
    <3> QED BY <2>1, <2>3, <3>3, <3>5, <3>7, Zenon
  <2> QED BY <2>2, <2>3
<1>6. Assigned(set, r) =
        [c \in Column |->
            LET here == {i \in 1..top : set[i].column = c}
            IN  IF here = {} THEN mem[r][c] ELSE Value(set[Max(here)].value, r)]
  BY <1>2, <1>3, Zenon DEF Assigned
<1> QED BY <1>5, <1>6, Zenon DEF Row

\* What an UPDATE that does not throw makes of a row.
NewRow(s, r) ==
    [c \in Column |->
        LET here == {i \in DOMAIN s.set : s.set[i].column = c}
        IN  IF here = {} THEN last.rows[r][c] ELSE OldValue(s.set[Max(here)].value, r)]

LEMMA AssignedWhole ==
    ASSUME NEW s, s.set \in Seq(Assignment), NEW r, AllEvaluate(s.set, r),
           mem[r] = last.rows[r], file = last.shown
    PROVE  Assigned(s.set, r) = NewRow(s, r)
<1>1. PICK n \in Nat : n = Len(s.set) /\ DOMAIN s.set = 1..n
  OBVIOUS
<1>2. PICK K : K = {k \in 0..Len(s.set) : \A i \in 1..k : Evaluates(s.set[i].value, r)}
  OBVIOUS
<1>3. Max(K) = n
  <2>1. K \in SUBSET (0..n)
    BY <1>1, <1>2, Zenon
  <2>2. 0 \in K
    <3>1. 0 \in 0..n /\ ~ \E i : i \in 1..0
      BY <1>1
    <3> QED BY <1>1, <1>2, <3>1, Zenon
  <2>3. n \in K
    <3>1. n \in 0..n
      BY <1>1
    <3>2. \A i \in 1..n : Evaluates(s.set[i].value, r)
      BY <1>1, Zenon DEF AllEvaluate
    <3> QED BY <1>1, <1>2, <3>1, <3>2, Zenon
  <2> QED BY <2>1, <2>2, <2>3, LongestPrefix
<1>4. Assigned(s.set, r) =
        [c \in Column |->
            LET here == {i \in 1..n : s.set[i].column = c}
            IN  IF here = {} THEN mem[r][c] ELSE Value(s.set[Max(here)].value, r)]
  BY <1>2, <1>3, Zenon DEF Assigned
<1>5. \A e : Value(e, r) = OldValue(e, r)
  BY Zenon DEF Value, OldValue
<1>6. ASSUME NEW c \in Column
      PROVE  (LET here == {i \in 1..n : s.set[i].column = c}
              IN  IF here = {} THEN mem[r][c] ELSE Value(s.set[Max(here)].value, r))
           = (LET here == {i \in DOMAIN s.set : s.set[i].column = c}
              IN  IF here = {} THEN last.rows[r][c] ELSE OldValue(s.set[Max(here)].value, r))
  <2>1. PICK here : here = {i \in 1..n : s.set[i].column = c}
    OBVIOUS
  <2>2. here = {i \in DOMAIN s.set : s.set[i].column = c}
    BY <1>1, <2>1, Zenon
  <2>3. Value(s.set[Max(here)].value, r) = OldValue(s.set[Max(here)].value, r)
    BY <1>5, Zenon
  <2>4. mem[r][c] = last.rows[r][c]
    OBVIOUS
  <2> QED BY <2>1, <2>2, <2>3, <2>4, Zenon
<1> QED BY <1>4, <1>6, Zenon DEF NewRow

LEMMA NewRowsAreUpdated ==
    ASSUME NEW s
    PROVE  Updated(s) = [r \in DOMAIN last.rows |->
                            IF OldMatch(s.where, r) THEN NewRow(s, r) ELSE last.rows[r]]
BY Zenon DEF Updated, NewRow

\* A row that INSERT fills holds values, up to the first that throws.
LEMMA InsertedRowType ==
    ASSUME NEW columns, NEW list \in Seq(Val \cup {Fail})
    PROVE  InsertedRow(columns, list) \in Row
<1>1. PICK n \in Nat : n = Len(list)
  OBVIOUS
<1>2. PICK K : K = {k \in 0..Len(list) : \A i \in 1..k : list[i] # Fail}
  OBVIOUS
<1>3. PICK top : top = Max(K)
  OBVIOUS
<1>4. top \in 0..n /\ \A i \in 1..top : list[i] # Fail
  <2>1. K \in SUBSET (0..n) /\ \A k \in K : \A i \in 1..k : list[i] # Fail
    BY <1>1, <1>2, Zenon
  <2>2. 0 \in K
    <3>1. 0 \in 0..n /\ ~ \E i : i \in 1..0
      BY <1>1
    <3> QED BY <1>1, <1>2, <3>1, Zenon
  <2>3. Max(K) \in 0..n /\ Max(K) \in K
    BY <2>1, <2>2, LongestPrefix
  <2> QED BY <1>3, <2>1, <2>3
<1>5. ASSUME NEW c \in Column
      PROVE  (LET here == {i \in 1..top : columns[i] = c}
              IN  IF here = {} THEN Blank ELSE list[Max(here)]) \in Val
  <2>1. PICK here : here = {i \in 1..top : columns[i] = c}
    OBVIOUS
  <2>2. CASE here = {}
    <3>1. Blank \in Val
      BY TableSessionAssumption
    <3> QED BY <2>1, <2>2, <3>1, Zenon
  <2>3. CASE here # {}
    <3>1. here \in SUBSET (1..top) /\ top \in Int /\ 1 \in Int
      BY <1>4, <2>1
    <3>2. Max(here) \in 1..top
      BY <2>3, <3>1, MaxBetween
    <3>3. PICK i \in 1..top : i = Max(here)
      BY <3>2
    <3>4. list[i] \in Val
      BY <1>1, <1>4
    <3> QED BY <2>1, <2>3, <3>3, <3>4, Zenon
  <2> QED BY <2>2, <2>3
<1>6. InsertedRow(columns, list) =
        [c \in Column |->
            LET here == {i \in 1..top : columns[i] = c}
            IN  IF here = {} THEN Blank ELSE list[Max(here)]]
  BY <1>2, <1>3, Zenon DEF InsertedRow
<1> QED BY <1>5, <1>6, Zenon DEF Row

----------------------------------------------------------------------------
(* The rows a DELETE collects.                                             *)

UpTo(S, r) == Cardinality({q \in S : q <= r})
Cutoff(s, limit) ==
    IF limit = NoLimit \/ limit >= Len(s) THEN s ELSE SubSeq(s, 1, limit)
Ascends(s) == \A i, j \in DOMAIN s : i < j => s[i] < s[j]

LEMMA UpToPlace ==
    ASSUME NEW n \in Nat, NEW S \in SUBSET (1..n), NEW k \in 1..Cardinality(S)
    PROVE  UpTo(S, InOrder(S)[k]) = k
<1>1. Cardinality({q \in S : q <= InOrder(S)[k]}) = k
  BY FirstInOrder
<1> QED BY <1>1, Zenon DEF UpTo

\* The rows up to one are no more than all.
LEMMA UpToAll ==
    ASSUME NEW n \in Nat, NEW S \in SUBSET (1..n), NEW r
    PROVE  UpTo(S, r) <= Cardinality(S) /\ UpTo(S, r) \in Nat /\ Cardinality(S) \in Nat
<1>1. IsFiniteSet(S)
  BY RowsInOrder
<1>2. PICK F : F = {q \in S : q <= r}
  OBVIOUS
<1>3. F \in SUBSET S
  BY <1>2, Zenon
<1>4. IsFiniteSet(F) /\ Cardinality(F) <= Cardinality(S)
  BY <1>1, <1>3, FS_Subset
<1>5. Cardinality(F) \in Nat /\ Cardinality(S) \in Nat
  BY <1>1, <1>4, FS_CardinalityType
<1>6. UpTo(S, r) = Cardinality(F)
  BY <1>2, Zenon DEF UpTo
<1> QED BY <1>4, <1>5, <1>6

\* LIMIT cuts the rows that match, in order, to the first ones.
LEMMA KeptAreTheFirst ==
    ASSUME NEW n \in Nat, NEW S \in SUBSET (1..n), NEW limit \in {NoLimit} \cup Nat,
           NEW kept, kept = Cutoff(InOrder(S), limit)
    PROVE  /\ kept \in Seq(1..n) /\ Ascends(kept)
           /\ \A r : r \in Range(kept) <=> r \in S /\ (limit = NoLimit \/ UpTo(S, r) <= limit)
<1>1. PICK m \in 0..n : /\ IsFiniteSet(S) /\ Cardinality(S) = m
                        /\ InOrder(S) \in [1..m -> S] /\ Len(InOrder(S)) = m
                        /\ \A i, j \in 1..m : i < j => InOrder(S)[i] < InOrder(S)[j]
                        /\ \A x \in S : \E i \in 1..m : InOrder(S)[i] = x
                        /\ Range(InOrder(S)) = S
  BY RowsInOrder
<1>2. PICK s \in [1..m -> S] : s = InOrder(S)
  BY <1>1
<1>3. m \in Nat /\ Len(s) = m /\ DOMAIN s = 1..m /\ \A i \in 1..m : s[i] \in 1..n
  <2>1. \A x \in S : x \in 1..n
    OBVIOUS
  <2>2. m \in Nat /\ Len(s) = m /\ DOMAIN s = 1..m
    BY <1>1, <1>2
  <2> QED BY <2>1, <2>2
<1>4. /\ \A i, j \in 1..m : i < j => s[i] < s[j]
      /\ \A x \in S : \E i \in 1..m : s[i] = x
      /\ Range(s) = S
  BY <1>1, <1>2
<1>5. \A i \in 1..m : UpTo(S, s[i]) = i
  BY <1>1, <1>2, UpToPlace
<1>6. s \in Seq(1..n)
  <2>1. s \in [1..m -> 1..n]
    BY <1>3
  <2> QED BY <1>3, <2>1
<1>7. CASE limit = NoLimit \/ limit >= m
  <2>1. kept = s
    BY <1>2, <1>3, <1>7 DEF Cutoff
  <2>2. Ascends(s)
    BY <1>3, <1>4 DEF Ascends
  <2>3. ASSUME NEW r PROVE r \in Range(s) <=> r \in S /\ (limit = NoLimit \/ UpTo(S, r) <= limit)
    <3>1. UpTo(S, r) <= m /\ UpTo(S, r) \in Nat
      BY <1>1, UpToAll
    <3>2. limit = NoLimit \/ (limit \in Nat /\ UpTo(S, r) <= limit)
      BY <1>3, <1>7, <3>1
    <3> QED BY <1>4, <3>2
  <2> QED BY <1>6, <2>1, <2>2, <2>3
<1>8. CASE ~(limit = NoLimit \/ limit >= m)
  <2>1. limit \in Nat /\ limit < m /\ limit # NoLimit
    BY <1>3, <1>8
  <2>2. kept = SubSeq(s, 1, limit)
    BY <1>2, <1>3, <1>8 DEF Cutoff
  <2>3. kept \in Seq(1..n) /\ Len(kept) = limit /\ \A i \in 1..limit : kept[i] = s[i]
    <3>1. 1 \in Int /\ limit \in Int /\ \A i \in 1..limit : s[i] \in 1..n
      BY <1>3, <2>1
    <3>2. /\ kept \in Seq(1..n) /\ Len(kept) = IF 1 <= limit THEN limit - 1 + 1 ELSE 0
          /\ \A i \in 1..(limit - 1 + 1) : kept[i] = s[1 + i - 1]
      BY <2>2, <3>1, SubSeqProperties
    <3>3. limit - 1 + 1 = limit /\ \A i \in 1..limit : 1 + i - 1 = i
      BY <2>1
    <3> QED BY <2>1, <3>2, <3>3
  <2>4. DOMAIN kept = 1..limit /\ \A i \in 1..limit : i \in 1..m
    BY <1>3, <2>1, <2>3
  <2>5. Ascends(kept)
    BY <1>4, <2>3, <2>4 DEF Ascends
  <2>6. ASSUME NEW r \in Range(kept) PROVE r \in S /\ UpTo(S, r) <= limit
    <3>1. PICK i \in 1..limit : r = kept[i]
      BY <2>4 DEF Range
    <3>2. r = s[i] /\ i \in 1..m
      BY <2>3, <2>4, <3>1
    <3> QED BY <1>5, <2>1, <3>2
  <2>7. ASSUME NEW r \in S, UpTo(S, r) <= limit PROVE r \in Range(kept)
    <3>1. PICK i \in 1..m : r = s[i]
      BY <1>4
    <3>2. i \in 1..limit
      BY <1>3, <1>5, <2>1, <2>7, <3>1
    <3>3. kept[i] = r
      BY <2>3, <3>1, <3>2
    <3> QED BY <2>4, <3>2, <3>3 DEF Range
  <2> QED BY <2>1, <2>3, <2>5, <2>6, <2>7
<1> QED BY <1>7, <1>8

\* The members of a set that Victims keeps.
LEMMA VictimsAre ==
    ASSUME NEW s, NEW F, F = {r \in DOMAIN last.rows : OldMatch(s.where, r)}
    PROVE  \A r : r \in Victims(s) <=> r \in F /\ (s.limit = NoLimit \/ UpTo(F, r) <= s.limit)
BY Zenon DEF Victims, UpTo

----------------------------------------------------------------------------
(* The inductive invariant: how far a statement has got, in terms of the   *)
(* rows the readers showed (shown) and the rows of the writer (rows) when  *)
(* it began, the rows it has affected (n), its place (k), the rows still   *)
(* to be deleted (h), and the file (f) and the writer (m) now.             *)

MatchIn(s, shown, r) == s.where = NoWhere \/ shown[r] \in s.where

ValueIn(e, shown, r) == IF e \in Column THEN shown[r][e] ELSE e

NewRowIn(s, shown, rows, r) ==
    [c \in Column |->
        LET here == {i \in DOMAIN s.set : s.set[i].column = c}
        IN  IF here = {} THEN rows[r][c] ELSE ValueIn(s.set[Max(here)].value, shown, r)]

UpdatedIn(s, shown, rows) ==
    [r \in DOMAIN rows |-> IF MatchIn(s, shown, r) THEN NewRowIn(s, shown, rows, r) ELSE rows[r]]

FoundIn(s, shown, rows) == {r \in DOMAIN rows : MatchIn(s, shown, r)}

VictimsIn(s, shown, rows) ==
    {r \in FoundIn(s, shown, rows) : s.limit = NoLimit \/ UpTo(FoundIn(s, shown, rows), r) <= s.limit}

BlankRows(n) == [i \in 1..n |-> BlankRow]

\* The rows before k are changed if they matched, and no others.
UpdateRuns(s, shown, rows, n, k, f, m) ==
    /\ f = shown
    /\ Len(m) = Len(rows)
    /\ Len(shown) = Len(rows) =>
        /\ \A r \in 1..Len(rows) :
                m[r] = IF r < k /\ MatchIn(s, shown, r) THEN NewRowIn(s, shown, rows, r) ELSE rows[r]
        /\ n = 0 => m = rows

\* Of the rows to delete the last are gone, from the writer and, but for one,
\* from the file.
DeleteLeaves(s, shown, rows, n, h, f, m) ==
    /\ Ascends(h)
    /\ Range(h) \subseteq VictimsIn(s, shown, rows)
    /\ \A v \in VictimsIn(s, shown, rows) \ Range(h) : \A i \in DOMAIN h : h[i] < v
    /\ m = Without(rows, VictimsIn(s, shown, rows) \ Range(h))
    /\ f = shown \/ \E S \in SUBSET VictimsIn(s, shown, rows) : f = Without(rows, S)
    /\ VictimsIn(s, shown, rows) = {} => n = 0 /\ f = shown
    /\ VictimsIn(s, shown, rows) # {} => n > 0

DeleteRuns(s, shown, rows, n, k, h, f, m) ==
    \/ k = 1 /\ f = shown /\ m = rows
    \/ k = 2 /\ (Len(shown) = Len(rows) => DeleteLeaves(s, shown, rows, n, h, f, m))

\* The lists before k are in, each a whole row.
InsertRuns(s, shown, rows, k, f, m) ==
    /\ k - 1 <= Len(s.lists)
    /\ \A i \in 1..(k - 1) : Len(s.lists[i]) = Len(s.columns)
    /\ m = rows \o Inserted(s, k - 1)
    /\ f = shown \/ \E j \in 0..(k - 1) : f = rows \o Inserted(s, j)

Runs(s, shown, rows, n, k, h, f, m) ==
    /\ s.cmd = "update" => UpdateRuns(s, shown, rows, n, k, f, m)
    /\ s.cmd = "delete" => DeleteRuns(s, shown, rows, n, k, h, f, m)
    /\ s.cmd = "insert" => InsertRuns(s, shown, rows, k, f, m)
    /\ s.cmd = "alter" => m = rows \o BlankRows(n)
    /\ s.cmd = "count" => f = shown /\ m = rows

DeleteStops(s, shown, rows, x) ==
    x = shown \/ \E S \in SUBSET VictimsIn(s, shown, rows) : x = Without(rows, S)

InsertStops(s, shown, rows, f) ==
    \/ f = shown
    \/ \E k \in 0..Len(s.lists) :
          /\ \A i \in 1..k : Len(s.lists[i]) = Len(s.columns)
          /\ f = rows \o Inserted(s, k)

\* What is left of a statement that did not end.
Stops(s, shown, rows, f, m) ==
    /\ s.cmd = "update" => f = shown
    /\ s.cmd = "delete" /\ Len(shown) = Len(rows) =>
            DeleteStops(s, shown, rows, f) /\ DeleteStops(s, shown, rows, m)
    /\ s.cmd = "insert" => InsertStops(s, shown, rows, f)

\* What there is after one that did.
Says(s, shown, rows, n, f, m) ==
    Len(shown) = Len(rows) =>
        /\ s.cmd = "update" =>
                IF n = 0 THEN f = shown /\ m = rows ELSE f = UpdatedIn(s, shown, rows)
        /\ s.cmd = "delete" =>
                IF VictimsIn(s, shown, rows) = {} THEN f = shown /\ m = rows
                ELSE f = Without(rows, VictimsIn(s, shown, rows))
        /\ s.cmd = "insert" => f = rows \o Inserted(s, Len(s.lists))
        /\ s.cmd = "alter" => f = rows \o BlankRows(n)
        /\ s.cmd = "count" =>
                f = shown /\ m = rows /\ n = Cardinality({r \in DOMAIN f : MatchIn(s, shown, r)})

LastRecords ==
    [stmt : Statements \cup {Nothing}, end : Ends, shown : Rows, rows : Rows, affected : Nat]

StatementInv ==
    /\ SessionTypeOK
    /\ stmt \in Statements \cup {Nothing}
    /\ at \in Nat /\ at > 0
    /\ hits \in Seq(1..MaxRows)
    /\ last \in LastRecords
    /\ last.end = "running" <=> stmt # Nothing
    /\ stmt # Nothing =>
        /\ last.stmt = stmt
        /\ Runs(stmt, last.shown, last.rows, last.affected, at, hits, file, mem)
    /\ last.end # "never" => last.stmt \in Statements
    /\ last.end \in {"failed", "crashed"} => Stops(last.stmt, last.shown, last.rows, file, mem)
    /\ last.end = "done" => Says(last.stmt, last.shown, last.rows, last.affected, file, mem)

----------------------------------------------------------------------------
(* From the invariant to the properties.                                   *)

LEMMA SameMatches ==
    /\ \A where, r : OldMatch(where, r) <=> (where = NoWhere \/ last.shown[r] \in where)
    /\ \A s, r : MatchIn(s, last.shown, r) <=> OldMatch(s.where, r)
    /\ \A e, r : ValueIn(e, last.shown, r) = OldValue(e, r)
BY Zenon DEF OldMatch, MatchIn, ValueIn, OldValue

LEMMA SameUpdate == \A s : UpdatedIn(s, last.shown, last.rows) = Updated(s)
BY Zenon DEF UpdatedIn, Updated, NewRowIn, MatchIn, ValueIn, OldMatch, OldValue

LEMMA SameVictims == \A s : VictimsIn(s, last.shown, last.rows) = Victims(s)
BY Zenon DEF VictimsIn, FoundIn, MatchIn, OldMatch, UpTo, Victims

LEMMA EmptyAtFirst ==
    /\ \A s : Inserted(s, 0) = <<>>
    /\ BlankRows(0) = <<>>
<1>1. ASSUME NEW s PROVE Inserted(s, 0) = <<>>
  <2>1. PICK t : t = Inserted(s, 0)
    OBVIOUS
  <2>2. DOMAIN t = 1..0 /\ t = [i \in 1..0 |-> t[i]]
    BY <2>1, Zenon DEF Inserted
  <2>3. t \in [1..0 -> {}]
    BY <2>2
  <2>4. t \in Seq({}) /\ Len(t) = 0
    BY <2>3
  <2> QED BY <2>1, <2>4, EmptySeq
<1>2. BlankRows(0) = <<>>
  <2>1. BlankRows(0) \in [1..0 -> Row]
    BY RowTypes DEF BlankRows
  <2>2. BlankRows(0) \in Seq(Row) /\ Len(BlankRows(0)) = 0
    BY <2>1
  <2> QED BY <2>2, EmptySeq
<1> QED BY <1>1, <1>2

\* A statement that has got so far can stop there.
LEMMA RunsStops ==
    ASSUME NEW s \in Statements, NEW shown \in Seq(Row), NEW rows \in Seq(Row), NEW n,
           NEW k \in Nat, k > 0, NEW h, NEW f, NEW m, Runs(s, shown, rows, n, k, h, f, m)
    PROVE  Stops(s, shown, rows, f, m)
<1>1. ASSUME s.cmd = "update" PROVE f = shown
  BY <1>1 DEF Runs, UpdateRuns
<1>2. ASSUME s.cmd = "delete", Len(shown) = Len(rows)
      PROVE  DeleteStops(s, shown, rows, f) /\ DeleteStops(s, shown, rows, m)
  <2>1. DeleteRuns(s, shown, rows, n, k, h, f, m)
    BY <1>2 DEF Runs
  <2>2. CASE f = shown /\ m = rows
    <3>1. m = Without(rows, {})
      BY <2>2, WithoutNothing
    <3>2. {} \in SUBSET VictimsIn(s, shown, rows)
      OBVIOUS
    <3> QED BY <2>2, <3>1, <3>2, Zenon DEF DeleteStops
  <2>3. CASE DeleteLeaves(s, shown, rows, n, h, f, m)
    <3>1. VictimsIn(s, shown, rows) \ Range(h) \in SUBSET VictimsIn(s, shown, rows)
      OBVIOUS
    <3>2. m = Without(rows, VictimsIn(s, shown, rows) \ Range(h))
      BY <2>3, Zenon DEF DeleteLeaves
    <3>3. DeleteStops(s, shown, rows, m)
      BY <3>1, <3>2, Zenon DEF DeleteStops
    <3>4. DeleteStops(s, shown, rows, f)
      BY <2>3, Zenon DEF DeleteLeaves, DeleteStops
    <3> QED BY <3>3, <3>4
  <2> QED BY <1>2, <2>1, <2>2, <2>3 DEF DeleteRuns
<1>3. ASSUME s.cmd = "insert" PROVE InsertStops(s, shown, rows, f)
  <2>1. InsertRuns(s, shown, rows, k, f, m)
    BY <1>3 DEF Runs
  <2>2. CASE f = shown
    BY <2>2 DEF InsertStops
  <2>3. CASE \E j \in 0..(k - 1) : f = rows \o Inserted(s, j)
    <3>1. PICK j \in 0..(k - 1) : f = rows \o Inserted(s, j)
      BY <2>3
    <3>2. s.lists \in Seq(Seq(Val \cup {Fail}))
      BY <1>3, StatementForms
    <3>3. Len(s.lists) \in Nat /\ k - 1 <= Len(s.lists)
      BY <2>1, <3>2 DEF InsertRuns
    <3>4. j \in 0..Len(s.lists) /\ \A i \in 1..j : i \in 1..(k - 1)
      BY <3>3
    <3>5. \A i \in 1..j : Len(s.lists[i]) = Len(s.columns)
      BY <2>1, <3>4, Zenon DEF InsertRuns
    <3> QED BY <3>1, <3>4, <3>5, Zenon DEF InsertStops
  <2> QED BY <2>1, <2>2, <2>3 DEF InsertRuns
<1> QED BY <1>1, <1>2, <1>3 DEF Stops

LEMMA LastIs ==
    ASSUME last \in LastRecords
    PROVE  /\ last.stmt \in Statements \cup {Nothing} /\ last.end \in Ends
           /\ last.shown \in Rows /\ last.rows \in Rows
           /\ last.shown \in Seq(Row) /\ last.rows \in Seq(Row)
           /\ Len(last.shown) \in Nat /\ Len(last.rows) \in Nat
           /\ Len(last.shown) <= MaxRows /\ Len(last.rows) <= MaxRows
           /\ last.affected \in Nat
<1>1. /\ last.stmt \in Statements \cup {Nothing} /\ last.end \in Ends
      /\ last.shown \in Rows /\ last.rows \in Rows /\ last.affected \in Nat
  BY DEF LastRecords
<1> QED BY <1>1, RowsAreSequences

LEMMA InvTypes == StatementInv => StatementTypeOK
BY LastIs DEF StatementInv, StatementTypeOK

LEMMA InvStops == StatementInv => InterruptedStatementsStop
<1> SUFFICES ASSUME StatementInv PROVE InterruptedStatementsStop
  OBVIOUS
<1>1. ASSUME last.end \in {"running", "failed", "crashed"}
      PROVE  Stops(last.stmt, last.shown, last.rows, file, mem)
  <2>1. CASE last.end = "running"
    <3>1. /\ last.stmt = stmt /\ stmt \in Statements /\ at \in Nat /\ at > 0
          /\ Runs(stmt, last.shown, last.rows, last.affected, at, hits, file, mem)
      BY <2>1 DEF StatementInv
    <3>2. last.shown \in Seq(Row) /\ last.rows \in Seq(Row)
      BY LastIs DEF StatementInv
    <3>3. Stops(stmt, last.shown, last.rows, file, mem)
      BY <3>1, <3>2, RunsStops, Zenon
    <3> QED BY <3>1, <3>3
  <2>2. CASE last.end \in {"failed", "crashed"}
    BY <2>2 DEF StatementInv
  <2> QED BY <1>1, <2>1, <2>2
<1>2. UpdateIsAllOrNothing
  BY <1>1, Zenon DEF UpdateIsAllOrNothing, Stops
<1>3. DeleteTakesOnlyMatches
  <2> SUFFICES ASSUME last.end \in {"running", "failed", "crashed"}, last.stmt.cmd = "delete",
                      Len(last.shown) = Len(last.rows), NEW x \in {file, mem}
               PROVE  \/ x = last.shown
                      \/ \E S \in SUBSET Victims(last.stmt) : x = Without(last.rows, S)
    BY Zenon DEF DeleteTakesOnlyMatches, Settled
  <2>1. DeleteStops(last.stmt, last.shown, last.rows, x)
    BY <1>1, Zenon DEF Stops
  <2>2. VictimsIn(last.stmt, last.shown, last.rows) = Victims(last.stmt)
    BY SameVictims, Zenon
  <2> QED BY <2>1, <2>2, Zenon DEF DeleteStops
<1>4. InsertLeavesWholeRows
  BY <1>1, Zenon DEF InsertLeavesWholeRows, Stops, InsertStops
<1> QED BY <1>2, <1>3, <1>4 DEF InterruptedStatementsStop

LEMMA InvSays == StatementInv => StatementsDoWhatTheySay
<1> SUFFICES ASSUME StatementInv, last.end = "done", Len(last.shown) = Len(last.rows)
             PROVE  /\ last.stmt.cmd = "update" =>
                            IF last.affected = 0 THEN table = <<last.shown, last.rows>>
                            ELSE file = Updated(last.stmt)
                    /\ last.stmt.cmd = "delete" =>
                            IF Victims(last.stmt) = {} THEN table = <<last.shown, last.rows>>
                            ELSE file = Without(last.rows, Victims(last.stmt))
                    /\ last.stmt.cmd = "insert" =>
                            file = last.rows \o Inserted(last.stmt, Len(last.stmt.lists))
                    /\ last.stmt.cmd = "alter" =>
                            file = last.rows \o [i \in 1..last.affected |-> BlankRow]
                    /\ last.stmt.cmd = "count" =>
                            /\ table = <<last.shown, last.rows>>
                            /\ last.affected = Cardinality({r \in DOMAIN file : OldMatch(last.stmt.where, r)})
  BY Zenon DEF StatementsDoWhatTheySay, Settled
<1>1. Says(last.stmt, last.shown, last.rows, last.affected, file, mem)
  BY DEF StatementInv
<1>2. VictimsIn(last.stmt, last.shown, last.rows) = Victims(last.stmt)
  BY SameVictims, Zenon
<1>3. UpdatedIn(last.stmt, last.shown, last.rows) = Updated(last.stmt)
  BY SameUpdate, Zenon
<1>4. file = last.shown /\ mem = last.rows => table = <<last.shown, last.rows>>
  BY Zenon DEF table
<1>5. BlankRows(last.affected) = [i \in 1..last.affected |-> BlankRow]
  BY Zenon DEF BlankRows
<1>6. {r \in DOMAIN file : MatchIn(last.stmt, last.shown, r)} = {r \in DOMAIN file : OldMatch(last.stmt.where, r)}
  BY Zenon DEF MatchIn, OldMatch
<1>7. last.stmt.cmd = "update" =>
        IF last.affected = 0 THEN table = <<last.shown, last.rows>> ELSE file = Updated(last.stmt)
  BY <1>1, <1>3, <1>4, Zenon DEF Says
<1>8. last.stmt.cmd = "delete" =>
        IF Victims(last.stmt) = {} THEN table = <<last.shown, last.rows>>
        ELSE file = Without(last.rows, Victims(last.stmt))
  BY <1>1, <1>2, <1>4, Zenon DEF Says
<1>9. last.stmt.cmd = "insert" => file = last.rows \o Inserted(last.stmt, Len(last.stmt.lists))
  BY <1>1, Zenon DEF Says
<1>10. last.stmt.cmd = "alter" => file = last.rows \o [i \in 1..last.affected |-> BlankRow]
  BY <1>1, <1>5, Zenon DEF Says
<1>11. last.stmt.cmd = "count" =>
        /\ table = <<last.shown, last.rows>>
        /\ last.affected = Cardinality({r \in DOMAIN file : OldMatch(last.stmt.where, r)})
  BY <1>1, <1>4, <1>6, Zenon DEF Says
<1> QED BY <1>7, <1>8, <1>9, <1>10, <1>11, Zenon

----------------------------------------------------------------------------
(* The steps.                                                              *)

\* A statement goes on.
LEMMA GoesOn ==
    ASSUME StatementInv, stmt # Nothing, NEW n \in Nat,
           last' = [last EXCEPT !.affected = n], stmt' = stmt,
           at' \in Nat, at' > 0, hits' \in Seq(1..MaxRows), file' \in Rows, mem' \in Rows,
           Runs(stmt, last.shown, last.rows, n, at', hits', file', mem')
    PROVE  StatementInv'
<1>1. last \in LastRecords /\ last.end = "running" /\ last.stmt = stmt /\ stmt \in Statements
  BY DEF StatementInv
<1>2. /\ last' \in LastRecords /\ last'.end = "running" /\ last'.stmt = stmt
      /\ last'.shown = last.shown /\ last'.rows = last.rows /\ last'.affected = n
  BY <1>1 DEF LastRecords
<1>3. Runs(stmt', last'.shown, last'.rows, last'.affected, at', hits', file', mem')
  BY <1>2, Zenon
<1>4. SessionTypeOK'
  BY DEF SessionTypeOK
<1> QED BY <1>1, <1>2, <1>3, <1>4 DEF StatementInv

\* A statement goes on, and nothing more is affected.
LEMMA GoesOnSame ==
    ASSUME StatementInv, stmt # Nothing, last' = last, stmt' = stmt,
           at' \in Nat, at' > 0, hits' \in Seq(1..MaxRows), file' \in Rows, mem' \in Rows,
           Runs(stmt, last.shown, last.rows, last.affected, at', hits', file', mem')
    PROVE  StatementInv'
<1>1. last.affected \in Nat
  BY LastIs DEF StatementInv
<1>2. last' = [last EXCEPT !.affected = last.affected]
  BY DEF StatementInv, LastRecords
<1> QED BY <1>1, <1>2, GoesOn

\* A statement throws.
LEMMA Throws ==
    ASSUME StatementInv, stmt # Nothing, End("failed"), file' \in Rows, mem' \in Rows,
           Stops(stmt, last.shown, last.rows, file', mem')
    PROVE  StatementInv'
<1>1. last \in LastRecords /\ last.stmt = stmt /\ stmt \in Statements
  BY DEF StatementInv
<1>2. last' = [last EXCEPT !.end = "failed"] /\ stmt' = Nothing /\ at' = 1 /\ hits' = <<>>
  BY DEF End
<1>3. /\ last' \in LastRecords /\ last'.end = "failed" /\ last'.stmt = stmt
      /\ last'.shown = last.shown /\ last'.rows = last.rows
  BY <1>1, <1>2 DEF LastRecords, Ends
<1>4. Stops(last'.stmt, last'.shown, last'.rows, file', mem')
  BY <1>3, Zenon
<1>5. SessionTypeOK' /\ hits' \in Seq(1..MaxRows)
  BY <1>2 DEF SessionTypeOK
<1>6. /\ stmt' \in Statements \cup {Nothing} /\ at' \in Nat /\ at' > 0
      /\ ~(stmt' # Nothing) /\ last'.end # "running" /\ last'.end # "done"
      /\ last'.stmt \in Statements
  BY <1>1, <1>2, <1>3
<1> QED BY <1>3, <1>4, <1>5, <1>6 DEF StatementInv

\* A statement returns.
LEMMA Returns ==
    ASSUME StatementInv, stmt # Nothing, stmt' = Nothing, at' = 1, hits' = <<>>, NEW n \in Nat,
           last' = [last EXCEPT !.end = "done", !.affected = n],
           file' \in Rows, mem' \in Rows,
           Says(stmt, last.shown, last.rows, n, file', mem')
    PROVE  StatementInv'
<1>1. last \in LastRecords /\ last.stmt = stmt /\ stmt \in Statements
  BY DEF StatementInv
<1>3. /\ last' \in LastRecords /\ last'.end = "done" /\ last'.stmt = stmt
      /\ last'.shown = last.shown /\ last'.rows = last.rows /\ last'.affected = n
  BY <1>1 DEF LastRecords, Ends
<1>4. Says(last'.stmt, last'.shown, last'.rows, last'.affected, file', mem')
  BY <1>3, Zenon
<1>5. SessionTypeOK' /\ hits' \in Seq(1..MaxRows)
  BY DEF SessionTypeOK
<1>6. /\ stmt' \in Statements \cup {Nothing} /\ at' \in Nat /\ at' > 0
      /\ ~(stmt' # Nothing) /\ last'.end # "running" /\ last'.end \notin {"failed", "crashed"}
      /\ last'.stmt \in Statements
  BY <1>1, <1>3
<1> QED BY <1>3, <1>4, <1>5, <1>6 DEF StatementInv

LEMMA ReturnsSame ==
    ASSUME StatementInv, stmt # Nothing, End("done"), file' \in Rows, mem' \in Rows,
           Says(stmt, last.shown, last.rows, last.affected, file', mem')
    PROVE  StatementInv'
<1>1. last.affected \in Nat
  BY LastIs DEF StatementInv
<1>2. last' = [last EXCEPT !.end = "done", !.affected = last.affected]
  BY DEF End, StatementInv, LastRecords
<1>3. stmt' = Nothing /\ at' = 1 /\ hits' = <<>>
  BY DEF End
<1> QED BY <1>1, <1>2, <1>3, Returns

\* What is known while a statement runs.
LEMMA RunningIs ==
    ASSUME StatementInv, stmt # Nothing
    PROVE  /\ stmt \in Statements /\ last.stmt = stmt /\ last.end = "running"
           /\ Runs(stmt, last.shown, last.rows, last.affected, at, hits, file, mem)
           /\ at \in Nat /\ at > 0 /\ hits \in Seq(1..MaxRows)
           /\ file \in Rows /\ mem \in Rows /\ file \in Seq(Row) /\ mem \in Seq(Row)
           /\ nrow = Len(mem) /\ nrow \in Nat /\ nrow <= MaxRows
           /\ last.shown \in Seq(Row) /\ last.rows \in Seq(Row) /\ last.affected \in Nat
           /\ Len(last.shown) \in Nat /\ Len(last.rows) \in Nat /\ MaxRows \in Nat
<1>1. /\ stmt \in Statements /\ last.stmt = stmt /\ last.end = "running"
      /\ Runs(stmt, last.shown, last.rows, last.affected, at, hits, file, mem)
      /\ at \in Nat /\ at > 0 /\ hits \in Seq(1..MaxRows)
      /\ file \in Rows /\ mem \in Rows
  BY DEF StatementInv, SessionTypeOK
<1>2. /\ last.shown \in Seq(Row) /\ last.rows \in Seq(Row) /\ last.affected \in Nat
      /\ Len(last.shown) \in Nat /\ Len(last.rows) \in Nat
  BY LastIs DEF StatementInv
<1>3. file \in Seq(Row) /\ mem \in Seq(Row) /\ Len(mem) <= MaxRows
  BY <1>1, RowsAreSequences
<1>4. nrow = Len(mem) /\ nrow \in Nat /\ nrow <= MaxRows /\ MaxRows \in Nat
  BY <1>3, TableSessionAssumption DEF nrow
<1> QED BY <1>1, <1>2, <1>3, <1>4

\* The statement that begins has done nothing yet.
LEMMA BeginStep ==
    ASSUME StatementInv, NEW s \in Statements, Begin(s)
    PROVE  StatementInv'
<1>1. /\ file \in Rows /\ mem \in Rows /\ file \in Seq(Row) /\ mem \in Seq(Row)
      /\ s # Nothing
  BY RowsAreSequences, TaqlAssumption DEF StatementInv, SessionTypeOK
<1>2. /\ stmt' = s /\ at' = 1 /\ hits' = <<>> /\ file' = file /\ mem' = mem
      /\ last' = [stmt |-> s, end |-> "running", shown |-> file, rows |-> mem, affected |-> 0]
  BY DEF Begin, table
<1>3. /\ last' \in LastRecords /\ last'.end = "running" /\ last'.stmt = s
      /\ last'.shown = file /\ last'.rows = mem /\ last'.affected = 0
  BY <1>1, <1>2 DEF LastRecords, Ends
<1>4. Runs(s, file, mem, 0, 1, <<>>, file, mem)
  <2>1. UpdateRuns(s, file, mem, 0, 1, file, mem)
    BY DEF UpdateRuns
  <2>2. DeleteRuns(s, file, mem, 0, 1, <<>>, file, mem)
    BY DEF DeleteRuns
  <2>3. mem \o Inserted(s, 0) = mem /\ mem \o BlankRows(0) = mem
    BY <1>1, EmptyAtFirst, ConcatEmptySeq
  <2>4. ASSUME s.cmd = "insert" PROVE InsertRuns(s, file, mem, 1, file, mem)
    <3>1. s.lists \in Seq(Seq(Val \cup {Fail}))
      BY <2>4, StatementForms
    <3>2. 1 - 1 = 0 /\ 0 <= Len(s.lists) /\ ~ \E i : i \in 1..0
      BY <3>1
    <3> QED BY <2>3, <3>2 DEF InsertRuns
  <2> QED BY <2>1, <2>2, <2>3, <2>4 DEF Runs
<1>5. Runs(stmt', last'.shown, last'.rows, last'.affected, at', hits', file', mem')
  BY <1>2, <1>3, <1>4, Zenon
<1>6. SessionTypeOK' /\ hits' \in Seq(1..MaxRows) /\ at' \in Nat /\ at' > 0
  BY <1>1, <1>2 DEF SessionTypeOK
<1>7. stmt' \in Statements \cup {Nothing} /\ stmt' # Nothing /\ last'.stmt = stmt'
  BY <1>1, <1>2, <1>3
<1> QED BY <1>3, <1>5, <1>6, <1>7 DEF StatementInv

\* One row of an UPDATE.
LEMMA UpdateRowStep ==
    ASSUME StatementInv, UpdateRow
    PROVE  StatementInv'
<1>1. /\ stmt \in Statements /\ stmt # Nothing /\ stmt.cmd = "update"
      /\ Runs(stmt, last.shown, last.rows, last.affected, at, hits, file, mem)
      /\ at \in Nat /\ at > 0 /\ hits \in Seq(1..MaxRows) /\ at <= Len(mem)
      /\ file \in Rows /\ mem \in Rows /\ file \in Seq(Row) /\ mem \in Seq(Row)
      /\ last.rows \in Seq(Row) /\ last.affected \in Nat /\ Len(mem) <= MaxRows
  BY RunningIs DEF UpdateRow
<1>2. PICK s : s = stmt
  OBVIOUS
<1>3. s \in Statements /\ s.cmd = "update" /\ s.set \in Seq(Assignment)
  BY <1>1, <1>2, StatementForms
<1>4. UpdateRuns(s, last.shown, last.rows, last.affected, at, file, mem)
  BY <1>1, <1>2 DEF Runs
<1>5. file = last.shown /\ Len(mem) = Len(last.rows)
  BY <1>4 DEF UpdateRuns
<1>6. PICK r \in 1..Len(mem) : r = at
  BY <1>1
<1>7. \A f, m, n, k, h : UpdateRuns(s, last.shown, last.rows, n, k, f, m) =>
                            Runs(s, last.shown, last.rows, n, k, h, f, m)
  BY <1>3 DEF Runs
<1>8. \A f, m : f = last.shown => Stops(s, last.shown, last.rows, f, m)
  BY <1>3 DEF Stops
<1>9. CASE WhereThrows(stmt.where, at)
  <2>1. End("failed") /\ file' = file /\ mem' = mem
    BY <1>9 DEF UpdateRow, table
  <2>2. Stops(stmt, last.shown, last.rows, file', mem')
    BY <1>2, <1>5, <1>8, <2>1
  <2> QED BY <1>1, <2>1, <2>2, Throws
<1>10. CASE ~WhereThrows(stmt.where, at) /\ ~Matches(stmt.where, at)
  <2>1. at' = at + 1 /\ file' = file /\ mem' = mem /\ stmt' = stmt /\ hits' = hits /\ last' = last
    BY <1>10 DEF UpdateRow, table
  <2>2. ~MatchIn(s, last.shown, r)
    BY <1>2, <1>5, <1>6, <1>10, Zenon DEF MatchIn, Matches
  <2>3. UpdateRuns(s, last.shown, last.rows, last.affected, at', file', mem')
    <3>1. ASSUME Len(last.shown) = Len(last.rows), NEW q \in 1..Len(last.rows)
          PROVE  mem[q] = IF q < at + 1 /\ MatchIn(s, last.shown, q)
                              THEN NewRowIn(s, last.shown, last.rows, q) ELSE last.rows[q]
      <4>1. mem[q] = IF q < at /\ MatchIn(s, last.shown, q)
                              THEN NewRowIn(s, last.shown, last.rows, q) ELSE last.rows[q]
        BY <1>4, <3>1 DEF UpdateRuns
      <4>2. q = at \/ (q < at + 1 <=> q < at)
        BY <1>1
      <4>3. q = at => ~MatchIn(s, last.shown, q) /\ ~(q < at)
        BY <1>1, <1>6, <2>2
      <4> QED BY <4>1, <4>2, <4>3
    <3> QED BY <1>4, <2>1, <3>1 DEF UpdateRuns
  <2>4. Runs(stmt, last.shown, last.rows, last.affected, at', hits', file', mem')
    BY <1>2, <1>7, <2>3
  <2>5. at' \in Nat /\ at' > 0
    BY <1>1, <2>1
  <2> QED BY <1>1, <2>1, <2>4, <2>5, GoesOnSame
<1>11. CASE ~WhereThrows(stmt.where, at) /\ Matches(stmt.where, at)
  <2>1. PICK new \in Row : new = Assigned(stmt.set, at)
    BY <1>1, <1>2, <1>3, <1>6, AssignedType
  <2>2. mem' = [mem EXCEPT ![at] = new] /\ file' = file
    BY <1>11, <2>1 DEF UpdateRow
  <2>3. mem' \in Seq(Row) /\ Len(mem') = Len(mem) /\ mem'[r] = new /\ \A q \in 1..Len(mem) : q # r => mem'[q] = mem[q]
    BY <1>1, <1>6, <2>2, ExceptSeq
  <2>4. mem' \in Rows
    BY <1>1, <2>3, RowsAreSequences
  <2>5. CASE ~AllEvaluate(stmt.set, at)
    <3>1. End("failed")
      BY <1>11, <2>5 DEF UpdateRow
    <3>2. Stops(stmt, last.shown, last.rows, file', mem')
      BY <1>2, <1>5, <1>8, <2>2
    <3> QED BY <1>1, <2>2, <2>4, <3>1, <3>2, Throws
  <2>6. CASE AllEvaluate(stmt.set, at)
    <3>1. /\ at' = at + 1 /\ stmt' = stmt /\ hits' = hits
          /\ last' = [last EXCEPT !.affected = last.affected + 1]
      BY <1>11, <2>6 DEF UpdateRow
    <3>2. MatchIn(s, last.shown, r)
      BY <1>2, <1>5, <1>6, <1>11, Zenon DEF MatchIn, Matches
    <3>3. ASSUME Len(last.shown) = Len(last.rows) PROVE new = NewRowIn(s, last.shown, last.rows, r)
      <4>1. mem[r] = last.rows[r]
        <5>1. mem[r] = IF r < at /\ MatchIn(s, last.shown, r)
                              THEN NewRowIn(s, last.shown, last.rows, r) ELSE last.rows[r]
          BY <1>4, <1>5, <3>3 DEF UpdateRuns
        <5> QED BY <1>1, <1>6, <5>1
      <4>2. Assigned(s.set, r) = NewRow(s, r)
        BY <1>2, <1>3, <1>5, <1>6, <2>6, <4>1, AssignedWhole
      <4>3. NewRow(s, r) = NewRowIn(s, last.shown, last.rows, r)
        BY Zenon DEF NewRow, NewRowIn, OldValue, ValueIn
      <4> QED BY <1>2, <1>6, <2>1, <4>2, <4>3
    <3>4. ASSUME Len(last.shown) = Len(last.rows), NEW q \in 1..Len(last.rows)
          PROVE  mem'[q] = IF q < at + 1 /\ MatchIn(s, last.shown, q)
                              THEN NewRowIn(s, last.shown, last.rows, q) ELSE last.rows[q]
      <4>1. mem[q] = IF q < at /\ MatchIn(s, last.shown, q)
                              THEN NewRowIn(s, last.shown, last.rows, q) ELSE last.rows[q]
        BY <1>4, <3>4 DEF UpdateRuns
      <4>2. CASE q = r
        BY <1>1, <1>6, <2>3, <3>2, <3>3, <3>4, <4>2
      <4>3. CASE q # r
        <5>1. mem'[q] = mem[q]
          BY <1>5, <2>3, <4>3
        <5>2. q < at + 1 <=> q < at
          BY <1>1, <1>6, <4>3
        <5> QED BY <4>1, <5>1, <5>2
      <4> QED BY <4>2, <4>3
    <3>5. last.affected + 1 \in Nat /\ last.affected + 1 # 0
      BY <1>1
    <3>6. UpdateRuns(s, last.shown, last.rows, last.affected + 1, at', file', mem')
      BY <1>5, <2>2, <2>3, <3>1, <3>4, <3>5 DEF UpdateRuns
    <3>7. Runs(stmt, last.shown, last.rows, last.affected + 1, at', hits', file', mem')
      BY <1>2, <1>7, <3>6
    <3>8. at' \in Nat /\ at' > 0
      BY <1>1, <3>1
    <3> QED BY <1>1, <2>2, <2>4, <3>1, <3>5, <3>7, <3>8, GoesOn
  <2> QED BY <2>5, <2>6
<1> QED BY <1>9, <1>10, <1>11

\* The end of an UPDATE.
LEMMA UpdateEndStep ==
    ASSUME StatementInv, UpdateEnd
    PROVE  StatementInv'
<1>1. /\ stmt \in Statements /\ stmt # Nothing /\ stmt.cmd = "update"
      /\ Runs(stmt, last.shown, last.rows, last.affected, at, hits, file, mem)
      /\ at \in Nat /\ at > Len(mem)
      /\ file \in Rows /\ mem \in Rows /\ mem \in Seq(Row)
      /\ last.rows \in Seq(Row) /\ last.affected \in Nat
  BY RunningIs DEF UpdateEnd
<1>2. PICK s : s = stmt
  OBVIOUS
<1>3. UpdateRuns(s, last.shown, last.rows, last.affected, at, file, mem)
  BY <1>1, <1>2 DEF Runs
<1>4. file = last.shown /\ Len(mem) = Len(last.rows)
  BY <1>3 DEF UpdateRuns
<1>5. End("done") /\ mem' = mem /\ file' = IF last.affected > 0 THEN mem ELSE file
  BY DEF UpdateEnd, Flush, table
<1>6. ASSUME Len(last.shown) = Len(last.rows)
      PROVE  IF last.affected = 0 THEN file' = last.shown /\ mem' = last.rows
             ELSE file' = UpdatedIn(s, last.shown, last.rows)
  <2>1. CASE last.affected = 0
    <3>1. mem = last.rows
      BY <1>3, <1>6, <2>1 DEF UpdateRuns
    <3> QED BY <1>4, <1>5, <2>1, <3>1
  <2>2. CASE last.affected # 0
    <3>1. file' = mem
      BY <1>1, <1>5, <2>2
    <3>2. ASSUME NEW q \in 1..Len(last.rows)
          PROVE  mem[q] = IF MatchIn(s, last.shown, q)
                              THEN NewRowIn(s, last.shown, last.rows, q) ELSE last.rows[q]
      <4>1. q < at
        BY <1>1, <1>4
      <4> QED BY <1>3, <1>6, <4>1 DEF UpdateRuns
    <3>3. PICK n \in Nat : n = Len(last.rows) /\ DOMAIN last.rows = 1..n /\ DOMAIN mem = 1..n
      BY <1>1, <1>4
    <3>4. mem = [q \in 1..n |-> mem[q]]
      BY <1>1, <3>3
    <3>5. UpdatedIn(s, last.shown, last.rows) =
            [q \in 1..n |-> IF MatchIn(s, last.shown, q)
                              THEN NewRowIn(s, last.shown, last.rows, q) ELSE last.rows[q]]
      BY <3>3, Zenon DEF UpdatedIn
    <3>6. mem = UpdatedIn(s, last.shown, last.rows)
      BY <3>2, <3>3, <3>4, <3>5
    <3> QED BY <2>2, <3>1, <3>6
  <2> QED BY <2>1, <2>2
<1>7. Says(s, last.shown, last.rows, last.affected, file', mem')
  BY <1>1, <1>2, <1>6 DEF Says
<1>8. file' \in Rows /\ mem' \in Rows
  BY <1>1, <1>5
<1> QED BY <1>1, <1>2, <1>5, <1>7, <1>8, ReturnsSame

\* The rows a DELETE is to remove are collected.
LEMMA DeleteScanStep ==
    ASSUME StatementInv, DeleteScan
    PROVE  StatementInv'
<1>1. /\ stmt \in Statements /\ stmt # Nothing /\ stmt.cmd = "delete" /\ at = 1
      /\ Runs(stmt, last.shown, last.rows, last.affected, at, hits, file, mem)
      /\ file \in Rows /\ mem \in Rows /\ mem \in Seq(Row)
      /\ last.shown \in Seq(Row) /\ last.rows \in Seq(Row)
      /\ nrow = Len(mem) /\ nrow \in Nat /\ nrow <= MaxRows /\ MaxRows \in Nat
  BY RunningIs DEF DeleteScan
<1>2. PICK s : s = stmt
  OBVIOUS
<1>3. s.cmd = "delete" /\ s.limit \in {NoLimit} \cup Nat
  BY <1>1, <1>2, StatementForms
<1>4. file = last.shown /\ mem = last.rows
  BY <1>1 DEF Runs, DeleteRuns
<1>5. file' = file /\ mem' = mem
  BY DEF DeleteScan, table
<1>6. CASE \E r \in 1..nrow : WhereThrows(stmt.where, r)
  <2>1. End("failed")
    BY <1>6, Zenon DEF DeleteScan
  <2>2. at \in Nat /\ at > 0
    BY <1>1
  <2>3. Stops(stmt, last.shown, last.rows, file, mem)
    BY <1>1, <2>2, RunsStops, Zenon
  <2> QED BY <1>1, <1>5, <2>1, <2>3, Throws
<1>7. CASE ~ \E r \in 1..nrow : WhereThrows(stmt.where, r)
  <2>1. PICK F : F = {r \in 1..nrow : Matches(stmt.where, r)}
    OBVIOUS
  <2>2. PICK kept : kept = Cutoff(InOrder(F), s.limit)
    OBVIOUS
  <2>3. /\ hits' = kept /\ at' = 2 /\ stmt' = stmt
        /\ last' = [last EXCEPT !.affected = Len(kept)]
    BY <1>2, <1>7, <2>1, <2>2, Zenon DEF DeleteScan, Cutoff
  <2>4. DOMAIN last.rows = 1..nrow
    BY <1>1, <1>4
  <2>5. F = FoundIn(s, last.shown, last.rows)
    BY <1>2, <1>4, <2>1, <2>4, Zenon DEF FoundIn, Matches, MatchIn
  <2>6. F \in SUBSET (1..nrow)
    BY <2>1, Zenon
  <2>7. /\ kept \in Seq(1..nrow) /\ Ascends(kept)
        /\ \A r : r \in Range(kept) <=> r \in F /\ (s.limit = NoLimit \/ UpTo(F, r) <= s.limit)
    BY <1>1, <1>3, <2>2, <2>6, KeptAreTheFirst
  <2>8. PICK V : V = VictimsIn(s, last.shown, last.rows)
    OBVIOUS
  <2>9. \A r : r \in V <=> r \in F /\ (s.limit = NoLimit \/ UpTo(F, r) <= s.limit)
    BY <2>5, <2>8, Zenon DEF VictimsIn
  <2>10. Range(kept) = V
    BY <2>7, <2>9
  <2>11. kept \in Seq(1..MaxRows) /\ Len(kept) \in Nat
    <3>1. 1..nrow \subseteq 1..MaxRows
      BY <1>1
    <3> QED BY <2>7, <3>1, SeqMonotonic, LenProperties
  <2>12. V = {} => Len(kept) = 0
    <3>1. ASSUME Len(kept) # 0 PROVE V # {}
      <4>1. 1 \in DOMAIN kept
        BY <2>7, <2>11, <3>1
      <4>2. kept[1] \in Range(kept)
        BY <4>1, Zenon DEF Range
      <4> QED BY <2>10, <4>2
    <3> QED BY <3>1
  <2>13. V # {} => Len(kept) > 0
    <3>1. ASSUME Len(kept) = 0 PROVE V = {}
      <4>1. ~ \E i : i \in DOMAIN kept
        BY <2>7, <3>1
      <4>2. Range(kept) = {}
        BY <4>1 DEF Range
      <4> QED BY <2>10, <4>2
    <3> QED BY <2>11, <3>1
  <2>14. V \ Range(kept) = {} /\ last.rows = Without(last.rows, {})
    BY <1>1, <2>10, WithoutNothing
  <2>15. DeleteLeaves(s, last.shown, last.rows, Len(kept), kept, file, mem)
    BY <1>4, <2>7, <2>8, <2>10, <2>12, <2>13, <2>14 DEF DeleteLeaves
  <2>16. Runs(stmt, last.shown, last.rows, Len(kept), at', hits', file', mem')
    BY <1>2, <1>3, <1>5, <2>3, <2>15 DEF Runs, DeleteRuns
  <2>17. at' \in Nat /\ at' > 0 /\ hits' \in Seq(1..MaxRows)
    BY <2>3, <2>11
  <2> QED BY <1>1, <1>5, <2>3, <2>11, <2>16, <2>17, GoesOn
<1> QED BY <1>6, <1>7

\* One row is deleted, the last of those that are left.
LEMMA DeleteRowStep ==
    ASSUME StatementInv, DeleteRow
    PROVE  StatementInv'
<1>1. /\ stmt \in Statements /\ stmt # Nothing /\ stmt.cmd = "delete" /\ at = 2
      /\ Runs(stmt, last.shown, last.rows, last.affected, at, hits, file, mem)
      /\ file \in Rows /\ mem \in Rows /\ mem \in Seq(Row)
      /\ last.shown \in Seq(Row) /\ last.rows \in Seq(Row) /\ last.affected \in Nat
      /\ hits \in Seq(1..MaxRows) /\ hits # <<>>
      /\ nrow = Len(mem) /\ nrow \in Nat /\ nrow <= MaxRows /\ MaxRows \in Nat
  BY RunningIs DEF DeleteRow
<1>2. PICK s : s = stmt
  OBVIOUS
<1>3. s.cmd = "delete"
  BY <1>1, <1>2
<1>4. PICK c \in Nat : c = Len(hits) /\ c > 0 /\ DOMAIN hits = 1..c
  BY <1>1, EmptySeq, LenProperties
<1>5. PICK r \in 1..MaxRows : r = hits[c]
  BY <1>1, <1>4
<1>6. NextHit.row = r /\ NextHit.rest = SubSeq(hits, 1, c - 1)
  BY <1>4, <1>5 DEF NextHit, Last, Front
<1>7. CASE r > nrow
  <2>1. End("failed") /\ file' = file /\ mem' = mem
    BY <1>6, <1>7 DEF DeleteRow, table
  <2>2. at \in Nat /\ at > 0
    BY <1>1
  <2>3. Stops(stmt, last.shown, last.rows, file, mem)
    BY <1>1, <2>2, RunsStops, Zenon
  <2> QED BY <1>1, <2>1, <2>3, Throws
<1>8. CASE ~(r > nrow)
  <2>1. /\ file' = mem /\ mem' = RemoveAt(mem, r) /\ hits' = SubSeq(hits, 1, c - 1)
        /\ stmt' = stmt /\ at' = at /\ last' = last
    BY <1>6, <1>8 DEF DeleteRow, RemoveRow
  <2>2. r \in 1..Len(mem)
    BY <1>1, <1>8
  <2>3. mem' \in Rows
    <3>1. mem' = [i \in 1..(Len(mem) - 1) |-> IF i < r THEN mem[i] ELSE mem[i + 1]]
      BY <1>1, <2>1, <2>2, RemoveAtIs
    <3>2. \A i \in 1..(Len(mem) - 1) : i \in 1..Len(mem) /\ i + 1 \in 1..Len(mem)
      BY <1>1
    <3>3. \A i \in 1..(Len(mem) - 1) : (IF i < r THEN mem[i] ELSE mem[i + 1]) \in Row
      BY <1>1, <3>2
    <3>4. mem' \in [1..(Len(mem) - 1) -> Row] /\ Len(mem) - 1 \in Nat
      BY <1>1, <2>2, <3>1, <3>3
    <3>5. mem' \in Seq(Row) /\ Len(mem') = Len(mem) - 1
      BY <3>4
    <3>6. Len(mem') <= MaxRows
      BY <1>1, <3>5
    <3> QED BY <3>5, <3>6, RowsAreSequences
  <2>4. PICK h : h = hits'
    OBVIOUS
  <2>5. /\ h \in Seq(1..MaxRows) /\ Len(h) = c - 1 /\ DOMAIN h = 1..(c - 1)
        /\ \A i \in 1..(c - 1) : h[i] = hits[i]
    <3>1. 1 \in Int /\ c - 1 \in Int /\ \A i \in 1..(c - 1) : hits[i] \in 1..MaxRows
      BY <1>1, <1>4
    <3>2. /\ h \in Seq(1..MaxRows)
          /\ Len(h) = IF 1 <= c - 1 THEN (c - 1) - 1 + 1 ELSE 0
          /\ \A i \in 1..((c - 1) - 1 + 1) : h[i] = hits[1 + i - 1]
      BY <2>1, <2>4, <3>1, SubSeqProperties
    <3>3. (c - 1) - 1 + 1 = c - 1 /\ \A i \in 1..(c - 1) : 1 + i - 1 = i
      BY <1>4
    <3> QED BY <1>4, <3>2, <3>3
  <2>6. ASSUME Len(last.shown) = Len(last.rows)
        PROVE  DeleteLeaves(s, last.shown, last.rows, last.affected, h, file', mem')
    <3>1. DeleteLeaves(s, last.shown, last.rows, last.affected, hits, file, mem)
      BY <1>1, <1>2, <2>6 DEF Runs, DeleteRuns
    <3>2. PICK V : V = VictimsIn(s, last.shown, last.rows)
      OBVIOUS
    <3>3. PICK G : G = V \ Range(hits)
      OBVIOUS
    <3>4. /\ \A i, j \in 1..c : i < j => hits[i] < hits[j]
          /\ Range(hits) \subseteq V
          /\ \A v \in G : \A i \in 1..c : hits[i] < v
          /\ mem = Without(last.rows, G)
          /\ V # {} => last.affected > 0
      BY <1>4, <3>1, <3>2, <3>3, Zenon DEF DeleteLeaves, Ascends
    <3>5. \A v \in V : v \in 1..Len(last.rows)
      <4>1. \A v \in V : v \in DOMAIN last.rows
        BY <3>2, Zenon DEF VictimsIn, FoundIn
      <4> QED BY <1>1, <4>1
    <3>6. c \in 1..c /\ \A i \in 1..(c - 1) : i \in 1..c /\ i < c
      BY <1>4
    <3>7. r \in Range(hits)
      BY <1>4, <1>5, <3>6, Zenon DEF Range
    <3>8. r \in V /\ r \notin G /\ r \in 1..Len(last.rows)
      BY <3>3, <3>4, <3>5, <3>7
    <3>9. \A g \in G : g \in Int /\ r < g
      BY <1>5, <3>3, <3>4, <3>5, <3>6
    <3>10. mem' = Without(last.rows, G \cup {r})
      BY <1>1, <2>1, <3>4, <3>8, <3>9, WithoutMore
    <3>11. \A x : x \in Range(hits) <=> x \in Range(h) \/ x = r
      <4>1. ASSUME NEW i \in 1..c PROVE i = c \/ i \in 1..(c - 1)
        BY <1>4
      <4>2. \A x : x \in Range(hits) <=> \E i \in 1..c : x = hits[i]
        BY <1>4, Zenon DEF Range
      <4>3. \A x : x \in Range(h) <=> \E i \in 1..(c - 1) : x = h[i]
        BY <2>5, Zenon DEF Range
      <4> QED BY <1>5, <2>5, <3>6, <4>1, <4>2, <4>3
    <3>12. r \notin Range(h)
      <4>1. ASSUME NEW i \in 1..(c - 1) PROVE h[i] < r
        BY <1>5, <2>5, <3>4, <3>6
      <4>2. ASSUME NEW i \in DOMAIN h PROVE h[i] # r
        <5>1. i \in 1..(c - 1)
          BY <2>5
        <5>2. h[i] < r
          BY <4>1, <5>1
        <5>3. r \in Int /\ ~(r < r)
          OBVIOUS
        <5> QED BY <5>2, <5>3
      <4> QED BY <4>2 DEF Range
    <3>13. V \ Range(h) = G \cup {r}
      BY <3>3, <3>8, <3>11, <3>12
    <3>14. Ascends(h)
      BY <2>5, <3>4, <3>6 DEF Ascends
    <3>15. Range(h) \subseteq V
      BY <3>4, <3>11
    <3>16. \A v \in V \ Range(h) : \A i \in DOMAIN h : h[i] < v
      <4> SUFFICES ASSUME NEW v \in V \ Range(h), NEW i \in DOMAIN h PROVE h[i] < v
        OBVIOUS
      <4>1. v \in G \/ v = r
        BY <3>13
      <4>2. i \in 1..(c - 1) /\ i \in 1..c /\ i < c /\ h[i] = hits[i]
        BY <2>5, <3>6
      <4>3. hits[i] < r
        BY <1>5, <3>4, <3>6, <4>2
      <4> QED BY <3>4, <4>1, <4>2, <4>3
    <3>17. \E S \in SUBSET V : file' = Without(last.rows, S)
      <4>1. G \in SUBSET V
        BY <3>3
      <4> QED BY <2>1, <3>4, <4>1, Zenon
    <3>18. V # {} /\ last.affected > 0
      BY <3>4, <3>8
    <3>19. mem' = Without(last.rows, V \ Range(h))
      BY <3>10, <3>13
    <3> QED BY <3>2, <3>14, <3>15, <3>16, <3>17, <3>18, <3>19, Zenon DEF DeleteLeaves
  <2>7. Runs(stmt, last.shown, last.rows, last.affected, at', hits', file', mem')
    BY <1>1, <1>2, <1>3, <2>1, <2>4, <2>6 DEF Runs, DeleteRuns
  <2>8. at' \in Nat /\ at' > 0
    BY <1>1, <2>1
  <2>9. file' \in Rows /\ hits' \in Seq(1..MaxRows)
    BY <1>1, <2>1, <2>4, <2>5
  <2> QED BY <1>1, <2>1, <2>3, <2>7, <2>8, <2>9, GoesOnSame
<1> QED BY <1>7, <1>8

\* The end of a DELETE.
LEMMA DeleteEndStep ==
    ASSUME StatementInv, DeleteEnd
    PROVE  StatementInv'
<1>1. /\ stmt \in Statements /\ stmt # Nothing /\ stmt.cmd = "delete" /\ at = 2 /\ hits = <<>>
      /\ Runs(stmt, last.shown, last.rows, last.affected, at, hits, file, mem)
      /\ file \in Rows /\ mem \in Rows
      /\ last.rows \in Seq(Row) /\ last.affected \in Nat
  BY RunningIs DEF DeleteEnd
<1>2. PICK s : s = stmt
  OBVIOUS
<1>3. End("done") /\ mem' = mem /\ file' = IF last.affected > 0 THEN mem ELSE file
  BY DEF DeleteEnd, Flush, table
<1>4. ASSUME Len(last.shown) = Len(last.rows)
      PROVE  IF VictimsIn(s, last.shown, last.rows) = {} THEN file' = last.shown /\ mem' = last.rows
             ELSE file' = Without(last.rows, VictimsIn(s, last.shown, last.rows))
  <2>1. DeleteLeaves(s, last.shown, last.rows, last.affected, hits, file, mem)
    BY <1>1, <1>2, <1>4 DEF Runs, DeleteRuns
  <2>2. PICK V : V = VictimsIn(s, last.shown, last.rows)
    OBVIOUS
  <2>3. Range(hits) = {}
    BY <1>1 DEF Range
  <2>4. V \ Range(hits) = V
    BY <2>3
  <2>5. /\ mem = Without(last.rows, V)
        /\ V = {} => last.affected = 0 /\ file = last.shown
        /\ V # {} => last.affected > 0
    BY <2>1, <2>2, <2>4, Zenon DEF DeleteLeaves
  <2>6. CASE V = {}
    <3>1. mem = last.rows
      BY <1>1, <2>5, <2>6, WithoutNothing
    <3>2. file' = file
      BY <1>3, <2>5, <2>6
    <3> QED BY <1>3, <2>2, <2>5, <2>6, <3>1, <3>2
  <2>7. CASE V # {}
    BY <1>3, <2>2, <2>5, <2>7
  <2> QED BY <2>6, <2>7
<1>5. Says(s, last.shown, last.rows, last.affected, file', mem')
  BY <1>1, <1>2, <1>4 DEF Says
<1>6. file' \in Rows /\ mem' \in Rows
  BY <1>1, <1>3
<1> QED BY <1>1, <1>2, <1>3, <1>5, <1>6, ReturnsSame

\* The rows an INSERT has put in are rows.
LEMMA InsertedIs ==
    ASSUME NEW s \in Statements, s.cmd = "insert", NEW k \in 0..Len(s.lists)
    PROVE  /\ Inserted(s, k) \in Seq(Row) /\ Len(Inserted(s, k)) = k
           /\ \A i \in 1..k : Inserted(s, k)[i] = InsertedRow(s.columns, s.lists[i])
<1>1. s.lists \in Seq(Seq(Val \cup {Fail})) /\ Len(s.lists) \in Nat /\ k \in Nat
  BY StatementForms
<1>2. ASSUME NEW i \in 1..k PROVE InsertedRow(s.columns, s.lists[i]) \in Row
  <2>1. s.lists[i] \in Seq(Val \cup {Fail})
    BY <1>1
  <2> QED BY <2>1, InsertedRowType
<1>3. Inserted(s, k) = [i \in 1..k |-> InsertedRow(s.columns, s.lists[i])]
  BY Zenon DEF Inserted
<1>4. Inserted(s, k) \in [1..k -> Row]
  BY <1>2, <1>3, Zenon
<1> QED BY <1>1, <1>3, <1>4

\* One more list, one more row.
LEMMA InsertedGrows ==
    ASSUME NEW s \in Statements, s.cmd = "insert", NEW k \in 1..Len(s.lists),
           NEW rows \in Seq(Row)
    PROVE  /\ Append(rows \o Inserted(s, k - 1), InsertedRow(s.columns, s.lists[k])) =
                    rows \o Inserted(s, k)
           /\ InsertedRow(s.columns, s.lists[k]) \in Row
<1>1. s.lists \in Seq(Seq(Val \cup {Fail})) /\ Len(s.lists) \in Nat /\ k \in Nat
  BY StatementForms
<1>2. k - 1 \in 0..Len(s.lists) /\ k \in 0..Len(s.lists)
  BY <1>1
<1>3. PICK old : old = Inserted(s, k - 1)
  OBVIOUS
<1>4. PICK new : new = Inserted(s, k)
  OBVIOUS
<1>5. PICK x : x = InsertedRow(s.columns, s.lists[k])
  OBVIOUS
<1>6. old \in Seq(Row) /\ Len(old) = k - 1 /\ \A i \in 1..(k - 1) : old[i] = InsertedRow(s.columns, s.lists[i])
  BY <1>2, <1>3, InsertedIs
<1>7. new \in Seq(Row) /\ Len(new) = k /\ \A i \in 1..k : new[i] = InsertedRow(s.columns, s.lists[i])
  BY <1>2, <1>4, InsertedIs
<1>8. x = new[k] /\ x \in Row
  BY <1>1, <1>5, <1>7
<1>9. new = Append(old, x)
  <2>1. Append(old, x) \in Seq(Row) /\ Len(Append(old, x)) = k
    BY <1>1, <1>6, <1>8
  <2>2. ASSUME NEW i \in 1..k PROVE new[i] = Append(old, x)[i]
    <3>1. CASE i = k
      BY <1>1, <1>6, <1>8, <3>1
    <3>2. CASE i # k
      <4>1. i \in 1..(k - 1)
        BY <1>1, <3>2
      <4>2. Append(old, x)[i] = old[i]
        BY <1>6, <1>8, <4>1
      <4> QED BY <1>6, <1>7, <4>1, <4>2
    <3> QED BY <3>1, <3>2
  <2> QED BY <1>7, <2>1, <2>2, SeqEqual
<1>10. Append(rows \o old, x) = rows \o Append(old, x)
  <2>1. rows \o old \in Seq(Row) /\ <<x>> \in Seq(Row)
    BY <1>6, <1>8
  <2>2. Append(rows \o old, x) = (rows \o old) \o <<x>> /\ Append(old, x) = old \o <<x>>
    BY <1>6, <1>8, <2>1, AppendIsConcat
  <2>3. (rows \o old) \o <<x>> = rows \o (old \o <<x>>)
    BY <1>6, <2>1, ConcatAssociative
  <2> QED BY <2>2, <2>3
<1> QED BY <1>3, <1>4, <1>5, <1>8, <1>9, <1>10

\* One value list of an INSERT.
LEMMA InsertRowStep ==
    ASSUME StatementInv, InsertRow
    PROVE  StatementInv'
<1>1. /\ stmt \in Statements /\ stmt # Nothing /\ stmt.cmd = "insert"
      /\ Runs(stmt, last.shown, last.rows, last.affected, at, hits, file, mem)
      /\ at \in Nat /\ at > 0 /\ at <= Len(stmt.lists) /\ hits \in Seq(1..MaxRows)
      /\ file \in Rows /\ mem \in Rows /\ mem \in Seq(Row)
      /\ last.shown \in Seq(Row) /\ last.rows \in Seq(Row) /\ last.affected \in Nat
      /\ nrow = Len(mem) /\ nrow \in Nat /\ nrow <= MaxRows /\ MaxRows \in Nat
  BY RunningIs DEF InsertRow
<1>2. PICK s : s = stmt
  OBVIOUS
<1>3. /\ s \in Statements /\ s.cmd = "insert" /\ s.lists \in Seq(Seq(Val \cup {Fail}))
      /\ Len(s.lists) \in Nat
  BY <1>1, <1>2, StatementForms
<1>4. PICK k \in 1..Len(s.lists) : k = at
  BY <1>1, <1>2, <1>3
<1>5. InsertRuns(s, last.shown, last.rows, k, file, mem)
  BY <1>1, <1>2, <1>4 DEF Runs
<1>6. CASE Len(s.lists[k]) # Len(s.columns)
  <2>1. End("failed") /\ file' = file /\ mem' = mem
    BY <1>2, <1>4, <1>6 DEF InsertRow, table
  <2>2. Stops(stmt, last.shown, last.rows, file, mem)
    BY <1>1, RunsStops, Zenon
  <2> QED BY <1>1, <2>1, <2>2, Throws
<1>7. CASE Len(s.lists[k]) = Len(s.columns)
  <2>1. PICK x : x = InsertedRow(s.columns, s.lists[k])
    OBVIOUS
  <2>2. nrow < MaxRows /\ file' = mem /\ mem' = Append(mem, x)
    BY <1>2, <1>4, <1>7, <2>1 DEF InsertRow
  <2>3. mem = last.rows \o Inserted(s, k - 1)
    BY <1>5 DEF InsertRuns
  <2>4. mem' = last.rows \o Inserted(s, k) /\ x \in Row
    BY <1>1, <1>3, <2>1, <2>2, <2>3, InsertedGrows
  <2>5. mem' \in Rows
    <3>1. mem \in Seq(Row) /\ nrow = Len(mem) /\ Len(mem) \in Nat /\ MaxRows \in Nat
      BY <1>1, RowsAreSequences, TableSessionAssumption DEF nrow
    <3>2. PICK y : y = Append(mem, x)
      OBVIOUS
    <3>3. y \in Seq(Row) /\ Len(y) = Len(mem) + 1
      BY <2>4, <3>1, <3>2, AppendProperties
    <3>4. mem' = y
      BY <2>2, <3>2
    <3>5. Len(y) <= MaxRows
      BY <2>2, <3>1, <3>3
    <3> QED BY <3>3, <3>4, <3>5, RowsAreSequences
  <2>6. \A i \in 1..(k - 1) : Len(s.lists[i]) = Len(s.columns)
    BY <1>5 DEF InsertRuns
  <2>7. CASE Fail \in Range(s.lists[k])
    <3>1. End("failed")
      BY <1>2, <1>4, <1>7, <2>7 DEF InsertRow
    <3>2. k - 1 \in 0..Len(s.lists)
      BY <1>3
    <3>3. InsertStops(s, last.shown, last.rows, file')
      BY <2>2, <2>3, <2>6, <3>2, Zenon DEF InsertStops
    <3>4. Stops(stmt, last.shown, last.rows, file', mem')
      BY <1>2, <1>3, <3>3 DEF Stops
    <3> QED BY <1>1, <2>2, <2>5, <3>1, <3>4, Throws
  <2>8. CASE Fail \notin Range(s.lists[k])
    <3>1. /\ at' = at + 1 /\ stmt' = stmt /\ hits' = hits
          /\ last' = [last EXCEPT !.affected = last.affected + 1]
      BY <1>2, <1>4, <1>7, <2>8 DEF InsertRow
    <3>2. at' = k + 1 /\ (k + 1) - 1 = k /\ k <= Len(s.lists)
      BY <1>3, <1>4, <3>1
    <3>3. ASSUME NEW i \in 1..k PROVE Len(s.lists[i]) = Len(s.columns)
      <4>1. i = k \/ i \in 1..(k - 1)
        OBVIOUS
      <4> QED BY <1>7, <2>6, <4>1
    <3>4. k - 1 \in 0..k
      OBVIOUS
    <3>5. \E j \in 0..k : file' = last.rows \o Inserted(s, j)
      BY <2>2, <2>3, <3>4, Zenon
    <3>6. InsertRuns(s, last.shown, last.rows, at', file', mem')
      BY <2>4, <3>2, <3>3, <3>5 DEF InsertRuns
    <3>7. last.affected + 1 \in Nat /\ at' \in Nat /\ at' > 0
      BY <1>1, <3>1
    <3>8. Runs(stmt, last.shown, last.rows, last.affected + 1, at', hits', file', mem')
      BY <1>2, <1>3, <3>6 DEF Runs
    <3> QED BY <1>1, <2>2, <2>5, <3>1, <3>7, <3>8, GoesOn
  <2> QED BY <2>7, <2>8
<1> QED BY <1>6, <1>7

\* The end of an INSERT.
LEMMA InsertEndStep ==
    ASSUME StatementInv, InsertEnd
    PROVE  StatementInv'
<1>1. /\ stmt \in Statements /\ stmt # Nothing /\ stmt.cmd = "insert"
      /\ Runs(stmt, last.shown, last.rows, last.affected, at, hits, file, mem)
      /\ at \in Nat /\ at > Len(stmt.lists) /\ mem \in Rows
  BY RunningIs DEF InsertEnd
<1>2. PICK s : s = stmt
  OBVIOUS
<1>3. s.lists \in Seq(Seq(Val \cup {Fail})) /\ Len(s.lists) \in Nat
  BY <1>1, <1>2, StatementForms
<1>4. InsertRuns(s, last.shown, last.rows, at, file, mem)
  BY <1>1, <1>2 DEF Runs
<1>5. at - 1 = Len(s.lists)
  BY <1>1, <1>2, <1>3, <1>4 DEF InsertRuns
<1>6. mem = last.rows \o Inserted(s, Len(s.lists))
  BY <1>4, <1>5 DEF InsertRuns
<1>7. End("done") /\ mem' = mem /\ file' = mem
  BY DEF InsertEnd, Flush
<1>8. Says(s, last.shown, last.rows, last.affected, file', mem')
  BY <1>1, <1>2, <1>6, <1>7 DEF Says
<1> QED BY <1>1, <1>2, <1>7, <1>8, ReturnsSame

\* Blank rows after blank rows.
LEMMA BlankRowsGrow ==
    ASSUME NEW rows \in Seq(Row), NEW n \in Nat, NEW x \in Nat
    PROVE  /\ (rows \o BlankRows(n)) \o BlankRows(x) = rows \o BlankRows(n + x)
           /\ BlankRows(x) \in Seq(Row) /\ Len(BlankRows(x)) = x
<1>1. \A z \in Nat : BlankRows(z) \in [1..z -> Row] /\ \A i \in 1..z : BlankRows(z)[i] = BlankRow
  BY RowTypes DEF BlankRows
<1>2. n + x \in Nat
  OBVIOUS
<1>3. PICK u : u = BlankRows(n)
  OBVIOUS
<1>4. PICK v : v = BlankRows(x)
  OBVIOUS
<1>5. PICK w : w = BlankRows(n + x)
  OBVIOUS
<1>6. /\ u \in Seq(Row) /\ Len(u) = n /\ \A i \in 1..n : u[i] = BlankRow
      /\ v \in Seq(Row) /\ Len(v) = x /\ \A i \in 1..x : v[i] = BlankRow
      /\ w \in Seq(Row) /\ Len(w) = n + x /\ \A i \in 1..(n + x) : w[i] = BlankRow
  <2>1. ASSUME NEW z \in Nat, NEW b, b = BlankRows(z)
        PROVE  b \in Seq(Row) /\ Len(b) = z /\ \A i \in 1..z : b[i] = BlankRow
    <3>1. b \in [1..z -> Row] /\ \A i \in 1..z : b[i] = BlankRow
      BY <1>1, <2>1
    <3>2. b \in Seq(Row)
      BY <3>1
    <3>3. DOMAIN b = 1..z /\ DOMAIN b = 1..Len(b) /\ Len(b) \in Nat
      BY <3>1, <3>2, LenProperties
    <3>4. Len(b) = z
      BY <3>3
    <3> QED BY <3>1, <3>2, <3>4
  <2>2. u \in Seq(Row) /\ Len(u) = n /\ \A i \in 1..n : u[i] = BlankRow
    BY <1>3, <2>1, Zenon
  <2>3. v \in Seq(Row) /\ Len(v) = x /\ \A i \in 1..x : v[i] = BlankRow
    BY <1>4, <2>1, Zenon
  <2>4. w \in Seq(Row) /\ Len(w) = n + x /\ \A i \in 1..(n + x) : w[i] = BlankRow
    BY <1>2, <1>5, <2>1, Zenon
  <2> QED BY <2>2, <2>3, <2>4
<1>7. u \o v = w
  <2>1. u \o v \in Seq(Row) /\ Len(u \o v) = n + x
    BY <1>6, ConcatProperties
  <2>2. ASSUME NEW i \in 1..(n + x) PROVE (u \o v)[i] = w[i]
    <3>1. (u \o v)[i] = IF i <= n THEN u[i] ELSE v[i - n]
      BY <1>6, ConcatProperties
    <3>2. CASE i <= n
      BY <1>6, <3>1, <3>2
    <3>3. CASE ~(i <= n)
      <4>1. i - n \in 1..x
        BY <3>3
      <4> QED BY <1>6, <3>1, <3>3, <4>1
    <3> QED BY <3>2, <3>3
  <2> QED BY <1>6, <2>1, <2>2, SeqEqual
<1>8. (rows \o u) \o v = rows \o (u \o v)
  BY <1>6, ConcatAssociative
<1> QED BY <1>3, <1>4, <1>5, <1>6, <1>7, <1>8

\* Adding rows keeps a table a table.
LEMMA AddRowType ==
    ASSUME mem \in Rows, NEW x \in Nat, AddRow(x)
    PROVE  /\ file' = mem /\ mem' = mem \o BlankRows(x)
           /\ file' \in Rows /\ mem' \in Rows
<1>1. mem \in Seq(Row) /\ MaxRows \in Nat
  BY RowsAreSequences, TableSessionAssumption
<1>2. file' = mem /\ mem' = mem \o BlankRows(x) /\ Len(mem) + x <= MaxRows
  BY DEF AddRow, BlankRows, nrow
<1>3. BlankRows(x) \in Seq(Row) /\ Len(BlankRows(x)) = x
  BY <1>1, BlankRowsGrow
<1>4. mem' \in Seq(Row) /\ Len(mem') = Len(mem) + x
  BY <1>1, <1>2, <1>3
<1>5. Len(mem') <= MaxRows
  BY <1>2, <1>4
<1> QED BY <1>2, <1>4, <1>5, RowsAreSequences

\* One step of an ALTER TABLE.
LEMMA AlterStepStep ==
    ASSUME StatementInv, AlterStep
    PROVE  StatementInv'
<1>1. /\ stmt \in Statements /\ stmt # Nothing /\ stmt.cmd = "alter"
      /\ Runs(stmt, last.shown, last.rows, last.affected, at, hits, file, mem)
      /\ at \in Nat /\ at > 0 /\ at <= Len(stmt.steps) /\ hits \in Seq(1..MaxRows)
      /\ file \in Rows /\ mem \in Rows
      /\ last.shown \in Seq(Row) /\ last.rows \in Seq(Row) /\ last.affected \in Nat
  BY RunningIs DEF AlterStep
<1>2. PICK s : s = stmt
  OBVIOUS
<1>3. s.cmd = "alter" /\ s.steps \in Seq(Nat \cup {Fail}) /\ at \in 1..Len(s.steps)
  BY <1>1, <1>2, StatementForms
<1>4. PICK x \in Nat \cup {Fail} : x = s.steps[at]
  <2>1. \A T : \A q \in Seq(T) : \A i \in 1..Len(q) : q[i] \in T
    BY LenProperties
  <2>2. s.steps[at] \in Nat \cup {Fail}
    BY <1>3, <2>1, Zenon
  <2> QED BY <2>2, Zenon
<1>5. ASSUME NEW f, NEW m PROVE Stops(s, last.shown, last.rows, f, m)
  <2>1. s.cmd # "update" /\ s.cmd # "delete" /\ s.cmd # "insert"
    BY <1>3
  <2> QED BY <2>1 DEF Stops
<1>6. CASE x = Fail
  <2>1. End("failed") /\ file' = file /\ mem' = mem
    BY <1>2, <1>4, <1>6 DEF AlterStep, table
  <2> QED BY <1>1, <1>2, <1>5, <2>1, Throws
<1>7. CASE x # Fail
  <2>1. x \in Nat
    BY <1>7
  <2>2. /\ AddRow(x) /\ at' = at + 1 /\ stmt' = stmt /\ hits' = hits
        /\ last' = [last EXCEPT !.affected = last.affected + x]
    BY <1>2, <1>4, <1>7 DEF AlterStep
  <2>3. file' = mem /\ mem' = mem \o BlankRows(x) /\ file' \in Rows /\ mem' \in Rows
    BY <1>1, <2>1, <2>2, AddRowType
  <2>4. mem = last.rows \o BlankRows(last.affected)
    BY <1>1, <1>2 DEF Runs
  <2>5. mem' = last.rows \o BlankRows(last.affected + x)
    BY <1>1, <2>1, <2>3, <2>4, BlankRowsGrow
  <2>6. Runs(stmt, last.shown, last.rows, last.affected + x, at', hits', file', mem')
    BY <1>2, <1>3, <2>5 DEF Runs
  <2>7. last.affected + x \in Nat /\ at' \in Nat /\ at' > 0
    BY <1>1, <2>1, <2>2
  <2> QED BY <1>1, <2>2, <2>3, <2>6, <2>7, GoesOn
<1> QED BY <1>6, <1>7

LEMMA AlterEndStep ==
    ASSUME StatementInv, AlterEnd
    PROVE  StatementInv'
<1>1. /\ stmt \in Statements /\ stmt # Nothing /\ stmt.cmd = "alter"
      /\ Runs(stmt, last.shown, last.rows, last.affected, at, hits, file, mem)
      /\ mem \in Rows
  BY RunningIs DEF AlterEnd
<1>2. mem = last.rows \o BlankRows(last.affected)
  BY <1>1 DEF Runs
<1>3. End("done") /\ mem' = mem /\ file' = mem
  BY DEF AlterEnd, Flush
<1>4. Says(stmt, last.shown, last.rows, last.affected, file', mem')
  BY <1>1, <1>2, <1>3 DEF Says
<1> QED BY <1>1, <1>3, <1>4, ReturnsSame

\* COUNT is one step.
LEMMA CountStep ==
    ASSUME StatementInv, Count
    PROVE  StatementInv'
<1>1. /\ stmt \in Statements /\ stmt # Nothing /\ stmt.cmd = "count"
      /\ Runs(stmt, last.shown, last.rows, last.affected, at, hits, file, mem)
      /\ file \in Rows /\ mem \in Rows /\ file \in Seq(Row) /\ mem \in Seq(Row)
      /\ nrow = Len(mem) /\ nrow \in Nat
  BY RunningIs DEF Count
<1>2. PICK s : s = stmt
  OBVIOUS
<1>3. file = last.shown /\ mem = last.rows /\ s.cmd = "count"
  BY <1>1, <1>2 DEF Runs
<1>4. file' = file /\ mem' = mem
  BY DEF Count, table
<1>5. CASE \E r \in 1..nrow : WhereThrows(stmt.where, r)
  <2>1. End("failed")
    BY <1>5, Zenon DEF Count
  <2>2. Stops(stmt, last.shown, last.rows, file', mem')
    BY <1>2, <1>3 DEF Stops
  <2> QED BY <1>1, <1>4, <2>1, <2>2, Throws
<1>6. CASE ~ \E r \in 1..nrow : WhereThrows(stmt.where, r)
  <2>1. PICK C : C = {r \in 1..nrow : Matches(stmt.where, r)}
    OBVIOUS
  <2>2. C \in SUBSET (1..nrow)
    BY <2>1, Zenon
  <2>3. PICK n \in Nat : n = Cardinality(C)
    <3>1. IsFiniteSet(C)
      BY <1>1, <2>2, RowsInOrder
    <3> QED BY <3>1, FS_CardinalityType
  <2>4. /\ stmt' = Nothing /\ at' = 1 /\ hits' = <<>>
        /\ last' = [last EXCEPT !.end = "done", !.affected = n]
    BY <1>6, <2>1, <2>3, Zenon DEF Count
  <2>5. ASSUME Len(last.shown) = Len(last.rows)
        PROVE  n = Cardinality({r \in DOMAIN file' : MatchIn(s, last.shown, r)})
    <3>1. DOMAIN file' = 1..nrow
      BY <1>1, <1>3, <1>4, <2>5
    <3>2. {r \in DOMAIN file' : MatchIn(s, last.shown, r)} = C
      BY <1>2, <1>3, <2>1, <3>1, Zenon DEF MatchIn, Matches
    <3> QED BY <2>3, <3>2
  <2>6. Says(stmt, last.shown, last.rows, n, file', mem')
    BY <1>2, <1>3, <1>4, <2>5 DEF Says
  <2> QED BY <1>1, <1>4, <2>4, <2>6, Returns
<1> QED BY <1>5, <1>6

\* Calls of the Table between statements, and crashes.
LEMMA NoStatementInv ==
    ASSUME SessionTypeOK', stmt' = Nothing, at' \in Nat, at' > 0, hits' \in Seq(1..MaxRows),
           last' = NoStatement
    PROVE  StatementInv'
<1>1. <<>> \in Rows
  <2>1. <<>> \in Seq(Row) /\ Len(<<>>) <= MaxRows
    BY TableSessionAssumption
  <2> QED BY <2>1, RowsAreSequences
<1>2. last' \in LastRecords /\ last'.end = "never"
  BY <1>1 DEF LastRecords, Ends, NoStatement
<1> QED BY <1>2 DEF StatementInv

LEMMA TableCallStep ==
    ASSUME StatementInv, TableCall
    PROVE  StatementInv'
<1>1. /\ stmt = Nothing /\ stmt' = stmt /\ at' = at /\ hits' = hits /\ last' = NoStatement
      /\ at \in Nat /\ at > 0 /\ hits \in Seq(1..MaxRows) /\ file \in Rows /\ mem \in Rows
  BY DEF StatementInv, SessionTypeOK, TableCall, Idle, Overtaken, run
<1>2. mem \in Seq(Row) /\ Len(mem) <= MaxRows /\ MaxRows \in Nat /\ nrow = Len(mem)
  BY <1>1, RowsAreSequences, TableSessionAssumption DEF nrow
<1>3. ASSUME Flush PROVE SessionTypeOK'
  BY <1>1, <1>3 DEF Flush, SessionTypeOK
<1>4. ASSUME AddRow(1) PROVE SessionTypeOK'
  BY <1>1, <1>4, AddRowType DEF SessionTypeOK
<1>5. ASSUME \E r \in 1..MaxRows : RemoveRow(r) PROVE SessionTypeOK'
  <2>1. PICK r \in 1..MaxRows : RemoveRow(r)
    BY <1>5
  <2>2. r \in 1..Len(mem) /\ file' = mem /\ mem' = RemoveAt(mem, r)
    BY <1>2, <2>1 DEF RemoveRow
  <2>3. mem' = [i \in 1..(Len(mem) - 1) |-> IF i < r THEN mem[i] ELSE mem[i + 1]]
    BY <1>2, <2>2, RemoveAtIs
  <2>4. \A i \in 1..(Len(mem) - 1) : i \in 1..Len(mem) /\ i + 1 \in 1..Len(mem)
    BY <1>2
  <2>5. \A i \in 1..(Len(mem) - 1) : (IF i < r THEN mem[i] ELSE mem[i + 1]) \in Row
    BY <1>2, <2>4
  <2>6. mem' \in [1..(Len(mem) - 1) -> Row] /\ Len(mem) - 1 \in Nat
    BY <1>2, <2>2, <2>3, <2>5
  <2>7. mem' \in Seq(Row) /\ Len(mem') = Len(mem) - 1
    BY <2>6
  <2>8. Len(mem') <= MaxRows
    BY <1>2, <2>7
  <2>9. mem' \in Rows
    BY <2>7, <2>8, RowsAreSequences
  <2> QED BY <1>1, <2>2, <2>9 DEF SessionTypeOK
<1>6. ASSUME \E r \in 1..MaxRows, c \in Column, v \in Val : WriteCell(r, c, v) PROVE SessionTypeOK'
  <2>1. PICK r \in 1..MaxRows, c \in Column, v \in Val : WriteCell(r, c, v)
    BY <1>6
  <2>2. r \in 1..Len(mem) /\ file' = file /\ mem' = [mem EXCEPT ![r][c] = v]
    BY <1>2, <2>1 DEF WriteCell
  <2>3. [mem[r] EXCEPT ![c] = v] \in Row
    <3>1. mem[r] \in Row
      BY <1>2, <2>2
    <3> QED BY <3>1 DEF Row
  <2>4. mem' = [mem EXCEPT ![r] = [mem[r] EXCEPT ![c] = v]]
    BY <2>2
  <2>5. mem' \in Seq(Row) /\ Len(mem') = Len(mem)
    BY <1>2, <2>2, <2>3, <2>4, ExceptSeq
  <2>6. mem' \in Rows
    BY <1>2, <2>5, RowsAreSequences
  <2> QED BY <1>1, <2>2, <2>6 DEF SessionTypeOK
<1>7. SessionTypeOK'
  BY <1>3, <1>4, <1>5, <1>6 DEF TableCall
<1> QED BY <1>1, <1>7, NoStatementInv

LEMMA CrashStep ==
    ASSUME StatementInv, Crash
    PROVE  StatementInv'
<1>1. /\ stmt' = Nothing /\ at' = 1 /\ hits' = <<>> /\ file' = file /\ mem' = file
      /\ file \in Rows
  BY DEF StatementInv, SessionTypeOK, Crash, Reopen
<1>2. SessionTypeOK' /\ at' \in Nat /\ at' > 0 /\ hits' \in Seq(1..MaxRows)
  BY <1>1 DEF SessionTypeOK
<1>3. CASE last.end # "running"
  <2>1. last' = NoStatement
    BY <1>3 DEF Crash, Overtaken
  <2> QED BY <1>1, <1>2, <2>1, NoStatementInv
<1>4. CASE last.end = "running"
  <2>1. /\ stmt # Nothing /\ stmt \in Statements /\ last.stmt = stmt /\ last \in LastRecords
        /\ Runs(stmt, last.shown, last.rows, last.affected, at, hits, file, mem)
        /\ at \in Nat /\ at > 0
    BY <1>4 DEF StatementInv
  <2>2. last' = [last EXCEPT !.end = "crashed"]
    BY <1>4 DEF Crash
  <2>3. /\ last' \in LastRecords /\ last'.end = "crashed" /\ last'.stmt = stmt
        /\ last'.shown = last.shown /\ last'.rows = last.rows
    BY <2>1, <2>2 DEF LastRecords, Ends
  <2>4. last.shown \in Seq(Row) /\ last.rows \in Seq(Row)
    BY <2>1, LastIs
  <2>5. Stops(stmt, last.shown, last.rows, file, mem)
    BY <2>1, <2>4, RunsStops, Zenon
  <2>6. Stops(stmt, last.shown, last.rows, file, file)
    BY <2>5 DEF Stops
  <2>7. Stops(last'.stmt, last'.shown, last'.rows, file', mem')
    BY <1>1, <2>3, <2>6, Zenon
  <2>8. /\ stmt' \in Statements \cup {Nothing} /\ ~(stmt' # Nothing)
        /\ last'.end # "running" /\ last'.end # "done" /\ last'.stmt \in Statements
    BY <1>1, <2>1, <2>3
  <2> QED BY <1>2, <2>3, <2>7, <2>8 DEF StatementInv
<1> QED BY <1>3, <1>4

LEMMA StatementInvStep == StatementInv /\ [StatementNext]_statementVars => StatementInv'
<1> SUFFICES ASSUME StatementInv, [StatementNext]_statementVars PROVE StatementInv'
  OBVIOUS
<1>1. CASE \E s \in Statements : Begin(s)
  BY <1>1, BeginStep
<1>2. CASE StatementStep
  <2>1. CASE UpdateRow
    BY <2>1, UpdateRowStep
  <2>2. CASE UpdateEnd
    BY <2>2, UpdateEndStep
  <2>3. CASE DeleteScan
    BY <2>3, DeleteScanStep
  <2>4. CASE DeleteRow
    BY <2>4, DeleteRowStep
  <2>5. CASE DeleteEnd
    BY <2>5, DeleteEndStep
  <2>6. CASE InsertRow
    BY <2>6, InsertRowStep
  <2>7. CASE InsertEnd
    BY <2>7, InsertEndStep
  <2>8. CASE AlterStep
    BY <2>8, AlterStepStep
  <2>9. CASE AlterEnd
    BY <2>9, AlterEndStep
  <2>10. CASE Count
    BY <2>10, CountStep
  <2> QED
    BY <1>2, <2>1, <2>2, <2>3, <2>4, <2>5, <2>6, <2>7, <2>8, <2>9, <2>10 DEF StatementStep
<1>3. CASE TableCall
  BY <1>3, TableCallStep
<1>4. CASE Crash
  BY <1>4, CrashStep
<1>5. CASE UNCHANGED statementVars
  <2>1. file' = file /\ mem' = mem /\ stmt' = stmt /\ at' = at /\ hits' = hits /\ last' = last
    BY <1>5 DEF statementVars
  <2>2. SessionTypeOK'
    BY <2>1 DEF StatementInv, SessionTypeOK
  <2> QED BY <2>1, <2>2 DEF StatementInv
<1> QED BY <1>1, <1>2, <1>3, <1>4, <1>5 DEF StatementNext

LEMMA StatementInvFirst == InitStatements => StatementInv
<1> SUFFICES ASSUME InitStatements PROVE StatementInv
  OBVIOUS
<1>1. <<>> \in Rows
  <2>1. <<>> \in Seq(Row) /\ Len(<<>>) <= MaxRows
    BY TableSessionAssumption
  <2> QED BY <2>1, RowsAreSequences
<1>2. last \in LastRecords /\ last.end = "never"
  BY <1>1 DEF LastRecords, Ends, NoStatement, InitStatements
<1>3. /\ SessionTypeOK /\ stmt = Nothing /\ at \in Nat /\ at > 0 /\ hits \in Seq(1..MaxRows)
  BY DEF InitStatements, SessionTypeOK
<1> QED BY <1>2, <1>3 DEF StatementInv

LEMMA StatementInvariant == StatementSpec => []StatementInv
BY StatementInvFirst, StatementInvStep, PTL DEF StatementSpec

\* Whatever runs, and wherever it stops, the rows keep their types, also those
\* that a throwing assignment or value list has filled in part.
THEOREM StatementsTypeCorrect == StatementSpec => []StatementTypeOK
BY StatementInvariant, InvTypes, PTL

\* A statement that ran to its end has done what it says, to the rows as they
\* were when it began.
THEOREM StatementsAlwaysDoWhatTheySay == StatementSpec => []StatementsDoWhatTheySay
BY StatementInvariant, InvSays, PTL

\* A statement that throws, that has not ended or whose process died has taken
\* effect as far as it got and nowhere else.
THEOREM InterruptedStatementsAlwaysStop == StatementSpec => []InterruptedStatementsStop
BY StatementInvariant, InvStops, PTL
=============================================================================
