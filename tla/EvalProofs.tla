----------------------------- MODULE EvalProofs -----------------------------
(***************************************************************************)
(* Proofs about the evaluation harness and the calibration file.           *)
(***************************************************************************)
EXTENDS EvalHarness, FiniteSetTheorems, WellFoundedInduction, TLAPS

(***************************************************************************)
(* Sums.  A sum over a set is a recursion that takes the elements away one *)
(* by one; sum holds its value for every subset.                           *)
(***************************************************************************)
Any(s) == CHOOSE x \in s : TRUE

Summed(sum, g, s) == IF s = {} THEN 0 ELSE g[Any(s)] + sum[s \ {Any(s)}]

Sums(sum, g, S) == sum = [s \in SUBSET S |-> Summed(sum, g, s)]

\* A set of numbers has a least one.
LEMMA Smallest == ASSUME NEW T \in SUBSET Nat, T # {} PROVE \E n \in T : \A m \in T : n <= m
<1>1. PICK x \in T : \A y \in T : ~(<<y, x>> \in OpToRel(<, Nat))
  BY NatLessThanWellFounded, WFMin
<1>2. ASSUME NEW y \in T PROVE x <= y
  <2>1. x \in Nat /\ y \in Nat
    OBVIOUS
  <2>2. y < x => <<y, x>> \in OpToRel(<, Nat)
    BY <2>1, Zenon DEF OpToRel
  <2>3. ~(y < x)
    BY <1>1, <2>2, Zenon
  <2> QED
    BY <2>1, <2>3
<1> QED
  BY <1>2

\* Any chooses an element of the set.
LEMMA AnyOf == ASSUME NEW s, s # {} PROVE Any(s) \in s
  BY Zenon DEF Any

\* Taking one element away makes a finite set smaller.
LEMMA Smaller ==
    ASSUME NEW s, IsFiniteSet(s), s # {}
    PROVE  /\ IsFiniteSet(s \ {Any(s)}) /\ Any(s) \in s
           /\ Cardinality(s) \in Nat /\ Cardinality(s \ {Any(s)}) \in Nat
           /\ Cardinality(s \ {Any(s)}) = Cardinality(s) - 1
  BY AnyOf, FS_RemoveElement, FS_CardinalityType

\* The subsets of S of at most n elements.
Parts(S, n) == {s \in SUBSET S : Cardinality(s) <= n}

\* A finite set has a function that sums each of its subsets: there is no smallest size
\* without one.
LEMMA SumsExist == ASSUME NEW S, IsFiniteSet(S), NEW g PROVE \E sum : Sums(sum, g, S)
<1> DEFINE P(n) == \E sum : sum = [s \in Parts(S, n) |-> Summed(sum, g, s)]
           Without == {n \in Nat : ~P(n)}
<1>1. \A s \in SUBSET S : IsFiniteSet(s) /\ Cardinality(s) \in Nat /\ Cardinality(s) <= Cardinality(S)
  BY FS_Subset, FS_CardinalityType
<1>2. ASSUME NEW f, NEW h, NEW s, s = {} \/ f[s \ {Any(s)}] = h[s \ {Any(s)}]
      PROVE  Summed(f, g, s) = Summed(h, g, s)
  BY <1>2, Zenon DEF Summed
<1>3. ASSUME Without # {} PROVE FALSE
  <2>1. PICK m \in Without : \A k \in Without : m <= k
    <3>1. Without \in SUBSET Nat
      OBVIOUS
    <3> QED
      BY <1>3, <3>1, Smallest
  <2>2. m \in Nat /\ ~P(m)
    OBVIOUS
  <2>3. PICK old : m # 0 => old = [s \in Parts(S, m - 1) |-> Summed(old, g, s)]
    <3>1. CASE m = 0
      BY <3>1
    <3>2. CASE m # 0
      <4>1. m - 1 \in Nat /\ ~(m <= m - 1)
        BY <2>2, <3>2
      <4>2. P(m - 1)
        BY <2>1, <4>1
      <4> QED
        BY <4>2
    <3> QED
      BY <3>1, <3>2
  <2> HIDE DEF P, Without
  <2> DEFINE new == [s \in Parts(S, m) |-> IF Cardinality(s) = m THEN Summed(old, g, s) ELSE old[s]]
  <2>4. ASSUME NEW s \in Parts(S, m) PROVE new[s] = Summed(new, g, s)
    <3> DEFINE r == s \ {Any(s)}
    <3>1. s \in SUBSET S /\ IsFiniteSet(s) /\ Cardinality(s) \in Nat /\ Cardinality(s) <= m
      BY <1>1 DEF Parts
    <3>2. ASSUME s # {}
          PROVE  /\ r \in Parts(S, m) /\ Cardinality(r) # m /\ new[r] = old[r]
      <4>1. Cardinality(r) = Cardinality(s) - 1 /\ Cardinality(r) \in Nat
        BY <3>1, <3>2, Smaller
      <4>2. Cardinality(r) <= m /\ Cardinality(r) # m
        BY <2>2, <3>1, <4>1
      <4>3. r \in Parts(S, m)
        BY <3>1, <4>2 DEF Parts
      <4> QED
        BY <4>2, <4>3
    <3>3. CASE Cardinality(s) = m
      <4>1. new[s] = Summed(old, g, s)
        BY <3>3
      <4>2. s = {} \/ new[r] = old[r]
        BY <3>2
      <4> HIDE DEF new
      <4>3. Summed(new, g, s) = Summed(old, g, s)
        BY <1>2, <4>2, Zenon
      <4> QED
        BY <4>1, <4>3
    <3>4. CASE Cardinality(s) # m
      <4>1. m # 0 /\ s \in Parts(S, m - 1)
        BY <2>2, <3>1, <3>4 DEF Parts
      <4>2. new[s] = old[s]
        BY <3>4
      <4>3. old = [t \in Parts(S, m - 1) |-> Summed(old, g, t)]
        BY <2>3, <4>1
      <4>4. old[s] = Summed(old, g, s)
        BY <4>1, <4>3, Zenon
      <4>5. s = {} \/ new[r] = old[r]
        BY <3>2
      <4> HIDE DEF new
      <4>6. Summed(new, g, s) = Summed(old, g, s)
        BY <1>2, <4>5, Zenon
      <4> QED
        BY <4>2, <4>4, <4>6
    <3> QED
      BY <3>3, <3>4
  <2>5. new = [s \in Parts(S, m) |-> new[s]]
    OBVIOUS
  <2> HIDE DEF new
  <2>6. new = [s \in Parts(S, m) |-> Summed(new, g, s)]
    BY <2>4, <2>5
  <2> QED
    BY <2>2, <2>6 DEF P
<1>4. Cardinality(S) \in Nat /\ Parts(S, Cardinality(S)) = SUBSET S
  BY <1>1, FS_CardinalityType DEF Parts
<1>5. P(Cardinality(S))
  BY <1>3, <1>4
<1> QED
  BY <1>4, <1>5, Zenon DEF Sums

\* What such a function holds at a subset.
LEMMA SumAt == ASSUME NEW S, NEW g, NEW sum, Sums(sum, g, S), NEW s \in SUBSET S
               PROVE  sum[s] = Summed(sum, g, s)
  BY Zenon DEF Sums

\* g gives percentages: 100 to each element of high, 0 outside some.
Percents(g, S, high, some) ==
    /\ g \in [S -> 0..100]
    /\ high \in SUBSET S /\ \A x \in high : g[x] = 100
    /\ some \in SUBSET S /\ \A x \in S \ some : g[x] = 0

\* A sum of numbers from 0 to 100 is at least 100 for each element of high and
\* at most 100 for each of those outside which all are 0.
LEMMA SumBounds ==
    ASSUME NEW S, IsFiniteSet(S), NEW g, NEW sum, Sums(sum, g, S),
           NEW high, NEW some, Percents(g, S, high, some)
    PROVE  /\ sum[S] \in Nat /\ Cardinality(high) \in Nat /\ Cardinality(some) \in Nat
           /\ 100 * Cardinality(high) <= sum[S] /\ sum[S] <= 100 * Cardinality(some)
<1> DEFINE Good(s) == /\ sum[s] \in Nat
                      /\ Cardinality(s \cap high) \in Nat /\ Cardinality(s \cap some) \in Nat
                      /\ 100 * Cardinality(s \cap high) <= sum[s]
                      /\ sum[s] <= 100 * Cardinality(s \cap some)
           Off == {n \in Nat : \E s \in SUBSET S : Cardinality(s) = n /\ ~Good(s)}
<1> USE DEF Percents
<1>1. \A s \in SUBSET S : IsFiniteSet(s) /\ Cardinality(s) \in Nat
  BY FS_Subset, FS_CardinalityType
<1>2. \A s \in SUBSET S : sum[s] = Summed(sum, g, s)
  BY SumAt
<1>3. ASSUME Off # {} PROVE FALSE
  <2>1. PICK m \in Off : \A k \in Off : m <= k
    <3>1. Off \in SUBSET Nat
      OBVIOUS
    <3> HIDE DEF Off
    <3> QED
      BY <1>3, <3>1, Smallest
  <2>2. PICK s \in SUBSET S : Cardinality(s) = m /\ ~Good(s)
    BY <2>1
  <2>3. s # {}
    <3>1. s = {} => sum[s] = 0
      BY <1>2, <2>2 DEF Summed
    <3>2. s = {} => s \cap high = {} /\ s \cap some = {}
      OBVIOUS
    <3> QED
      BY <2>2, <3>1, <3>2, FS_EmptySet
  <2> DEFINE x == Any(s)
             r == s \ {x}
  <2>4. /\ x \in s /\ r \in SUBSET S /\ Cardinality(r) \in Nat /\ Cardinality(r) = m - 1
    BY <1>1, <2>2, <2>3, Smaller
  <2>5. Good(r)
    <3>1. m \in Nat /\ ~(m <= m - 1)
      OBVIOUS
    <3> HIDE DEF Off, Good
    <3>2. Cardinality(r) \notin Off
      BY <2>1, <2>4, <3>1
    <3> USE DEF Off
    <3> QED
      BY <2>4, <3>2
  <2>6. sum[s] = g[x] + sum[r] /\ g[x] \in 0..100
    BY <1>2, <2>2, <2>3, <2>4 DEF Summed
  <2> HIDE DEF x
  <2>7. /\ IsFiniteSet(r \cap high) /\ IsFiniteSet(r \cap some)
    <3>1. r \cap high \in SUBSET S /\ r \cap some \in SUBSET S
      OBVIOUS
    <3> QED
      BY <1>1, <3>1
  <2>8. /\ x \in high => s \cap high = (r \cap high) \cup {x}
        /\ x \notin high => s \cap high = r \cap high
        /\ x \in some => s \cap some = (r \cap some) \cup {x}
        /\ x \notin some => s \cap some = r \cap some
        /\ x \notin r
    BY <2>4
  <2>9. /\ Cardinality(s \cap high) = IF x \in high THEN Cardinality(r \cap high) + 1
                                      ELSE Cardinality(r \cap high)
        /\ Cardinality(s \cap some) = IF x \in some THEN Cardinality(r \cap some) + 1
                                      ELSE Cardinality(r \cap some)
    <3>1. x \notin r \cap high /\ x \notin r \cap some
      BY <2>8
    <3> QED
      BY <2>7, <2>8, <3>1, FS_AddElement
  <2>10. x \in high => g[x] = 100
    OBVIOUS
  <2>11. x \notin some => g[x] = 0
    BY <2>4
  <2>12. Good(s)
    <3> DEFINE h == Cardinality(r \cap high)
               o == Cardinality(r \cap some)
    <3>1. /\ sum[r] \in Nat /\ h \in Nat /\ o \in Nat /\ 100 * h <= sum[r] /\ sum[r] <= 100 * o
      BY <2>5
    <3> HIDE DEF h, o
    <3>2. /\ Cardinality(s \cap high) = IF x \in high THEN h + 1 ELSE h
          /\ Cardinality(s \cap some) = IF x \in some THEN o + 1 ELSE o
      BY <2>9 DEF h, o
    <3> QED
      BY <2>6, <2>10, <2>11, <3>1, <3>2
  <2> QED
    BY <2>2, <2>12
<1>4. Good(S)
  <2>1. S \in SUBSET S /\ Cardinality(S) \in Nat
    BY <1>1
  <2> HIDE DEF Good
  <2> QED
    BY <1>3, <2>1
<1>5. S \cap high = high /\ S \cap some = some
  OBVIOUS
<1> QED
  BY <1>4, <1>5

(***************************************************************************)
(* The calibration table.                                                  *)
(***************************************************************************)
IsRow(r) ==
    /\ r = [item |-> r.item, run |-> r.run, raw |-> r.raw, correct |-> r.correct]
    /\ r.raw \in Nat /\ r.correct \in BOOLEAN

IsRows(rows) == IsFiniteSet(rows) /\ \A r \in rows : IsRow(r)

Tranches == Len(TrancheEdges) - 1

\* Every raw confidence falls in a tranche.
LEMMA TrancheExists == ASSUME NEW raw \in Nat PROVE TrancheIndex(raw) \in 1..Tranches
<1> DEFINE Ends(i) == i = Tranches \/ raw < 4 * TrancheEdges[i + 1]
           Ending == {i \in 1..Tranches : Ends(i)}
<1>1. Tranches \in Nat /\ Tranches >= 1 /\ Len(TrancheEdges) = Tranches + 1
  BY CalibrationAssumption DEF Tranches
<1>2. \A i \in 1..Tranches : TrancheEdges[i + 1] \in Nat
  BY <1>1, CalibrationAssumption
<1>3. Tranches \in Ending /\ Ending \in SUBSET Nat
  BY <1>1
<1>4. PICK n \in Ending : \A m \in Ending : n <= m
  <2> HIDE DEF Ending
  <2> QED
    BY <1>3, Smallest
<1>5. n \in 1..Tranches /\ Ends(n)
  OBVIOUS
<1>6. \A j \in 1..(n - 1) : raw >= 4 * TrancheEdges[j + 1]
  <2> SUFFICES ASSUME NEW j \in 1..(n - 1) PROVE raw >= 4 * TrancheEdges[j + 1]
    OBVIOUS
  <2>1. j \in 1..Tranches /\ ~(n <= j)
    BY <1>1, <1>5
  <2>2. j \notin Ending
    BY <1>4, <2>1
  <2>3. ~(raw < 4 * TrancheEdges[j + 1])
    BY <2>1, <2>2
  <2> QED
    BY <1>2, <2>1, <2>3
<1> HIDE DEF Ending
<1>7. \E i \in 1..Tranches :
        /\ i = Tranches \/ raw < 4 * TrancheEdges[i + 1]
        /\ \A j \in 1..(i - 1) : raw >= 4 * TrancheEdges[j + 1]
  BY <1>5, <1>6
<1> QED
  BY <1>7, Zenon DEF TrancheIndex, Tranches

\* The items of finitely many rows are finitely many.
LEMMA ItemsFinite == ASSUME NEW rows, IsFiniteSet(rows)
                     PROVE  IsFiniteSet({r.item : r \in rows})
<1> DEFINE f == [r \in rows |-> r.item]
           T == {r.item : r \in rows}
<1>1. f \in Surjection(rows, T)
  BY DEF Surjection
<1> HIDE DEF f, T
<1>2. IsFiniteSet(T)
  BY <1>1, FS_Surjection
<1> QED
  BY <1>2 DEF T

\* The share of correct predictions of an item, in percent.
LEMMA PercentOf ==
    ASSUME NEW rows, IsRows(rows), rows # {}
    PROVE  /\ Percent(rows) \in 0..100
           /\ (\A r \in rows : r.correct) => Percent(rows) = 100
           /\ (\A r \in rows : ~r.correct) => Percent(rows) = 0
<1> DEFINE right == {r \in rows : r.correct}
           n == Cardinality(rows)
           k == Cardinality(right)
<1>1. /\ n \in Nat /\ k \in Nat /\ k <= n /\ n # 0
      /\ right \in SUBSET rows
  BY FS_Subset, FS_CardinalityType, FS_EmptySet DEF IsRows
<1>2. Percent(rows) = (100 * k) \div n
  BY DEF Percent
<1>3. (\A r \in rows : r.correct) => k = n
  OBVIOUS
<1>4. (\A r \in rows : ~r.correct) => k = 0
  <2>1. (\A r \in rows : ~r.correct) => right = {}
    OBVIOUS
  <2> QED
    BY <2>1, FS_EmptySet
<1> HIDE DEF n, k, right
<1>5. (100 * k) \div n \in 0..100 /\ (k = n => (100 * k) \div n = 100) /\ (k = 0 => (100 * k) \div n = 0)
  BY <1>1
<1> QED
  BY <1>2, <1>3, <1>4, <1>5

\* The shares of correct predictions that the table adds up, as a function of the item.
Shares(own, T) == [x \in T |-> Percent(Of(own, x))]

\* The sum trancheTable computes.
Total(own, T) == MapThenSumSet(LAMBDA x : Percent(Of(own, x)), T)

\* The recursion of that sum, unfolded once.
SharesSum(sum, own, T) ==
    sum = [s \in SUBSET T |-> IF s = {} THEN 0
                              ELSE Percent(Of(own, Any(s))) + sum[s \ {Any(s)}]]

\* The total of a tranche is the value at T of a function that sums the shares.
LEMMA TableSum ==
    ASSUME NEW own, NEW T, IsFiniteSet(T)
    PROVE  \E sum : Sums(sum, Shares(own, T), T) /\ Total(own, T) = sum[T]
<1> DEFINE g == Shares(own, T)
<1>1. \A sum : Sums(sum, g, T) <=> SharesSum(sum, own, T)
  <2> SUFFICES ASSUME NEW sum PROVE Sums(sum, g, T) <=> SharesSum(sum, own, T)
    OBVIOUS
  <2>1. ASSUME NEW s \in SUBSET T, s # {} PROVE g[Any(s)] = Percent(Of(own, Any(s)))
    BY <2>1, AnyOf DEF Shares
  <2> HIDE DEF g
  <2>2. [s \in SUBSET T |-> Summed(sum, g, s)]
          = [s \in SUBSET T |-> IF s = {} THEN 0
                                ELSE Percent(Of(own, Any(s))) + sum[s \ {Any(s)}]]
    BY <2>1 DEF Summed
  <2> QED
    BY <2>2 DEF Sums, SharesSum
<1> HIDE DEF g
<1>2. \E sum : SharesSum(sum, own, T)
  BY <1>1, SumsExist
<1>3. PICK sum : sum = CHOOSE f : SharesSum(f, own, T)
  OBVIOUS
<1>4. SharesSum(sum, own, T)
  BY <1>2, <1>3, Zenon
<1>5. Total(own, T) = sum[T]
  BY <1>3, Zenon DEF Total, MapThenSumSet, MapThenFoldSet, SharesSum, Any
<1> QED
  BY <1>1, <1>4, <1>5 DEF g

\* Truncating division, bounded from both sides.
LEMMA DivBounds == ASSUME NEW s \in Nat, NEW n \in Nat \ {0}
                   PROVE  /\ s \div n \in Nat
                          /\ (s \div n) * n <= s /\ s < (s \div n) * n + n
  OBVIOUS

\* What a table built from rows serves for one of their confidences.
Earned(rows, table, r) ==
    LET served == Calibrate(table, r.raw)
        same   == {t \in rows : TrancheIndex(t.raw) = TrancheIndex(r.raw)}
        items  == {t.item : t \in same}
        once   == {t.item : t \in {u \in same : u.correct}}
        always == items \ {t.item : t \in {u \in same : ~u.correct}}
    IN  served.calibrated =>
            /\ Cardinality(items) >= MinN
            /\ 4 * 100 * Cardinality(always) < (served.confidence + 4) * Cardinality(items)
            /\ served.confidence * Cardinality(items) <= 4 * 100 * Cardinality(once)

\* A table serves a confidence only where enough items earned it.
LEMMA TableEarned ==
    ASSUME NEW rows, IsRows(rows), NEW r \in rows
    PROVE  Earned(rows, TrancheTable(rows), r)
<1> DEFINE table == TrancheTable(rows)
           i == TrancheIndex(r.raw)
           same == InTranche(rows, i)
           items == ItemsOf(same)
           once == {t.item : t \in {u \in same : u.correct}}
           always == items \ {t.item : t \in {u \in same : ~u.correct}}
           n == Cardinality(items)
           g == Shares(same, items)
<1>1. i \in 1..Tranches /\ r \in same /\ r.item \in items
  BY TrancheExists DEF IsRows, IsRow, InTranche, ItemsOf
<1>2. IsRows(same) /\ IsFiniteSet(items)
  <2>1. same \in SUBSET rows
    BY DEF InTranche
  <2>2. IsRows(same)
    BY <2>1, FS_Subset DEF IsRows
  <2> HIDE DEF same
  <2> QED
    BY <2>2, ItemsFinite DEF IsRows, ItemsOf
<1>3. n \in Nat \ {0}
  <2> HIDE DEF items
  <2> QED
    BY <1>1, <1>2, FS_CardinalityType, FS_EmptySet
<1>4. PICK sum : Sums(sum, g, items) /\ Total(same, items) = sum[items]
  <2> HIDE DEF items, same
  <2> QED
    BY <1>2, TableSum
<1>5. table[i] = [n |-> n, accuracy |-> sum[items] \div n]
  <2>1. table[i] = [n |-> n,
                    accuracy |-> IF n = 0 THEN 0
                       ELSE Total(same, items) \div n]
    BY <1>1, Zenon DEF TrancheTable, Tranches, Total
  <2> HIDE DEF n, items, same, table, i
  <2> QED
    BY <1>3, <1>4, <2>1
<1>6. ASSUME NEW x \in items
      PROVE  /\ IsRows(Of(same, x)) /\ Of(same, x) # {}
  <2>1. Of(same, x) \in SUBSET same /\ Of(same, x) # {}
    BY DEF Of, ItemsOf
  <2> HIDE DEF same
  <2> QED
    BY <1>2, <2>1, FS_Subset DEF IsRows
<1> HIDE DEF same
<1>7. /\ g \in [items -> 0..100]
      /\ \A x \in always : g[x] = 100
      /\ \A x \in items \ once : g[x] = 0
  <2>1. ASSUME NEW x \in items PROVE g[x] = Percent(Of(same, x)) /\ g[x] \in 0..100
    BY <1>6, PercentOf DEF Shares
  <2>2. ASSUME NEW x \in always PROVE g[x] = 100
    <3>1. \A t \in Of(same, x) : t.correct
      BY DEF Of
    <3> QED
      BY <1>6, <2>1, <3>1, PercentOf
  <2>3. ASSUME NEW x \in items \ once PROVE g[x] = 0
    <3>1. \A t \in Of(same, x) : ~t.correct
      BY DEF Of
    <3> QED
      BY <1>6, <2>1, <3>1, PercentOf
  <2>4. g = [x \in items |-> g[x]]
    BY DEF Shares
  <2> HIDE DEF g, items, once, always
  <2> QED
    BY <2>1, <2>2, <2>3, <2>4
<1>8. always \in SUBSET items /\ once \in SUBSET items
  BY DEF ItemsOf
<1> HIDE DEF g, items, once, always
<1>9. Sums(sum, g, items)
  BY <1>4, Zenon
<1>20. /\ sum[items] \in Nat /\ Cardinality(always) \in Nat /\ Cardinality(once) \in Nat
      /\ 100 * Cardinality(always) <= sum[items] /\ sum[items] <= 100 * Cardinality(once)
  <2>1. Percents(g, items, always, once)
    BY <1>7, <1>8 DEF Percents
  <2> QED
    BY <1>2, <1>9, <2>1, SumBounds
<1> HIDE DEF n
<1> DEFINE acc == sum[items] \div n
           A == Cardinality(always)
           O == Cardinality(once)
           total == sum[items]
<1>10. acc \in Nat /\ acc * n <= total /\ total < acc * n + n
  BY <1>3, <1>20, DivBounds
<1>11. 4 * 100 * A < (4 * acc + 4) * n /\ (4 * acc) * n <= 4 * 100 * O
  <2>1. total \in Nat /\ A \in Nat /\ O \in Nat /\ 100 * A <= total /\ total <= 100 * O
    BY <1>20
  <2> DEFINE p == acc * n
  <2>2. (4 * acc + 4) * n = 4 * p + 4 * n /\ (4 * acc) * n = 4 * p /\ p \in Nat
    <3> HIDE DEF acc
    <3> QED
      BY <1>3, <1>10
  <2> HIDE DEF acc, A, O, total, p
  <2>3. p <= total /\ total < p + n
    BY <1>10 DEF p
  <2> QED
    BY <1>3, <2>1, <2>2, <2>3
<1>12. Calibrate(table, r.raw).calibrated =>
         Calibrate(table, r.raw).confidence = 4 * acc /\ n >= MinN
  BY <1>5 DEF Calibrate
<1> HIDE DEF acc, table
<1>13. Calibrate(table, r.raw).calibrated =>
          /\ n >= MinN
          /\ 4 * 100 * A < (Calibrate(table, r.raw).confidence + 4) * n
          /\ Calibrate(table, r.raw).confidence * n <= 4 * 100 * O
  BY <1>11, <1>12
<1>14. /\ {t \in rows : TrancheIndex(t.raw) = TrancheIndex(r.raw)} = same
       /\ {t.item : t \in same} = items
  BY DEF same, items, InTranche, ItemsOf
<1> QED
  BY <1>13, <1>14, Zenon DEF Earned, n, always, once, table

(***************************************************************************)
(* What the files and the running script hold.                             *)
(***************************************************************************)
\* The item records what the judge answered under cfg, as evalOne read it.
Answered(i, cfg, x) ==
    /\ i.predClause = x.clause /\ i.confidence = x.confidence /\ i.agrees = x.agrees
    /\ i.raw = NormalizeVerdict(x.judgement.raw) /\ i.pred = NormalizeVerdict(x.judgement.verdict)
    /\ i.gapCheck = x.judgement.gapCheck
    /\ i.reason = ReviewLadder(x.clause # <<>>, x.judgement.blocked, x.agrees,
                               x.confidence < ReviewThreshold)
    /\ i.review = (i.reason # "none") /\ i.correct = (i.pred = i.gold)

\* The item records an answer, or that there was none.
Told(i) ==
    IF Bad(i) THEN i.reason = "none" /\ i.gapCheck = "none"
    ELSE \E cfg \in Config : \E x \in Answers(cfg) : Answered(i, cfg, x)

IsItem(i) ==
    /\ i = [id |-> i.id, gold |-> i.gold, goldClause |-> i.goldClause,
            difficulty |-> i.difficulty, raw |-> i.raw, pred |-> i.pred,
            predClause |-> i.predClause, correct |-> i.correct,
            clauseOutcome |-> i.clauseOutcome, review |-> i.review, reason |-> i.reason,
            without |-> i.without, effect |-> i.effect, gapCheck |-> i.gapCheck,
            confidence |-> i.confidence, agrees |-> i.agrees,
            verifierConfidence |-> i.verifierConfidence, quote |-> i.quote,
            error |-> i.error, systemError |-> i.systemError]
    /\ i.confidence \in Nat /\ i.verifierConfidence \in Nat /\ i.agrees \in BOOLEAN
    /\ i.correct \in BOOLEAN /\ i.review \in BOOLEAN
    /\ i.error \in BOOLEAN /\ i.systemError \in BOOLEAN
    /\ Told(i)

OnePerId(items) == \A i, j \in items : i.id = j.id => i = j

IsItems(items) == IsFiniteSet(items) /\ OnePerId(items) /\ \A i \in items : IsItem(i)

\* The copy that sanitize-results.ts makes.
Sanitized(items) == {SanitizeItem(i) : i \in items}

\* What eval.ts wrote: no item carries the mark of the copies.
Original(items, summary) ==
    /\ IsItems(items) /\ summary = Summary(items)
    /\ \A i \in items : ~i.systemError

\* A result file is what eval.ts wrote or its copy, under the summary of the former.
Reported(items, summary) ==
    \E raw : Original(raw, summary) /\ (items = raw \/ items = Sanitized(raw))

\* The result files of the passes, raw and public.
ResultPaths == {"raw", "public"} \X Passes

\* What a script may leave in a file, written whole.
Content(path, c) ==
    /\ c.state = "written"
    /\ path = Calibration => IsRows(c.rows) /\ c.tranches = TrancheTable(c.rows)
    /\ path \in ResultPaths =>
          /\ c = [state |-> "written", model |-> c.model, config |-> c.config,
                  items |-> c.items, summary |-> c.summary]
          /\ IsItems(c.items) /\ Reported(c.items, c.summary)
          /\ path[1] = "raw" => Original(c.items, c.summary)
    /\ path = Calls => DOMAIN c.calls = Needs(c.from)

\* A file is absent, empty, or whole.
DiskOK ==
    /\ disk = [path \in Paths |-> disk[path]]
    /\ \A path \in Paths : disk[path] \in {Absent, Truncated} \/ Content(path, disk[path])

\* An evaluation under way holds well-formed items.
Evals ==
    /\ proc = [script |-> "eval", pass |-> proc.pass, model |-> proc.model,
               config |-> proc.config, dry |-> proc.dry, budget |-> proc.budget,
               attempt |-> proc.attempt, done |-> proc.done, todo |-> proc.todo]
    /\ proc.pass \in Passes /\ proc.config \in Config
    /\ IsItems(proc.done) /\ \A i \in proc.done : ~i.systemError
    /\ proc.todo \in Seq(DOMAIN Gold) /\ IsInjective(proc.todo)
    /\ \A i \in proc.done, n \in 1..Len(proc.todo) : proc.todo[n] # i.id

\* A script that writes holds content of the right kind for its path.
Writes ==
    /\ proc = [script |-> "write", path |-> proc.path, content |-> proc.content]
    /\ proc.path \in Paths /\ Content(proc.path, proc.content)

\* The inductive invariant.
HarnessInv ==
    /\ runs \in 0..MaxRuns /\ kills \in 0..MaxKills
    /\ DiskOK
    /\ proc = Idle \/ Evals \/ Writes

\* A result file is neither the calibration file nor the record of calls.
LEMMA PathsApart == \A path \in ResultPaths : path # Calibration /\ path # Calls
<1> SUFFICES ASSUME NEW path \in ResultPaths PROVE path # Calibration /\ path # Calls
  OBVIOUS
<1>1. path[1] \in {"raw", "public"}
  BY DEF ResultPaths
<1>2. Calibration[1] = "calibration" /\ Calls[1] = "calls"
  BY DEF Calibration, Calls
<1> QED
  BY <1>1, <1>2

\* An item a run records is well formed.
LEMMA JudgedIsItem ==
    ASSUME NEW id, NEW gold, NEW cfg \in Config, NEW x \in Answers(cfg)
    PROVE  LET i == Judged(id, gold, x.clause, x.judgement, x.confidence, x.agrees,
                           x.verifierConfidence)
           IN  IsItem(i) /\ ~i.systemError /\ i.id = id
<1> DEFINE i == Judged(id, gold, x.clause, x.judgement, x.confidence, x.agrees,
                       x.verifierConfidence)
<1>1. x.confidence \in Nat /\ x.agrees \in BOOLEAN /\ x.verifierConfidence \in Nat
  <2>1. Levels \subseteq Nat /\ NoClauseLevel \in Nat /\ MidLevel \in Nat
    BY LevelAssumption, SMTT(30)
  <2> QED
    BY <2>1 DEF Answers
<1>2. /\ i = [id |-> i.id, gold |-> i.gold, goldClause |-> i.goldClause,
              difficulty |-> i.difficulty, raw |-> i.raw, pred |-> i.pred,
              predClause |-> i.predClause, correct |-> i.correct,
              clauseOutcome |-> i.clauseOutcome, review |-> i.review, reason |-> i.reason,
              without |-> i.without, effect |-> i.effect, gapCheck |-> i.gapCheck,
              confidence |-> i.confidence, agrees |-> i.agrees,
              verifierConfidence |-> i.verifierConfidence, quote |-> i.quote,
              error |-> i.error, systemError |-> i.systemError]
      /\ i.id = id /\ i.error = FALSE /\ i.systemError = FALSE
      /\ i.confidence = x.confidence /\ i.agrees = x.agrees
      /\ i.verifierConfidence = x.verifierConfidence
      /\ i.correct \in BOOLEAN /\ i.review \in BOOLEAN
  BY DEF Judged
<1>3. Answered(i, cfg, x)
  BY DEF Judged, Answered
<1> HIDE DEF i
<1>4. Told(i)
  BY <1>2, <1>3 DEF Told, Bad
<1> QED
  BY <1>1, <1>2, <1>4 DEF IsItem, i

\* An item recorded for a failed call is well formed.
LEMMA ErroredIsItem ==
    ASSUME NEW id, NEW gold
    PROVE  LET i == Errored(id, gold) IN IsItem(i) /\ ~i.systemError /\ i.id = id
  BY DEF IsItem, Errored, Told, Bad

\* The sanitised copy of an item, field by field.
LEMMA SanitizedIs ==
    ASSUME NEW i, IsItem(i)
    PROVE  SanitizeItem(i) =
              [id |-> i.id, gold |-> i.gold, goldClause |-> i.goldClause,
               difficulty |-> i.difficulty, raw |-> i.raw, pred |-> i.pred,
               predClause |-> i.predClause, correct |-> i.correct,
               clauseOutcome |-> i.clauseOutcome, review |-> i.review, reason |-> i.reason,
               without |-> i.without, effect |-> i.effect, gapCheck |-> i.gapCheck,
               confidence |-> i.confidence, agrees |-> i.agrees,
               verifierConfidence |-> i.verifierConfidence, quote |-> FALSE,
               error |-> FALSE, systemError |-> i.error]
<1> DEFINE names == {"id", "gold", "goldClause", "difficulty", "raw", "pred", "predClause",
                     "correct", "clauseOutcome", "review", "reason", "without", "effect",
                     "gapCheck", "confidence", "agrees", "verifierConfidence", "quote",
                     "error", "systemError"}
<1>1. DOMAIN i = names /\ i = [n \in names |-> i[n]]
  BY DEF IsItem
<1>2. SanitizeItem(i) = [n \in names |-> IF n = "systemError" THEN i.error
                                         ELSE IF n \in {"quote", "error"} THEN FALSE ELSE i[n]]
  BY <1>1 DEF SanitizeItem
<1> QED
  BY <1>2

\* Sanitising keeps an item well formed.
LEMMA SanitizedIsItem ==
    ASSUME NEW i, IsItem(i), ~i.systemError PROVE IsItem(SanitizeItem(i))
<1> DEFINE x == SanitizeItem(i)
<1>1. /\ x.id = i.id /\ x.gold = i.gold /\ x.goldClause = i.goldClause
      /\ x.difficulty = i.difficulty /\ x.raw = i.raw /\ x.pred = i.pred
      /\ x.predClause = i.predClause /\ x.correct = i.correct
      /\ x.clauseOutcome = i.clauseOutcome /\ x.review = i.review /\ x.reason = i.reason
      /\ x.without = i.without /\ x.effect = i.effect /\ x.gapCheck = i.gapCheck
      /\ x.confidence = i.confidence /\ x.agrees = i.agrees
      /\ x.verifierConfidence = i.verifierConfidence /\ x.quote = FALSE
      /\ x.error = FALSE /\ x.systemError = i.error
  BY SanitizedIs
<1>2. x = [id |-> x.id, gold |-> x.gold, goldClause |-> x.goldClause,
           difficulty |-> x.difficulty, raw |-> x.raw, pred |-> x.pred,
           predClause |-> x.predClause, correct |-> x.correct,
           clauseOutcome |-> x.clauseOutcome, review |-> x.review, reason |-> x.reason,
           without |-> x.without, effect |-> x.effect, gapCheck |-> x.gapCheck,
           confidence |-> x.confidence, agrees |-> x.agrees,
           verifierConfidence |-> x.verifierConfidence, quote |-> x.quote,
           error |-> x.error, systemError |-> x.systemError]
  BY SanitizedIs
<1> HIDE DEF x
<1>3. /\ i.confidence \in Nat /\ i.verifierConfidence \in Nat /\ i.agrees \in BOOLEAN
      /\ i.correct \in BOOLEAN /\ i.review \in BOOLEAN /\ i.error \in BOOLEAN
      /\ Told(i)
  BY DEF IsItem
<1>4. Told(x)
  <2>1. \A cfg, a : Answered(i, cfg, a) => Answered(x, cfg, a)
    BY <1>1 DEF Answered
  <2>2. Bad(x) <=> Bad(i)
    BY <1>1, <1>3 DEF Bad
  <2>3. CASE Bad(i)
    BY <1>1, <1>3, <2>2, <2>3 DEF Told
  <2>4. CASE ~Bad(i)
    BY <1>3, <2>1, <2>2, <2>4 DEF Told
  <2> QED
    BY <2>3, <2>4
<1> QED
  BY <1>1, <1>2, <1>3, <1>4 DEF IsItem, x

\* The public copy of a run's items is finite and well formed.
LEMMA SanitizedItems ==
    ASSUME NEW items, IsItems(items), \A i \in items : ~i.systemError
    PROVE  IsItems(Sanitized(items))
<1> DEFINE f == [i \in items |-> SanitizeItem(i)]
           T == Sanitized(items)
<1>1. f \in Surjection(items, T)
  BY DEF Surjection, Sanitized
<1>2. \A i \in T : IsItem(i)
  BY SanitizedIsItem DEF IsItems, Sanitized
<1>3. OnePerId(T)
  <2>1. \A i \in items : SanitizeItem(i).id = i.id
    BY SanitizedIs DEF IsItems
  <2> QED
    BY <2>1 DEF IsItems, OnePerId, Sanitized
<1> HIDE DEF f, T
<1>4. IsFiniteSet(T)
  BY <1>1, FS_Surjection DEF IsItems
<1> QED
  BY <1>2, <1>3, <1>4 DEF T, IsItems

\* A run that records one more item keeps its items finite and well formed.
LEMMA OneMore == ASSUME NEW items, IsItems(items), NEW i, IsItem(i), \A j \in items : j.id # i.id
                 PROVE  IsItems(items \cup {i})
  BY FS_AddElement DEF IsItems, OnePerId

\* The rows of the result files.
LEMMA RowsCollected ==
    ASSUME NEW files, DOMAIN files = Passes, \A k \in Passes : IsItems(files[k].items)
    PROVE  IsRows(CollectRows(files))
<1> DEFINE RowOf(i, k) == [item    |-> i.id,
                           run     |-> k,
                           raw     |-> RawConfidence(i.confidence, i.verifierConfidence, i.agrees),
                           correct |-> i.pred = i.gold]
           Kept(k) == {j \in files[k].items : ~j.error /\ ~j.systemError}
           RowsOf(k) == {RowOf(i, k) : i \in Kept(k)}
<1>1. CollectRows(files) = UNION {RowsOf(k) : k \in Passes}
  BY DEF CollectRows
<1>2. ASSUME NEW k \in Passes PROVE IsRows(RowsOf(k))
  <2>1. IsFiniteSet(Kept(k)) /\ \A i \in Kept(k) : IsItem(i)
    BY FS_Subset DEF IsItems
  <2>2. \A i \in Kept(k) : IsRow(RowOf(i, k))
    BY <2>1 DEF IsItem, IsRow, RawConfidence
  <2> DEFINE f == [i \in Kept(k) |-> RowOf(i, k)]
  <2>3. f \in Surjection(Kept(k), RowsOf(k))
    BY DEF Surjection
  <2>4. \A r \in RowsOf(k) : IsRow(r)
    BY <2>2
  <2> HIDE DEF f, Kept, RowsOf
  <2>5. IsFiniteSet(RowsOf(k))
    BY <2>1, <2>3, FS_Surjection
  <2> QED
    BY <2>4, <2>5 DEF IsRows
<1> HIDE DEF RowsOf
<1> DEFINE all == {RowsOf(k) : k \in Passes}
           f == [k \in Passes |-> RowsOf(k)]
<1>3. f \in Surjection(Passes, all)
  BY DEF Surjection
<1>4. \A s \in all : IsRows(s)
  BY <1>2
<1> HIDE DEF f, all
<1>5. IsFiniteSet(all)
  BY <1>3, HarnessAssumption, FS_Surjection
<1>6. IsFiniteSet(UNION all)
  BY <1>4, <1>5, FS_UNION DEF IsRows
<1> QED
  BY <1>1, <1>4, <1>6 DEF IsRows, all

(***************************************************************************)
(* The invariant.                                                          *)
(***************************************************************************)
LEMMA HarnessStarts == Init => HarnessInv
<1> SUFFICES ASSUME Init PROVE HarnessInv
  OBVIOUS
<1>1. DiskOK
  BY DEF Init, DiskOK
<1>2. runs \in 0..MaxRuns /\ kills \in 0..MaxKills
  BY HarnessAssumption DEF Init
<1> QED
  BY <1>1, <1>2 DEF Init, HarnessInv

\* A script that begins to write leaves an empty file and holds its content.
LEMMA BeginsWriting ==
    ASSUME HarnessInv, NEW path \in Paths, NEW content, Content(path, content),
           BeginWrite(path, content), UNCHANGED bounds
    PROVE  HarnessInv'
<1>1. /\ disk' = [disk EXCEPT ![path] = Truncated]
      /\ proc' = [script |-> "write", path |-> path, content |-> content]
      /\ runs' = runs /\ kills' = kills
  BY DEF BeginWrite, bounds
<1>2. DiskOK'
  <2>1. disk' = [p \in Paths |-> IF p = path THEN Truncated ELSE disk[p]]
    BY <1>1 DEF HarnessInv, DiskOK
  <2> QED
    BY <2>1 DEF HarnessInv, DiskOK
<1>3. Writes'
  BY <1>1 DEF Writes
<1> QED
  BY <1>1, <1>2, <1>3 DEF HarnessInv

\* What Record leaves of the running evaluation.
LEMMA NextItem ==
    ASSUME NEW item, Record(item),
           proc = [script |-> "eval", pass |-> proc.pass, model |-> proc.model,
                   config |-> proc.config, dry |-> proc.dry, budget |-> proc.budget,
                   attempt |-> proc.attempt, done |-> proc.done, todo |-> proc.todo]
    PROVE  proc' = [script |-> "eval", pass |-> proc.pass, model |-> proc.model,
                    config |-> proc.config, dry |-> proc.dry, budget |-> proc.budget,
                    attempt |-> 1, done |-> proc.done \cup {item}, todo |-> Tail(proc.todo)]
<1>1. PICK pass, model, config, dry, budget, attempt, done, todo :
         proc = [script |-> "eval", pass |-> pass, model |-> model, config |-> config,
                 dry |-> dry, budget |-> budget, attempt |-> attempt, done |-> done,
                 todo |-> todo]
  BY Zenon
<1>2. proc' = [script |-> "eval", pass |-> pass, model |-> model, config |-> config,
               dry |-> dry, budget |-> budget, attempt |-> 1, done |-> done \cup {item},
               todo |-> Tail(todo)]
  BY <1>1 DEF Record
<1> QED
  BY <1>1, <1>2

\* Recording an item keeps the invariant.
LEMMA RecordsItem ==
    ASSUME HarnessInv, Evaluating, NEW item, IsItem(item), ~item.systemError,
           item.id = Head(proc.todo), Record(item), UNCHANGED <<disk, bounds>>
    PROVE  HarnessInv'
<1>1. Evals /\ proc.todo # <<>>
  BY DEF HarnessInv, Writes, Idle, Evaluating
<1>2. proc' = [script |-> "eval", pass |-> proc.pass, model |-> proc.model,
               config |-> proc.config, dry |-> proc.dry, budget |-> proc.budget,
               attempt |-> 1, done |-> proc.done \cup {item}, todo |-> Tail(proc.todo)]
  BY <1>1, NextItem DEF Evals
<1> DEFINE todo == proc.todo
           rest == Tail(todo)
<1>3. /\ todo \in Seq(DOMAIN Gold) /\ todo # <<>> /\ IsInjective(todo) /\ todo[1] = item.id
      /\ \A i \in proc.done, n \in 1..Len(todo) : todo[n] # i.id
  BY <1>1 DEF Evals
<1> HIDE DEF todo
<1>4. /\ rest \in Seq(DOMAIN Gold) /\ Len(todo) \in Nat /\ Len(todo) > 0
      /\ Len(rest) = Len(todo) - 1
      /\ \A n \in 1..Len(rest) : rest[n] = todo[n + 1] /\ n + 1 \in 1..Len(todo) /\ n + 1 # 1
      /\ DOMAIN rest = 1..Len(rest) /\ DOMAIN todo = 1..Len(todo) /\ 1 \in 1..Len(todo)
  BY <1>3
<1>5. \A i \in proc.done : i.id # item.id
  BY <1>3, <1>4
<1>6. IsItems(proc.done \cup {item})
  BY <1>1, <1>5, OneMore DEF Evals
<1>7. IsInjective(rest)
  <2> SUFFICES ASSUME NEW a \in 1..Len(rest), NEW b \in 1..Len(rest), rest[a] = rest[b]
               PROVE  a = b
    BY <1>4 DEF IsInjective
  <2>1. todo[a + 1] = todo[b + 1] /\ a + 1 \in DOMAIN todo /\ b + 1 \in DOMAIN todo
    BY <1>4
  <2>2. a + 1 = b + 1
    BY <1>3, <2>1 DEF IsInjective
  <2>3. a \in Nat /\ b \in Nat
    BY <1>4
  <2> QED
    BY <2>2, <2>3
<1>8. \A i \in proc.done \cup {item}, n \in 1..Len(rest) : rest[n] # i.id
  <2> SUFFICES ASSUME NEW i \in proc.done \cup {item}, NEW n \in 1..Len(rest) PROVE rest[n] # i.id
    OBVIOUS
  <2>1. rest[n] = todo[n + 1] /\ n + 1 \in DOMAIN todo /\ n + 1 # 1 /\ 1 \in DOMAIN todo
    BY <1>4
  <2>2. CASE i \in proc.done
    BY <1>3, <1>4, <2>1, <2>2
  <2>3. CASE i = item
    <3>1. todo[n + 1] # todo[1]
      BY <1>3, <2>1 DEF IsInjective
    <3> QED
      BY <1>3, <2>1, <2>3, <3>1
  <2> QED
    BY <2>2, <2>3
<1> HIDE DEF rest
<1>9. Evals'
  <2>1. proc'.todo = rest /\ proc'.done = proc.done \cup {item} /\ proc'.pass = proc.pass
        /\ proc'.config = proc.config
    BY <1>2 DEF rest, todo
  <2>2. \A i \in proc.done \cup {item} : ~i.systemError
    BY <1>1 DEF Evals
  <2>3. rest \in Seq(DOMAIN Gold)
    BY <1>4
  <2> QED
    BY <1>1, <1>2, <1>6, <1>7, <1>8, <2>1, <2>2, <2>3 DEF Evals
<1> QED
  BY <1>9 DEF HarnessInv, DiskOK, bounds

\* Every step of the harness keeps the invariant.
LEMMA HarnessStep == HarnessInv /\ [Next]_vars => HarnessInv'
<1> SUFFICES ASSUME HarnessInv, [Next]_vars PROVE HarnessInv'
  OBVIOUS
<1> USE DEF Script, Operator
<1>1. CASE EvalItem
  <2>1. PICK x \in Answers(proc.config) :
           Record(Judged(Head(proc.todo), Gold[Head(proc.todo)], x.clause, x.judgement,
                         x.confidence, x.agrees, x.verifierConfidence))
    BY <1>1 DEF EvalItem
  <2>2. Evaluating /\ UNCHANGED <<disk, bounds>>
    BY <1>1 DEF EvalItem
  <2>3. proc.config \in Config
    BY <2>2 DEF HarnessInv, Writes, Idle, Evals, Evaluating
  <2> DEFINE i == Judged(Head(proc.todo), Gold[Head(proc.todo)], x.clause, x.judgement,
                         x.confidence, x.agrees, x.verifierConfidence)
  <2>4. IsItem(i) /\ ~i.systemError /\ i.id = Head(proc.todo)
    BY <2>3, JudgedIsItem
  <2>5. Record(i)
    BY <2>1
  <2> QED
    <3> HIDE DEF i
    <3> QED
      BY <2>2, <2>4, <2>5, RecordsItem
<1>2. CASE EvalItemThrows
  <2>1. proc.script = "eval" /\ UNCHANGED <<disk, bounds>>
    BY <1>2 DEF EvalItemThrows, Evaluating
  <2>2. Evals
    BY <2>1 DEF HarnessInv, Writes, Idle
  <2>3. CASE proc.attempt < Attempts
    <3>1. proc' = [script |-> "eval", pass |-> proc.pass, model |-> proc.model,
                   config |-> proc.config, dry |-> proc.dry, budget |-> proc.budget,
                   attempt |-> proc.attempt + 1, done |-> proc.done, todo |-> proc.todo]
      BY <1>2, <2>2, <2>3 DEF EvalItemThrows, Evals
    <3>2. Evals'
      BY <2>2, <3>1 DEF Evals
    <3> QED
      BY <2>1, <3>2 DEF HarnessInv, DiskOK, bounds
  <2>4. CASE ~(proc.attempt < Attempts)
    <3>1. Record(Errored(Head(proc.todo), Gold[Head(proc.todo)]))
      BY <1>2, <2>4 DEF EvalItemThrows
    <3>2. Evaluating
      BY <1>2 DEF EvalItemThrows
    <3> QED
      BY <2>1, <3>1, <3>2, ErroredIsItem, RecordsItem
  <2> QED
    BY <2>3, <2>4
<1>3. CASE BudgetStops
  <2>1. proc.script = "eval" /\ UNCHANGED <<disk, bounds>>
    BY <1>3 DEF BudgetStops, Evaluating
  <2>2. Evals
    BY <2>1 DEF HarnessInv, Writes, Idle
  <2>3. proc' = [script |-> "eval", pass |-> proc.pass, model |-> proc.model,
                 config |-> proc.config, dry |-> proc.dry, budget |-> proc.budget,
                 attempt |-> proc.attempt, done |-> proc.done, todo |-> <<>>]
    <3> DEFINE none == <<>>
    <3>1. proc' = [proc EXCEPT !.todo = none]
      BY <1>3 DEF BudgetStops
    <3> HIDE DEF none
    <3>2. proc' = [script |-> "eval", pass |-> proc.pass, model |-> proc.model,
                   config |-> proc.config, dry |-> proc.dry, budget |-> proc.budget,
                   attempt |-> proc.attempt, done |-> proc.done, todo |-> none]
      BY <2>2, <3>1 DEF Evals
    <3> QED
      BY <3>2 DEF none
  <2>4. /\ Len(<<>>) = 0 /\ 1..0 = {} /\ <<>> \in Seq(DOMAIN Gold) /\ DOMAIN <<>> = {}
        /\ IsInjective(<<>>)
    BY DEF IsInjective
  <2>5. Evals'
    BY <2>2, <2>3, <2>4 DEF Evals
  <2> QED
    BY <2>1, <2>5 DEF HarnessInv, DiskOK, bounds
<1>4. CASE FinishEval
  <2>1. proc.script = "eval" /\ UNCHANGED bounds
    BY <1>4 DEF FinishEval
  <2>2. Evals
    BY <2>1 DEF HarnessInv, Writes, Idle
  <2>3. CASE proc.dry
    BY <1>4, <2>1, <2>3 DEF FinishEval, HarnessInv, DiskOK, bounds
  <2>4. CASE ~proc.dry
    <3> DEFINE path == <<"raw", proc.pass>>
               content == [state |-> "written", model |-> proc.model, config |-> proc.config,
                           items |-> proc.done, summary |-> Summary(proc.done)]
    <3>1. path \in ResultPaths /\ path \in Paths
      BY <2>2 DEF Evals, Paths, ResultPaths
    <3>2. BeginWrite(path, content)
      BY <1>4, <2>4 DEF FinishEval
    <3>3. Content(path, content)
      <4>1. Original(proc.done, Summary(proc.done))
        BY <2>2 DEF Evals, Original
      <4>2. Reported(proc.done, Summary(proc.done))
        BY <4>1 DEF Reported
      <4> QED
        BY <2>2, <3>1, <4>1, <4>2, PathsApart DEF Evals, Content
    <3> QED
      BY <2>1, <3>1, <3>2, <3>3, BeginsWriting
  <2> QED
    BY <2>3, <2>4
<1>5. CASE EndWrite
  <2>1. /\ proc.script = "write" /\ disk' = [disk EXCEPT ![proc.path] = proc.content]
        /\ proc' = Idle /\ runs' = runs /\ kills' = kills
    BY <1>5 DEF EndWrite, bounds
  <2>2. Writes
    BY <2>1 DEF HarnessInv, Evals, Idle
  <2>3. disk' = [p \in Paths |-> IF p = proc.path THEN proc.content ELSE disk[p]]
    BY <2>1 DEF HarnessInv, DiskOK
  <2>4. DiskOK'
    BY <2>2, <2>3 DEF HarnessInv, DiskOK, Writes
  <2> QED
    BY <2>1, <2>4 DEF HarnessInv
<1>6. CASE StartEval
  <2>1. /\ runs < MaxRuns /\ runs' = runs + 1 /\ kills' = kills /\ disk' = disk
    BY <1>6 DEF StartEval
  <2>2. runs' \in 0..MaxRuns /\ runs' \in 1..MaxRuns
    BY <2>1, HarnessAssumption DEF HarnessInv
  <2>3. PICK c \in Commands(runs') :
           proc' = [script |-> "eval", pass |-> c.pass, model |-> c.model, config |-> c.config,
                    dry |-> c.dry, budget |-> c.budget, attempt |-> 1, done |-> {},
                    todo |-> IF c.dry /\ Len(c.items) > 3 THEN SubSeq(c.items, 1, 3) ELSE c.items]
    BY <1>6 DEF StartEval
  <2>4. c.pass \in Passes
    BY <2>2, <2>3, HarnessAssumption
  <2>5. IsItems({})
    BY FS_EmptySet DEF IsItems, OnePerId
  <2>6. proc'.todo \in Seq(DOMAIN Gold) /\ IsInjective(proc'.todo)
    <3>1. c.items \in Seq(DOMAIN Gold) /\ IsInjective(c.items)
      BY <2>2, <2>3, HarnessAssumption
    <3>2. CASE proc'.todo = c.items
      BY <3>1, <3>2
    <3>3. CASE Len(c.items) > 3 /\ proc'.todo = SubSeq(c.items, 1, 3)
      <4>1. /\ proc'.todo \in Seq(DOMAIN Gold) /\ DOMAIN proc'.todo = 1..3
            /\ \A n \in 1..3 : proc'.todo[n] = c.items[n] /\ n \in DOMAIN c.items
        BY <3>1, <3>3
      <4> QED
        BY <3>1, <4>1 DEF IsInjective
    <3> QED
      BY <2>3, <3>2, <3>3
  <2>7. proc'.config \in Config /\ proc'.pass \in Passes /\ proc'.done = {}
    BY <2>2, <2>3, <2>4, HarnessAssumption
  <2>8. Evals'
    BY <2>3, <2>5, <2>6, <2>7 DEF Evals
  <2> QED
    BY <2>1, <2>2, <2>8 DEF HarnessInv, DiskOK
<1>7. CASE Sanitize
  <2>1. PICK k \in Passes :
           /\ Readable(<<"raw", k>>)
           /\ BeginWrite(<<"public", k>>,
                 [disk[<<"raw", k>>] EXCEPT !.items = {SanitizeItem(i) : i \in @}])
    BY <1>7 DEF Sanitize
  <2> DEFINE raw == disk[<<"raw", k>>]
             content == [state |-> "written", model |-> raw.model, config |-> raw.config,
                         items |-> {SanitizeItem(i) : i \in raw.items}, summary |-> raw.summary]
  <2>2. /\ <<"raw", k>> \in ResultPaths /\ <<"raw", k>> \in Paths
        /\ <<"public", k>> \in ResultPaths /\ <<"public", k>> \in Paths
    BY DEF Paths, ResultPaths
  <2>3. Content(<<"raw", k>>, raw)
    BY <2>1, <2>2 DEF HarnessInv, DiskOK, Readable, Absent, Truncated
  <2>4. [raw EXCEPT !.items = {SanitizeItem(i) : i \in @}] = content
    BY <2>2, <2>3 DEF Content
  <2>5. Content(<<"public", k>>, content)
    <3>1. Original(raw.items, raw.summary)
      BY <2>2, <2>3 DEF Content
    <3>2. IsItems(Sanitized(raw.items)) /\ Reported(Sanitized(raw.items), raw.summary)
      BY <3>1, SanitizedItems DEF Original, Reported
    <3>3. content.items = Sanitized(raw.items)
      BY DEF Sanitized
    <3> QED
      BY <2>2, <3>2, <3>3, PathsApart DEF Content
  <2>6. BeginWrite(<<"public", k>>, content)
    BY <2>1, <2>4
  <2>7. UNCHANGED bounds
    BY <1>7 DEF Sanitize
  <2> QED
    BY <2>2, <2>5, <2>6, <2>7, BeginsWriting
<1>8. CASE BuildCalibration
  <2> DEFINE public == [k \in Passes |-> disk[<<"public", k>>]]
             content == Calibrating(public)
  <2>1. /\ \A k \in Passes : Readable(<<"public", k>>)
        /\ BeginWrite(Calibration, content) /\ UNCHANGED bounds
    BY <1>8 DEF BuildCalibration
  <2>2. \A k \in Passes : IsItems(public[k].items)
    <3> SUFFICES ASSUME NEW k \in Passes PROVE IsItems(disk[<<"public", k>>].items)
      OBVIOUS
    <3>1. <<"public", k>> \in ResultPaths /\ <<"public", k>> \in Paths
      BY DEF Paths, ResultPaths
    <3> QED
      BY <2>1, <3>1 DEF HarnessInv, DiskOK, Readable, Absent, Truncated, Content
  <2>3. Calibration \in Paths /\ Calibration \notin ResultPaths /\ Calibration # Calls
    BY PathsApart DEF Paths, Calibration, Calls
  <2>4. DOMAIN public = Passes
    OBVIOUS
  <2> HIDE DEF public
  <2>5. IsRows(CollectRows(public))
    BY <2>2, <2>4, RowsCollected
  <2>6. /\ content.state = "written" /\ content.rows = CollectRows(public)
        /\ content.tranches = TrancheTable(CollectRows(public))
    BY DEF Calibrating
  <2>7. Content(Calibration, content)
    BY <2>3, <2>5, <2>6 DEF Content
  <2> QED
    BY <2>1, <2>3, <2>7, BeginsWriting
<1>9. CASE Collect
  <2>1. PICK answers \in [Needs(ReadAll("public")) -> BOOLEAN] :
           BeginWrite(Calls, [state |-> "written", calls |-> answers,
                                         from |-> ReadAll("public")])
    BY <1>9 DEF Collect
  <2>2. Calls \in Paths /\ Calls \notin ResultPaths /\ Calls # Calibration
    BY PathsApart DEF Paths, Calls, Calibration
  <2>3. Content(Calls, [state |-> "written", calls |-> answers, from |-> ReadAll("public")])
    BY <2>1, <2>2 DEF Content
  <2>4. UNCHANGED bounds
    BY <1>9 DEF Collect
  <2> QED
    BY <2>1, <2>2, <2>3, <2>4, BeginsWriting
<1>10. CASE Kill
  <2>1. proc' = Idle /\ kills < MaxKills /\ kills' = kills + 1 /\ disk' = disk /\ runs' = runs
    BY <1>10 DEF Kill
  <2>2. kills' \in 0..MaxKills
    BY <2>1, HarnessAssumption DEF HarnessInv
  <2> QED
    BY <2>1, <2>2 DEF HarnessInv, DiskOK
<1>11. CASE UNCHANGED vars
  BY <1>11 DEF vars, HarnessInv, DiskOK, Evals, Writes
<1> QED
  BY <1>1, <1>2, <1>3, <1>4, <1>5, <1>6, <1>7, <1>8, <1>9, <1>10, <1>11 DEF Next

\* What the scripts read was written whole, whatever was killed.
THEOREM HarnessInvariant == Spec => []HarnessInv
  BY HarnessStarts, HarnessStep, PTL DEF Spec

\* Every variable keeps its type.
THEOREM TypeCorrect == Spec => []TypeOK
<1>1. HarnessInv => TypeOK
  BY DEF HarnessInv, DiskOK, Content, Absent, Truncated, Idle, Evals, Writes, TypeOK
<1> QED
  BY <1>1, HarnessInvariant, PTL

\* Whatever was run, killed and run again, a number that the sidecar serves is
\* earned by enough different items (ServedNumberIsEarned).
THEOREM ServedEarned == Spec => []ServedNumberIsEarned
<1>1. HarnessInv => ServedNumberIsEarned
  <2> SUFFICES ASSUME HarnessInv, Table # <<>>, NEW r \in disk[Calibration].rows
               PROVE  Earned(disk[Calibration].rows, Table, r)
    BY Zenon DEF ServedNumberIsEarned, Earned
  <2>1. Calibration \in Paths
    BY DEF Paths
  <2>2. Readable(Calibration) /\ Table = disk[Calibration].tranches
    BY DEF Table
  <2>3. Content(Calibration, disk[Calibration])
    BY <2>1, <2>2 DEF HarnessInv, DiskOK, Readable, Absent, Truncated
  <2> QED
    BY <2>2, <2>3, TableEarned DEF Content
<1> QED
  BY <1>1, HarnessInvariant, PTL

\* Opposite answers to an item leave the other folds as they are.
LEMMA FlipUnseen ==
    ASSUME NEW rows, IsRows(rows), NEW r \in rows
    PROVE  HeldOut(Flip(rows, r.item), [r EXCEPT !.correct = ~@]) = HeldOut(rows, r)
<1> DEFINE q == [r EXCEPT !.correct = ~@]
           Rest(s, i) == {t \in s : FoldOf[t.item] # FoldOf[i]}
<1>1. \A t \in rows : [t EXCEPT !.correct = ~@].item = t.item
  BY DEF IsRows, IsRow
<1>2. q.item = r.item /\ q.raw = r.raw
  BY DEF IsRows, IsRow
<1>3. Rest(Flip(rows, r.item), r.item) = Rest(rows, r.item)
  <2> DEFINE flip(t) == [t EXCEPT !.correct = ~@]
             flipped == Flip(rows, r.item)
  <2>1. \A x : x \in flipped <=> \E t \in rows : x = IF t.item = r.item THEN flip(t) ELSE t
    BY DEF Flip
  <2>2. \A t \in rows : flip(t).item = t.item
    BY <1>1
  <2> HIDE DEF flip, flipped
  <2>3. ASSUME NEW x, FoldOf[x.item] # FoldOf[r.item] PROVE x \in flipped <=> x \in rows
    <3>1. x.item # r.item
      BY <2>3
    <3>2. x \in rows => x \in flipped
      BY <2>1, <3>1
    <3>3. ASSUME x \in flipped PROVE x \in rows
      <4>1. PICK t \in rows : x = IF t.item = r.item THEN flip(t) ELSE t
        BY <2>1, <3>3
      <4>2. t.item # r.item
        BY <2>2, <3>1, <4>1
      <4> QED
        BY <4>1, <4>2
    <3> QED
      BY <3>2, <3>3
  <2> QED
    BY <2>3 DEF flipped
<1> HIDE DEF q
<1>4. HeldOut(Flip(rows, r.item), q)
        = Calibrate(TrancheTable(Rest(Flip(rows, r.item), r.item)), r.raw)
  BY <1>2 DEF HeldOut
<1>5. HeldOut(rows, r) = Calibrate(TrancheTable(Rest(rows, r.item)), r.raw)
  BY DEF HeldOut
<1> HIDE DEF Rest
<1> QED
  BY <1>3, <1>4, <1>5 DEF q

\* No item's own answer reaches its held-out prediction, for any folds, runs and
\* items (HeldOutIsUnseen).
THEOREM HeldOutUnseen == Spec => []HeldOutIsUnseen
<1>1. HarnessInv => HeldOutIsUnseen
  <2> SUFFICES ASSUME HarnessInv, Writing(Calibration), NEW r \in proc.content.rows
               PROVE  HeldOut(Flip(proc.content.rows, r.item), [r EXCEPT !.correct = ~@])
                        = HeldOut(proc.content.rows, r)
    BY DEF HeldOutIsUnseen
  <2>1. Writes
    BY DEF HarnessInv, Writing, Idle, Evals
  <2>2. IsRows(proc.content.rows)
    BY <2>1 DEF Writes, Writing, Content
  <2> QED
    BY <2>2, FlipUnseen
<1> QED
  BY <1>1, HarnessInvariant, PTL

\* A one-to-one map carries the size of any part.
LEMMA SameSize ==
    ASSUME NEW R, IsFiniteSet(R), NEW T, NEW f \in Bijection(R, T), NEW A \in SUBSET R,
           NEW B \in SUBSET T, \A i \in R : i \in A <=> f[i] \in B
    PROVE  IsFiniteSet(A) /\ IsFiniteSet(B) /\ Cardinality(A) = Cardinality(B)
<1> DEFINE g == [i \in A |-> f[i]]
<1>1. IsFiniteSet(A)
  BY FS_Subset
<1>2. g \in Bijection(A, B)
  <2>1. /\ f \in [R -> T] /\ \A t \in T : \E i \in R : f[i] = t
        /\ \A i, j \in R : f[i] = f[j] => i = j
    BY DEF Bijection, Injection, Surjection, IsInjective
  <2>2. g \in [A -> B] /\ (\A i, j \in A : g[i] = g[j] => i = j) /\ \A t \in B : \E i \in A : g[i] = t
    BY <2>1
  <2> HIDE DEF g
  <2> QED
    BY <2>2 DEF Bijection, Injection, Surjection, IsInjective
<1> HIDE DEF g
<1> QED
  BY <1>1, <1>2, FS_Bijection DEF ExistsBijection

\* A part and the rest.
LEMMA Divided ==
    ASSUME NEW S, IsFiniteSet(S), NEW A \in SUBSET S
    PROVE  /\ IsFiniteSet(A) /\ IsFiniteSet(S \ A)
           /\ Cardinality(S) \in Nat /\ Cardinality(A) \in Nat /\ Cardinality(S \ A) \in Nat
           /\ Cardinality(S) = Cardinality(A) + Cardinality(S \ A)
<1>1. S \cap A = A /\ IsFiniteSet(A)
  BY FS_Subset
<1>2. IsFiniteSet(S \ A) /\ Cardinality(S \ A) = Cardinality(S) - Cardinality(A)
  BY <1>1, FS_Difference
<1>3. Cardinality(S) \in Nat /\ Cardinality(A) \in Nat /\ Cardinality(S \ A) \in Nat
  BY <1>1, <1>2, FS_CardinalityType
<1> QED
  BY <1>1, <1>2, <1>3

\* A set of items has as many ids as items.
LEMMA IdsCount ==
    ASSUME NEW items, IsItems(items), NEW s \in SUBSET items
    PROVE  IsFiniteSet(s) /\ IsFiniteSet({i.id : i \in s})
           /\ Cardinality({i.id : i \in s}) = Cardinality(s)
<1> DEFINE ids == {i.id : i \in s}
           f == [i \in s |-> i.id]
<1>1. f \in Bijection(s, ids)
  <2>1. f \in [s -> ids] /\ \A x \in ids : \E i \in s : f[i] = x
    OBVIOUS
  <2>2. \A i, j \in s : f[i] = f[j] => i = j
    BY DEF IsItems, OnePerId
  <2> HIDE DEF f
  <2> QED
    BY <2>1, <2>2 DEF Bijection, Injection, Surjection, IsInjective
<1>2. IsFiniteSet(s)
  BY FS_Subset DEF IsItems
<1> HIDE DEF f
<1> QED
  BY <1>1, <1>2, FS_Bijection DEF ExistsBijection

\* The fields that the reports count.
Alike(x, i) ==
    /\ x.id = i.id /\ x.gold = i.gold /\ x.pred = i.pred /\ x.correct = i.correct
    /\ x.review = i.review /\ x.clauseOutcome = i.clauseOutcome /\ Bad(x) = Bad(i)

\* A result file holds, item by item, what its summary was made from.
LEMMA Copied ==
    ASSUME NEW raw, NEW items, NEW summary, Original(raw, summary),
           items = raw \/ items = Sanitized(raw)
    PROVE  \E f \in Bijection(raw, items) : \A i \in raw : Alike(f[i], i)
<1>1. \A i \in raw : IsItem(i) /\ ~i.systemError
  BY DEF Original, IsItems
<1>2. CASE items = raw
  <2> DEFINE f == [i \in raw |-> i]
  <2>1. f \in Bijection(raw, raw)
    BY DEF Bijection, Injection, Surjection, IsInjective
  <2>2. \A i \in raw : Alike(f[i], i)
    BY DEF Alike
  <2> QED
    BY <1>2, <2>1, <2>2
<1>3. CASE items = Sanitized(raw)
  <2> DEFINE f == [i \in raw |-> SanitizeItem(i)]
  <2>1. \A i \in raw : Alike(SanitizeItem(i), i)
    <3> SUFFICES ASSUME NEW i \in raw PROVE Alike(SanitizeItem(i), i)
      OBVIOUS
    <3> DEFINE x == SanitizeItem(i)
    <3>1. /\ x.id = i.id /\ x.gold = i.gold /\ x.pred = i.pred /\ x.correct = i.correct
          /\ x.review = i.review /\ x.clauseOutcome = i.clauseOutcome
          /\ x.error = FALSE /\ x.systemError = i.error
      BY <1>1, SanitizedIs
    <3> HIDE DEF x
    <3>2. i.error \in BOOLEAN /\ i.systemError \in BOOLEAN /\ ~i.systemError
      BY <1>1 DEF IsItem
    <3>3. Bad(x) = Bad(i)
      BY <3>1, <3>2 DEF Bad
    <3> QED
      BY <3>1, <3>3 DEF Alike, x
  <2>2. \A i, j \in raw : f[i] = f[j] => i = j
    BY <2>1 DEF Alike, Original, IsItems, OnePerId
  <2>3. f \in [raw -> items] /\ \A t \in items : \E i \in raw : f[i] = t
    BY <1>3 DEF Sanitized
  <2>4. \A i \in raw : Alike(f[i], i)
    BY <2>1
  <2> HIDE DEF f
  <2>5. f \in Bijection(raw, items)
    BY <2>2, <2>3 DEF Bijection, Injection, Surjection, IsInjective
  <2> QED
    BY <2>4, <2>5
<1> QED
  BY <1>2, <1>3

(***************************************************************************)
(* Sums over the classes.                                                  *)
(***************************************************************************)
\* A sum over the three classes is the sum of three numbers.
LEMMA ClassSum ==
    ASSUME NEW g, NEW sum, Sums(sum, g, Classes), \A c \in Classes : g[c] \in Nat
    PROVE  sum[Classes] = g["conformant"] + g["gap"] + g["insufficient"]
<1> DEFINE a == "conformant"
           b == "gap"
           c == "insufficient"
<1>1. \A s \in SUBSET Classes : sum[s] = Summed(sum, g, s)
  BY SumAt
<1>2. sum[{}] = 0
  BY <1>1 DEF Summed
<1>3. ASSUME NEW x \in Classes PROVE sum[{x}] = g[x]
  <2>1. Any({x}) = x /\ {x} \ {x} = {} /\ {x} # {} /\ {x} \in SUBSET Classes
    BY AnyOf
  <2>2. sum[{x}] = g[x] + sum[{}]
    BY <1>1, <2>1 DEF Summed
  <2> QED
    BY <1>2, <2>2
<1>4. ASSUME NEW x \in Classes, NEW y \in Classes, x # y PROVE sum[{x, y}] = g[x] + g[y]
  <2>1. Any({x, y}) \in {x, y} /\ {x, y} # {} /\ {x, y} \in SUBSET Classes
    BY AnyOf
  <2>2. {x, y} \ {x} = {y} /\ {x, y} \ {y} = {x}
    BY <1>4
  <2>3. sum[{x, y}] = g[Any({x, y})] + sum[{x, y} \ {Any({x, y})}]
    BY <1>1, <2>1 DEF Summed
  <2>4. CASE Any({x, y}) = x
    BY <1>3, <2>2, <2>3, <2>4
  <2>5. CASE Any({x, y}) = y
    <3>1. sum[{x, y}] = g[y] + sum[{x}]
      BY <2>2, <2>3, <2>5
    <3>2. sum[{x}] = g[x] /\ g[x] \in Nat /\ g[y] \in Nat
      BY <1>3
    <3> QED
      BY <3>1, <3>2
  <2> QED
    BY <2>1, <2>4, <2>5
<1>5. Any(Classes) \in {a, b, c} /\ Classes # {} /\ Classes \in SUBSET Classes
  BY AnyOf DEF Classes
<1>6. sum[Classes] = g[Any(Classes)] + sum[Classes \ {Any(Classes)}]
  BY <1>1, <1>5 DEF Summed
<1>7. Classes \ {a} = {b, c} /\ Classes \ {b} = {a, c} /\ Classes \ {c} = {a, b}
  BY DEF Classes
<1>8. a \in Classes /\ b \in Classes /\ c \in Classes
  BY DEF Classes
<1>10. g[a] \in Nat /\ g[b] \in Nat /\ g[c] \in Nat
  BY <1>8
<1>9. sum[{b, c}] = g[b] + g[c] /\ sum[{a, c}] = g[a] + g[c] /\ sum[{a, b}] = g[a] + g[b]
  BY <1>4, <1>8
<1>11. CASE Any(Classes) = a
  <2>1. sum[Classes] = g[a] + sum[{b, c}]
    BY <1>6, <1>7, <1>11
  <2> QED
    BY <2>1, <1>9, <1>10
<1>12. CASE Any(Classes) = b
  <2>1. sum[Classes] = g[b] + sum[{a, c}]
    BY <1>6, <1>7, <1>12
  <2> QED
    BY <2>1, <1>9, <1>10
<1>13. CASE Any(Classes) = c
  <2>1. sum[Classes] = g[c] + sum[{a, b}]
    BY <1>6, <1>7, <1>13
  <2> QED
    BY <2>1, <1>9, <1>10
<1> QED
  BY <1>5, <1>11, <1>12, <1>13

\* There are three classes.
LEMMA ClassesFinite == IsFiniteSet(Classes)
<1>1. IsFiniteSet({"gap"})
  BY FS_Singleton
<1>2. IsFiniteSet({"gap"} \cup {"conformant"})
  BY <1>1, FS_AddElement
<1>3. IsFiniteSet(({"gap"} \cup {"conformant"}) \cup {"insufficient"})
  BY <1>2, FS_AddElement
<1>4. Classes = ({"gap"} \cup {"conformant"}) \cup {"insufficient"}
  BY DEF Classes
<1> QED
  BY <1>3, <1>4

\* The sums of PerClassPRF.
FpOf(m, c)      == MapThenSumSet(LAMBDA g : IF g # c THEN m[g][c] ELSE 0, Classes)
FnOf(m, c)      == MapThenSumSet(LAMBDA p : IF p # c THEN m[c][p] ELSE 0, Classes)
SupportOf(m, c) == MapThenSumSet(LAMBDA p : m[c][p], Classes)

Column(m, c) == [g \in Classes |-> m[g][c]]
Row(m, c)    == [p \in Classes |-> m[c][p]]
Off(h, c)    == [x \in Classes |-> IF x = c THEN 0 ELSE h[x]]

ThreeOf(g) == g["conformant"] + g["gap"] + g["insufficient"]

IsMatrix(m) == \A g, p \in Classes : m[g][p] \in Nat

\* The sums that define the false positives of the report.
FpOfSum(sum, m, c) ==
    sum = [s \in SUBSET Classes |->
             IF s = {} THEN 0 ELSE (IF Any(s) # c THEN m[Any(s)][c] ELSE 0) + sum[s \ {Any(s)}]]

\* They add the column of the class without its diagonal.
LEMMA FpOfIs ==
    ASSUME NEW m, IsMatrix(m), NEW c \in Classes PROVE FpOf(m, c) = ThreeOf(Off(Column(m, c), c))
<1> DEFINE g == Off(Column(m, c), c)
<1>1. \A s \in SUBSET Classes : s # {} => g[Any(s)] = IF Any(s) # c THEN m[Any(s)][c] ELSE 0
  BY AnyOf DEF Off, Column, Row
<1>2. \A x \in Classes : g[x] \in Nat
  BY DEF Off, Column, Row, IsMatrix
<1> HIDE DEF g
<1>3. \A sum : Sums(sum, g, Classes) <=> FpOfSum(sum, m, c)
  <2> SUFFICES ASSUME NEW sum PROVE Sums(sum, g, Classes) <=> FpOfSum(sum, m, c)
    OBVIOUS
  <2>1. [s \in SUBSET Classes |-> Summed(sum, g, s)]
          = [s \in SUBSET Classes |->
               IF s = {} THEN 0 ELSE (IF Any(s) # c THEN m[Any(s)][c] ELSE 0) + sum[s \ {Any(s)}]]
    BY <1>1 DEF Summed
  <2> QED
    BY <2>1 DEF Sums, FpOfSum
<1>4. \E sum : FpOfSum(sum, m, c)
  BY <1>3, SumsExist, ClassesFinite
<1>5. PICK sum : sum = CHOOSE f : FpOfSum(f, m, c)
  OBVIOUS
<1>6. FpOfSum(sum, m, c)
  BY <1>4, <1>5, Zenon
<1>7. FpOf(m, c) = sum[Classes]
  BY <1>5, Zenon DEF FpOf, MapThenSumSet, MapThenFoldSet, FpOfSum, Any
<1>8. sum[Classes] = ThreeOf(g)
  BY <1>2, <1>3, <1>6, ClassSum DEF ThreeOf
<1> QED
  BY <1>7, <1>8 DEF g

\* The sums that define the false negatives of the report.
FnOfSum(sum, m, c) ==
    sum = [s \in SUBSET Classes |->
             IF s = {} THEN 0 ELSE (IF Any(s) # c THEN m[c][Any(s)] ELSE 0) + sum[s \ {Any(s)}]]

\* They add the row of the class without its diagonal.
LEMMA FnOfIs ==
    ASSUME NEW m, IsMatrix(m), NEW c \in Classes PROVE FnOf(m, c) = ThreeOf(Off(Row(m, c), c))
<1> DEFINE g == Off(Row(m, c), c)
<1>1. \A s \in SUBSET Classes : s # {} => g[Any(s)] = IF Any(s) # c THEN m[c][Any(s)] ELSE 0
  BY AnyOf DEF Off, Column, Row
<1>2. \A x \in Classes : g[x] \in Nat
  BY DEF Off, Column, Row, IsMatrix
<1> HIDE DEF g
<1>3. \A sum : Sums(sum, g, Classes) <=> FnOfSum(sum, m, c)
  <2> SUFFICES ASSUME NEW sum PROVE Sums(sum, g, Classes) <=> FnOfSum(sum, m, c)
    OBVIOUS
  <2>1. [s \in SUBSET Classes |-> Summed(sum, g, s)]
          = [s \in SUBSET Classes |->
               IF s = {} THEN 0 ELSE (IF Any(s) # c THEN m[c][Any(s)] ELSE 0) + sum[s \ {Any(s)}]]
    BY <1>1 DEF Summed
  <2> QED
    BY <2>1 DEF Sums, FnOfSum
<1>4. \E sum : FnOfSum(sum, m, c)
  BY <1>3, SumsExist, ClassesFinite
<1>5. PICK sum : sum = CHOOSE f : FnOfSum(f, m, c)
  OBVIOUS
<1>6. FnOfSum(sum, m, c)
  BY <1>4, <1>5, Zenon
<1>7. FnOf(m, c) = sum[Classes]
  BY <1>5, Zenon DEF FnOf, MapThenSumSet, MapThenFoldSet, FnOfSum, Any
<1>8. sum[Classes] = ThreeOf(g)
  BY <1>2, <1>3, <1>6, ClassSum DEF ThreeOf
<1> QED
  BY <1>7, <1>8 DEF g

\* The sums that define the support in the report.
SupportOfSum(sum, m, c) ==
    sum = [s \in SUBSET Classes |-> IF s = {} THEN 0 ELSE m[c][Any(s)] + sum[s \ {Any(s)}]]

\* They add the row of the class.
LEMMA SupportOfIs ==
    ASSUME NEW m, IsMatrix(m), NEW c \in Classes PROVE SupportOf(m, c) = ThreeOf(Row(m, c))
<1> DEFINE g == Row(m, c)
<1>1. \A s \in SUBSET Classes : s # {} => g[Any(s)] = m[c][Any(s)]
  BY AnyOf DEF Off, Column, Row
<1>2. \A x \in Classes : g[x] \in Nat
  BY DEF Off, Column, Row, IsMatrix
<1> HIDE DEF g
<1>3. \A sum : Sums(sum, g, Classes) <=> SupportOfSum(sum, m, c)
  <2> SUFFICES ASSUME NEW sum PROVE Sums(sum, g, Classes) <=> SupportOfSum(sum, m, c)
    OBVIOUS
  <2>1. [s \in SUBSET Classes |-> Summed(sum, g, s)]
          = [s \in SUBSET Classes |-> IF s = {} THEN 0 ELSE m[c][Any(s)] + sum[s \ {Any(s)}]]
    BY <1>1 DEF Summed
  <2> QED
    BY <2>1 DEF Sums, SupportOfSum
<1>4. \E sum : SupportOfSum(sum, m, c)
  BY <1>3, SumsExist, ClassesFinite
<1>5. PICK sum : sum = CHOOSE f : SupportOfSum(f, m, c)
  OBVIOUS
<1>6. SupportOfSum(sum, m, c)
  BY <1>4, <1>5, Zenon
<1>7. SupportOf(m, c) = sum[Classes]
  BY <1>5, Zenon DEF SupportOf, MapThenSumSet, MapThenFoldSet, SupportOfSum, Any
<1>8. sum[Classes] = ThreeOf(g)
  BY <1>2, <1>3, <1>6, ClassSum DEF ThreeOf
<1> QED
  BY <1>7, <1>8 DEF g

\* The sums that define the false positives of the comparison.
PredictedWronglySum(sum, m, c) ==
    sum = [s \in SUBSET Classes |->
             IF s = {} THEN 0 ELSE (IF Any(s) = c THEN 0 ELSE m[Any(s)][c]) + sum[s \ {Any(s)}]]

\* They add the column of the class without its diagonal.
LEMMA PredictedWronglyIs ==
    ASSUME NEW m, IsMatrix(m), NEW c \in Classes PROVE PredictedWrongly(m, c) = ThreeOf(Off(Column(m, c), c))
<1> DEFINE g == Off(Column(m, c), c)
<1>1. \A s \in SUBSET Classes : s # {} => g[Any(s)] = IF Any(s) = c THEN 0 ELSE m[Any(s)][c]
  BY AnyOf DEF Off, Column, Row
<1>2. \A x \in Classes : g[x] \in Nat
  BY DEF Off, Column, Row, IsMatrix
<1> HIDE DEF g
<1>3. \A sum : Sums(sum, g, Classes) <=> PredictedWronglySum(sum, m, c)
  <2> SUFFICES ASSUME NEW sum PROVE Sums(sum, g, Classes) <=> PredictedWronglySum(sum, m, c)
    OBVIOUS
  <2>1. [s \in SUBSET Classes |-> Summed(sum, g, s)]
          = [s \in SUBSET Classes |->
               IF s = {} THEN 0 ELSE (IF Any(s) = c THEN 0 ELSE m[Any(s)][c]) + sum[s \ {Any(s)}]]
    BY <1>1 DEF Summed
  <2> QED
    BY <2>1 DEF Sums, PredictedWronglySum
<1>4. \E sum : PredictedWronglySum(sum, m, c)
  BY <1>3, SumsExist, ClassesFinite
<1>5. PICK sum : sum = CHOOSE f : PredictedWronglySum(f, m, c)
  OBVIOUS
<1>6. PredictedWronglySum(sum, m, c)
  BY <1>4, <1>5, Zenon
<1>7. PredictedWrongly(m, c) = sum[Classes]
  BY <1>5, Zenon DEF PredictedWrongly, MapThenSumSet, MapThenFoldSet, PredictedWronglySum, Any
<1>8. sum[Classes] = ThreeOf(g)
  BY <1>2, <1>3, <1>6, ClassSum DEF ThreeOf
<1> QED
  BY <1>7, <1>8 DEF g

\* The sums that define the false negatives of the comparison.
MissedSum(sum, m, c) ==
    sum = [s \in SUBSET Classes |->
             IF s = {} THEN 0 ELSE (IF Any(s) = c THEN 0 ELSE m[c][Any(s)]) + sum[s \ {Any(s)}]]

\* They add the row of the class without its diagonal.
LEMMA MissedIs ==
    ASSUME NEW m, IsMatrix(m), NEW c \in Classes PROVE Missed(m, c) = ThreeOf(Off(Row(m, c), c))
<1> DEFINE g == Off(Row(m, c), c)
<1>1. \A s \in SUBSET Classes : s # {} => g[Any(s)] = IF Any(s) = c THEN 0 ELSE m[c][Any(s)]
  BY AnyOf DEF Off, Column, Row
<1>2. \A x \in Classes : g[x] \in Nat
  BY DEF Off, Column, Row, IsMatrix
<1> HIDE DEF g
<1>3. \A sum : Sums(sum, g, Classes) <=> MissedSum(sum, m, c)
  <2> SUFFICES ASSUME NEW sum PROVE Sums(sum, g, Classes) <=> MissedSum(sum, m, c)
    OBVIOUS
  <2>1. [s \in SUBSET Classes |-> Summed(sum, g, s)]
          = [s \in SUBSET Classes |->
               IF s = {} THEN 0 ELSE (IF Any(s) = c THEN 0 ELSE m[c][Any(s)]) + sum[s \ {Any(s)}]]
    BY <1>1 DEF Summed
  <2> QED
    BY <2>1 DEF Sums, MissedSum
<1>4. \E sum : MissedSum(sum, m, c)
  BY <1>3, SumsExist, ClassesFinite
<1>5. PICK sum : sum = CHOOSE f : MissedSum(f, m, c)
  OBVIOUS
<1>6. MissedSum(sum, m, c)
  BY <1>4, <1>5, Zenon
<1>7. Missed(m, c) = sum[Classes]
  BY <1>5, Zenon DEF Missed, MapThenSumSet, MapThenFoldSet, MissedSum, Any
<1>8. sum[Classes] = ThreeOf(g)
  BY <1>2, <1>3, <1>6, ClassSum DEF ThreeOf
<1> QED
  BY <1>7, <1>8 DEF g

(***************************************************************************)
(* The reports.                                                            *)
(***************************************************************************)
\* The two ways to count the classes agree on every matrix.
LEMMA PerClassAgrees ==
    ASSUME NEW m, IsMatrix(m)
    PROVE  [c \in Classes |-> [tp |-> m[c][c], fp |-> PredictedWrongly(m, c), fn |-> Missed(m, c),
                               support |-> m[c][c] + Missed(m, c)]] = PerClassPRF(m)
<1>1. PerClassPRF(m) = [c \in Classes |-> [tp |-> m[c][c], fp |-> FpOf(m, c), fn |-> FnOf(m, c),
                                           support |-> SupportOf(m, c)]]
  BY Zenon DEF PerClassPRF, FpOf, FnOf, SupportOf
<1>3. ASSUME NEW c \in Classes
      PROVE  /\ PredictedWrongly(m, c) = FpOf(m, c) /\ Missed(m, c) = FnOf(m, c)
             /\ SupportOf(m, c) = m[c][c] + Missed(m, c)
  <2>1. PredictedWrongly(m, c) = FpOf(m, c) /\ Missed(m, c) = FnOf(m, c)
    BY FpOfIs, FnOfIs, PredictedWronglyIs, MissedIs
  <2>2. SupportOf(m, c) = ThreeOf(Row(m, c)) /\ Missed(m, c) = ThreeOf(Off(Row(m, c), c))
    BY SupportOfIs, MissedIs
  <2> DEFINE h == Row(m, c)
  <2>3. \A x \in Classes : h[x] \in Nat
    BY DEF Row, IsMatrix
  <2>4. h[c] = m[c][c]
    BY DEF Row
  <2> HIDE DEF h
  <2>5. ThreeOf(h) = h[c] + ThreeOf(Off(h, c))
    BY <2>3 DEF ThreeOf, Off, Classes
  <2> QED
    BY <2>1, <2>2, <2>4, <2>5 DEF h
<1> QED
  BY <1>1, <1>3

\* The counts of a report, over the items it is made from.
Right(s)      == {i \in s : i.correct}
Committed(s)  == {i \in s : ~i.review}
Wrong(s)      == {i \in s : ~i.correct}
Found(s)      == {i \in s : RetrievalOk(i)}
Entry(s, g, p) == {i \in s : i.gold = g /\ i.pred = p}

\* The items with a verdict.
Scored(items) == {i \in items : ~Bad(i)}

\* Two sets of items alike, one by one, have the same counts.
Counted(t, s) ==
    /\ Cardinality(t) = Cardinality(s) /\ Cardinality(Right(t)) = Cardinality(Right(s))
    /\ Confusion(t) = Confusion(s)
    /\ Cardinality(Committed(t)) = Cardinality(Committed(s))
    /\ Cardinality(Wrong(Committed(t))) = Cardinality(Wrong(Committed(s)))
    /\ Cardinality(Found(t)) = Cardinality(Found(s))
    /\ Cardinality(Right(Found(t))) = Cardinality(Right(Found(s)))
    /\ Cardinality(t \ Found(t)) = Cardinality(s \ Found(s))
    /\ Cardinality(Right(t \ Found(t))) = Cardinality(Right(s \ Found(s)))

\* A one-to-one map between items alike makes the counts equal.
LEMMA CountsAgree ==
    ASSUME NEW s, IsFiniteSet(s), NEW t, NEW f \in Bijection(s, t), \A i \in s : Alike(f[i], i)
    PROVE  Counted(t, s)
<1>1. \A A \in SUBSET s, B \in SUBSET t : (\A i \in s : i \in A <=> f[i] \in B) =>
         Cardinality(B) = Cardinality(A)
  BY SameSize
<1>2. \A i \in s : f[i] \in t
  BY DEF Bijection, Injection
<1>3. \A i \in s : /\ f[i].gold = i.gold /\ f[i].pred = i.pred /\ f[i].correct = i.correct
                   /\ f[i].review = i.review /\ RetrievalOk(f[i]) = RetrievalOk(i)
  BY DEF Alike, RetrievalOk
<1>4. Cardinality(t) = Cardinality(s)
  BY <1>1, <1>2
<1>5. Cardinality(Right(t)) = Cardinality(Right(s))
  BY <1>1, <1>2, <1>3 DEF Right
<1>6. Cardinality(Committed(t)) = Cardinality(Committed(s))
  BY <1>1, <1>2, <1>3 DEF Committed
<1>7. Cardinality(Wrong(Committed(t))) = Cardinality(Wrong(Committed(s)))
  BY <1>1, <1>2, <1>3 DEF Committed, Wrong
<1>8. Cardinality(Found(t)) = Cardinality(Found(s))
  BY <1>1, <1>2, <1>3 DEF Found
<1>9. Cardinality(Right(Found(t))) = Cardinality(Right(Found(s)))
  BY <1>1, <1>2, <1>3 DEF Found, Right
<1>10. Cardinality(t \ Found(t)) = Cardinality(s \ Found(s))
  BY <1>1, <1>2, <1>3 DEF Found
<1>11. Cardinality(Right(t \ Found(t))) = Cardinality(Right(s \ Found(s)))
  BY <1>1, <1>2, <1>3 DEF Found, Right
<1>12. Confusion(t) = Confusion(s)
  <2>1. \A g, p \in Classes : Cardinality(Entry(t, g, p)) = Cardinality(Entry(s, g, p))
    BY <1>1, <1>2, <1>3 DEF Entry
  <2>2. \A u : Confusion(u) = [g \in Classes |-> [p \in Classes |-> Cardinality(Entry(u, g, p))]]
    BY DEF Confusion, Entry
  <2> QED
    BY <2>1, <2>2
<1> QED
  BY <1>4, <1>5, <1>6, <1>7, <1>8, <1>9, <1>10, <1>11, <1>12 DEF Counted

\* The entries of the confusion matrix of a finite set are natural numbers.
LEMMA ConfusionIs == ASSUME NEW s, IsFiniteSet(s) PROVE IsMatrix(Confusion(s))
<1>1. Confusion(s) = [g \in Classes |-> [p \in Classes |-> Cardinality(Entry(s, g, p))]]
  BY DEF Confusion, Entry
<1>2. \A g, p \in Classes : Cardinality(Entry(s, g, p)) \in Nat
  <2>1. \A g, p \in Classes : Entry(s, g, p) \in SUBSET s
    BY DEF Entry
  <2> QED
    BY <2>1, FS_Subset, FS_CardinalityType
<1>3. \A g, p \in Classes : Confusion(s)[g][p] = Cardinality(Entry(s, g, p))
  BY <1>1, SMTT(30)
<1> QED
  BY <1>2, <1>3, Zenon DEF IsMatrix

IdsOf(s) == {i.id : i \in s}

\* What the comparison counts.
LEMMA MetricsIs ==
    ASSUME NEW items
    PROVE  LET m == Metrics(items)
               s == Scored(items)
           IN  /\ m.scored = Cardinality(s) /\ m.errored = IdsOf({i \in items : Bad(i)})
               /\ m.correct = Cardinality(Right(s)) /\ m.conf = Confusion(s)
               /\ m.perClass = [c \in Classes |->
                     [tp |-> Confusion(s)[c][c], fp |-> PredictedWrongly(Confusion(s), c),
                      fn |-> Missed(Confusion(s), c),
                      support |-> Confusion(s)[c][c] + Missed(Confusion(s), c)]]
               /\ m.committed = Cardinality(Committed(s))
               /\ m.committedCorrect = Cardinality(Committed(s)) - Cardinality(Wrong(Committed(s)))
               /\ m.silent = IdsOf(Wrong(Committed(s)))
               /\ m.toReview = Cardinality(s) - Cardinality(Committed(s))
               /\ m.retOk = Cardinality(Found(s)) /\ m.vGivenOk = Cardinality(Right(Found(s)))
               /\ m.retBad = Cardinality(s \ Found(s))
               /\ m.vGivenBad = Cardinality(Right(s \ Found(s)))
  BY DEF Metrics, Scored, Right, Committed, Wrong, Found, IdsOf, Confusion

\* What the summary reports.
LEMMA ReportIs ==
    ASSUME NEW s
    PROVE  LET r == Report(s)
           IN  /\ r.correct = Cardinality(Right(s)) /\ r.confusion = Confusion(s)
               /\ r.perClass = PerClassPRF(Confusion(s))
               /\ r.retrieval.correct = Cardinality(Found(s))
               /\ r.retrieval.verdictGivenCorrect = Cardinality(Right(Found(s)))
               /\ r.retrieval.retBad = Cardinality(s \ Found(s))
               /\ r.retrieval.verdictGivenWrong = Cardinality(Right(s \ Found(s)))
               /\ r.gated.coverage = Cardinality(Committed(s))
               /\ r.gated.committedCorrect = Cardinality(Right(Committed(s)))
               /\ r.gated.abstained = Cardinality(s \ Committed(s))
               /\ r.gated.silentErrors = Cardinality(Wrong(Committed(s)))
<1>1. /\ {r \in s : r.review} = s \ Committed(s)
      /\ {r \in s : ~r.correct /\ ~r.review} = Wrong(Committed(s))
  BY DEF Committed, Wrong
<1>2. LET r == Report(s)
      IN  /\ r.gated.abstained = Cardinality({q \in s : q.review})
          /\ r.gated.silentErrors = Cardinality({q \in s : ~q.correct /\ ~q.review})
  BY Zenon DEF Report
<1>3. LET r == Report(s)
      IN  /\ r.correct = Cardinality(Right(s)) /\ r.confusion = Confusion(s)
          /\ r.perClass = PerClassPRF(Confusion(s))
          /\ r.retrieval.correct = Cardinality(Found(s))
          /\ r.retrieval.verdictGivenCorrect = Cardinality(Right(Found(s)))
          /\ r.retrieval.retBad = Cardinality(s \ Found(s))
          /\ r.retrieval.verdictGivenWrong = Cardinality(Right(s \ Found(s)))
          /\ r.gated.coverage = Cardinality(Committed(s))
          /\ r.gated.committedCorrect = Cardinality(Right(Committed(s)))
  BY Zenon DEF Report, Right, Found, Committed
<1> QED
  BY <1>1, <1>2, <1>3

\* What the gap report counts.
GapsOf(s)   == {i \in s : i.pred = "gap"}
GoldGaps(s) == {i \in s : i.gold = "gap"}
RawGaps(s)  == {i \in s : i.raw = "gap"}

TrueGaps(items)  == GoldGaps(GapsOf(Committed(Scored(items))))
FalseGaps(items) == GapsOf(Committed(Scored(items))) \ TrueGaps(items)

\* The figures of the gap report, as the sizes of those parts.
LEMMA GapStatsIs ==
    ASSUME NEW items
    PROVE  LET g == GapStats(items)
           IN  /\ g.scored = Cardinality(Scored(items))
               /\ g.committed = Cardinality(Committed(Scored(items)))
               /\ g.goldGaps = Cardinality(GoldGaps(Scored(items)))
               /\ g.rawGaps = Cardinality(RawGaps(Scored(items)))
               /\ g.trueGaps = Cardinality(TrueGaps(items))
               /\ g.falseGapIds = IdsOf(FalseGaps(items))
               /\ g.missedGoldGapIds = IdsOf(GoldGaps(Scored(items)) \ TrueGaps(items))
  BY Zenon DEF GapStats, Scored, Bad, Committed, GapsOf, GoldGaps, RawGaps, TrueGaps, FalseGaps, IdsOf

\* The regression gate's figures of a run.
LEMMA RunStatsIs ==
    ASSUME NEW items, NEW frozen
    PROVE  LET own == Committed({i \in items : i.id \in frozen /\ ~Bad(i)})
           IN  /\ RunStats(items, frozen).committed = Cardinality(own)
               /\ RunStats(items, frozen).committedErrors = Cardinality(Wrong(own))
  BY DEF RunStats, Bad, Committed, Wrong

\* The comparison of a file agrees with its summary.
SummaryAgrees(items, s) ==
    LET m == Metrics(items)
    IN  /\ <<m.scored, Cardinality(m.errored), m.correct, m.conf, m.perClass>>
             = <<s.scored, s.errored, s.report.correct, s.report.confusion, s.report.perClass>>
        /\ <<m.committed, m.committedCorrect, Cardinality(m.silent), m.toReview>>
             = <<s.report.gated.coverage, s.report.gated.committedCorrect,
                 s.report.gated.silentErrors, s.report.gated.abstained>>
        /\ <<m.retOk, m.vGivenOk, m.retBad, m.vGivenBad>>
             = <<s.report.retrieval.correct, s.report.retrieval.verdictGivenCorrect,
                 s.report.retrieval.retBad, s.report.retrieval.verdictGivenWrong>>

\* It does for what eval.ts wrote and for its copy.
LEMMA MetricsAgree ==
    ASSUME NEW items, IsItems(items), NEW summary, Reported(items, summary)
    PROVE  SummaryAgrees(items, summary)
<1>1. PICK raw : Original(raw, summary) /\ (items = raw \/ items = Sanitized(raw))
  BY DEF Reported
<1>2. PICK f \in Bijection(raw, items) : \A i \in raw : Alike(f[i], i)
  BY <1>1, Copied
<1> DEFINE s == Scored(raw)
           t == Scored(items)
           g == [i \in s |-> f[i]]
<1>3. IsItems(raw) /\ summary = Summary(raw) /\ \A i \in raw : ~i.systemError
  BY <1>1 DEF Original
<1>4. \A i \in raw : i.error \in BOOLEAN /\ (Bad(i) <=> i.error) /\ (i \in s <=> f[i] \in t)
  <2>1. \A i \in raw : f[i] \in items
    BY DEF Bijection, Injection
  <2> QED
    BY <1>2, <1>3, <2>1 DEF IsItems, IsItem, Bad, Alike, Scored
<1>5. IsFiniteSet(s) /\ IsFiniteSet(t) /\ IsFiniteSet(raw) /\ s \in SUBSET raw /\ t \in SUBSET items
  BY <1>3, FS_Subset DEF IsItems, Scored
<1>6. g \in Bijection(s, t) /\ \A i \in s : Alike(g[i], i)
  <2>1. /\ f \in [raw -> items] /\ \A x \in items : \E i \in raw : f[i] = x
        /\ \A i, j \in raw : f[i] = f[j] => i = j
    BY DEF Bijection, Injection, Surjection, IsInjective
  <2> HIDE DEF s, t
  <2>2. g \in [s -> t] /\ (\A i, j \in s : g[i] = g[j] => i = j) /\ \A x \in t : \E i \in s : g[i] = x
    BY <1>4, <1>5, <2>1
  <2>3. \A i \in s : Alike(g[i], i)
    BY <1>2, <1>5
  <2> HIDE DEF g
  <2> QED
    BY <2>2, <2>3 DEF Bijection, Injection, Surjection, IsInjective
<1> HIDE DEF g, s, t
<1>7. Counted(t, s)
  BY <1>5, <1>6, CountsAgree
<1>8. /\ summary.report = Report(s) /\ summary.scored = Cardinality(s)
      /\ summary.errored = Cardinality(raw \ s)
  <2>1. {r \in raw : ~r.error} = s
    BY <1>4 DEF s, Scored
  <2> QED
    BY <1>3, <2>1 DEF Summary
<1>9. Cardinality(IdsOf({i \in items : Bad(i)})) = Cardinality(raw \ s)
  <2>1. {i \in items : Bad(i)} = items \ t
    BY DEF t, Scored
  <2>2. Cardinality(items \ t) = Cardinality(raw \ s)
    <3>1. \A i \in raw : i \in raw \ s <=> f[i] \in items \ t
      <4>1. \A i \in raw : f[i] \in items
        BY DEF Bijection, Injection
      <4> QED
        BY <1>4, <4>1
    <3> QED
      BY <1>5, <3>1, SameSize
  <2>3. Cardinality(IdsOf(items \ t)) = Cardinality(items \ t)
    BY IdsCount DEF IdsOf
  <2> QED
    BY <2>1, <2>2, <2>3
<1>10. Metrics(items).perClass = PerClassPRF(Confusion(t))
  BY <1>5, ConfusionIs, PerClassAgrees, MetricsIs DEF t
<1>11. /\ Cardinality(Committed(t)) - Cardinality(Wrong(Committed(t))) = Cardinality(Right(Committed(t)))
       /\ Cardinality(t) - Cardinality(Committed(t)) = Cardinality(t \ Committed(t))
  <2>1. Committed(t) \in SUBSET t /\ Wrong(Committed(t)) \in SUBSET Committed(t)
    BY DEF Committed, Wrong
  <2>2. Committed(t) \ Wrong(Committed(t)) = Right(Committed(t))
    BY DEF Wrong, Right
  <2>3. IsFiniteSet(Committed(t))
    BY <1>5, <2>1, FS_Subset
  <2>4. Cardinality(Committed(t)) = Cardinality(Wrong(Committed(t))) + Cardinality(Right(Committed(t)))
        /\ Cardinality(Wrong(Committed(t))) \in Nat /\ Cardinality(Right(Committed(t))) \in Nat
    BY <2>1, <2>2, <2>3, Divided
  <2>5. Cardinality(t) = Cardinality(Committed(t)) + Cardinality(t \ Committed(t))
        /\ Cardinality(Committed(t)) \in Nat /\ Cardinality(t \ Committed(t)) \in Nat
    BY <1>5, <2>1, Divided
  <2> QED
    BY <2>4, <2>5
<1>12. /\ Cardinality(Right(Committed(t))) = Cardinality(Right(Committed(s)))
       /\ Cardinality(t \ Committed(t)) = Cardinality(s \ Committed(s))
  <2>1. \A i \in s : g[i] \in t /\ g[i].correct = i.correct /\ g[i].review = i.review
    BY <1>6 DEF Bijection, Injection, Alike
  <2> DEFINE A == Right(Committed(s))
             B == Right(Committed(t))
             C == s \ Committed(s)
             D == t \ Committed(t)
  <2>2. A \in SUBSET s /\ B \in SUBSET t /\ \A i \in s : i \in A <=> g[i] \in B
    BY <2>1 DEF Right, Committed
  <2>3. C \in SUBSET s /\ D \in SUBSET t /\ \A i \in s : i \in C <=> g[i] \in D
    BY <2>1 DEF Committed
  <2> HIDE DEF A, B, C, D
  <2>4. Cardinality(A) = Cardinality(B)
    BY <1>5, <1>6, <2>2, SameSize
  <2>5. Cardinality(C) = Cardinality(D)
    BY <1>5, <1>6, <2>3, SameSize
  <2> QED
    BY <2>4, <2>5 DEF A, B, C, D
<1>13. Cardinality(Metrics(items).silent) = Cardinality(Wrong(Committed(t)))
  <2>1. Wrong(Committed(t)) \in SUBSET items
    BY DEF t, Scored, Wrong, Committed
  <2> QED
    BY <2>1, IdsCount, MetricsIs DEF IdsOf, t
<1> DEFINE m == Metrics(items)
           r == Report(s)
<1>14. /\ m.scored = Cardinality(t) /\ m.errored = IdsOf({i \in items : Bad(i)})
       /\ m.correct = Cardinality(Right(t)) /\ m.conf = Confusion(t)
       /\ m.committed = Cardinality(Committed(t))
       /\ m.committedCorrect = Cardinality(Committed(t)) - Cardinality(Wrong(Committed(t)))
       /\ m.toReview = Cardinality(t) - Cardinality(Committed(t))
       /\ m.retOk = Cardinality(Found(t)) /\ m.vGivenOk = Cardinality(Right(Found(t)))
       /\ m.retBad = Cardinality(t \ Found(t)) /\ m.vGivenBad = Cardinality(Right(t \ Found(t)))
  BY MetricsIs DEF t
<1>15. /\ r.correct = Cardinality(Right(s)) /\ r.confusion = Confusion(s)
       /\ r.perClass = PerClassPRF(Confusion(s))
       /\ r.retrieval.correct = Cardinality(Found(s))
       /\ r.retrieval.verdictGivenCorrect = Cardinality(Right(Found(s)))
       /\ r.retrieval.retBad = Cardinality(s \ Found(s))
       /\ r.retrieval.verdictGivenWrong = Cardinality(Right(s \ Found(s)))
       /\ r.gated.coverage = Cardinality(Committed(s))
       /\ r.gated.committedCorrect = Cardinality(Right(Committed(s)))
       /\ r.gated.abstained = Cardinality(s \ Committed(s))
       /\ r.gated.silentErrors = Cardinality(Wrong(Committed(s)))
  BY ReportIs
<1> HIDE DEF m, r
<1>16. /\ Cardinality(m.errored) = Cardinality(raw \ s) /\ m.perClass = PerClassPRF(Confusion(t))
       /\ Cardinality(m.silent) = Cardinality(Wrong(Committed(t)))
       /\ summary.report = r
  BY <1>8, <1>9, <1>10, <1>13, <1>14 DEF m, r
<1> QED
  BY <1>7, <1>8, <1>11, <1>12, <1>14, <1>15, <1>16 DEF Counted, SummaryAgrees, m

\* The gap report agrees with the comparison, and its two groups add up.
GapsAgree(items) ==
    LET m == Metrics(items)
        all == GapStats(items)
        dev == GapStats({i \in items : i.id \in Frozen})
        test == GapStats({i \in items : i.id \notin Frozen})
    IN  /\ all.scored = m.scored /\ all.committed = m.committed
        /\ all.falseGapIds \subseteq m.silent
        /\ all.falseGapIds = dev.falseGapIds \cup test.falseGapIds
        /\ all.trueGaps + Cardinality(all.missedGoldGapIds) = all.goldGaps
        /\ \A f \in {"committed", "goldGaps", "rawGaps", "trueGaps"} : all[f] = dev[f] + test[f]

\* It does on any set of well-formed items.
LEMMA GapStatsAgree == ASSUME NEW items, IsItems(items) PROVE GapsAgree(items)
<1> DEFINE dev == {i \in items : i.id \in Frozen}
           test == {i \in items : i.id \notin Frozen}
           s == Scored(items)
           own == Committed(s)
<1>1. IsFiniteSet(items) /\ \A i \in items : IsItem(i)
  BY DEF IsItems
<1>2. s \in SUBSET items /\ own \in SUBSET s /\ GapsOf(own) \in SUBSET own
      /\ TrueGaps(items) \in SUBSET GoldGaps(s) /\ GoldGaps(s) \in SUBSET items
      /\ TrueGaps(items) \in SUBSET items /\ RawGaps(s) \in SUBSET items /\ own \in SUBSET items
  BY DEF Scored, Committed, GapsOf, TrueGaps, GoldGaps, RawGaps
<1>3. FalseGaps(items) \in SUBSET Wrong(own)
  <2> SUFFICES ASSUME NEW i \in FalseGaps(items) PROVE i \in own /\ ~i.correct
    BY DEF Wrong
  <2>1. i \in own /\ i \in s /\ i \in items /\ i.pred = "gap" /\ i.gold # "gap" /\ ~Bad(i)
    BY DEF FalseGaps, GapsOf, TrueGaps, GoldGaps, Committed, Scored
  <2>2. i.correct = (i.pred = i.gold)
    BY <1>1, <2>1 DEF IsItem, Told, Answered
  <2> QED
    BY <2>1, <2>2
<1>4. IdsOf(FalseGaps(items)) = IdsOf(FalseGaps(dev)) \cup IdsOf(FalseGaps(test))
  <2>1. FalseGaps(items) = FalseGaps(dev) \cup FalseGaps(test)
    BY DEF FalseGaps, GapsOf, TrueGaps, GoldGaps, Committed, Scored
  <2> QED
    BY <2>1 DEF IdsOf
<1>5. Cardinality(TrueGaps(items)) + Cardinality(IdsOf(GoldGaps(s) \ TrueGaps(items)))
        = Cardinality(GoldGaps(s))
  <2>1. IsFiniteSet(GoldGaps(s))
    BY <1>1, <1>2, FS_Subset
  <2>2. Cardinality(IdsOf(GoldGaps(s) \ TrueGaps(items))) = Cardinality(GoldGaps(s) \ TrueGaps(items))
    <3>1. GoldGaps(s) \ TrueGaps(items) \in SUBSET items
      BY <1>2
    <3> QED
      BY <3>1, IdsCount DEF IdsOf
  <2> QED
    BY <1>2, <2>1, <2>2, Divided
<1>6. ASSUME NEW A \in SUBSET items, NEW B, NEW C,
             B = {i \in A : i.id \in Frozen}, C = {i \in A : i.id \notin Frozen}
      PROVE  Cardinality(A) = Cardinality(B) + Cardinality(C)
  <2>1. IsFiniteSet(A) /\ B \in SUBSET A /\ C = A \ B
    BY <1>1, <1>6, FS_Subset
  <2> QED
    BY <2>1, Divided
<1>7. /\ Committed(Scored(dev)) = {i \in own : i.id \in Frozen}
      /\ Committed(Scored(test)) = {i \in own : i.id \notin Frozen}
  BY DEF Committed, Scored
<1>8. /\ GoldGaps(Scored(dev)) = {i \in GoldGaps(s) : i.id \in Frozen}
      /\ GoldGaps(Scored(test)) = {i \in GoldGaps(s) : i.id \notin Frozen}
  BY DEF GoldGaps, Scored
<1>9. /\ RawGaps(Scored(dev)) = {i \in RawGaps(s) : i.id \in Frozen}
      /\ RawGaps(Scored(test)) = {i \in RawGaps(s) : i.id \notin Frozen}
  BY DEF RawGaps, Scored
<1>10. /\ TrueGaps(dev) = {i \in TrueGaps(items) : i.id \in Frozen}
       /\ TrueGaps(test) = {i \in TrueGaps(items) : i.id \notin Frozen}
  BY DEF TrueGaps, GoldGaps, GapsOf, Committed, Scored
<1>11. IdsOf(FalseGaps(items)) \subseteq IdsOf(Wrong(own))
  BY <1>3 DEF IdsOf
<1> DEFINE m == Metrics(items)
           all == GapStats(items)
           d == GapStats(dev)
           t == GapStats(test)
<1>12. m.scored = Cardinality(s) /\ m.committed = Cardinality(own) /\ m.silent = IdsOf(Wrong(own))
  BY MetricsIs
<1>13. /\ all.scored = Cardinality(s) /\ all.committed = Cardinality(own)
       /\ all.goldGaps = Cardinality(GoldGaps(s)) /\ all.rawGaps = Cardinality(RawGaps(s))
       /\ all.trueGaps = Cardinality(TrueGaps(items)) /\ all.falseGapIds = IdsOf(FalseGaps(items))
       /\ all.missedGoldGapIds = IdsOf(GoldGaps(s) \ TrueGaps(items))
  BY GapStatsIs
<1>14. /\ d.committed = Cardinality(Committed(Scored(dev)))
       /\ d.goldGaps = Cardinality(GoldGaps(Scored(dev)))
       /\ d.rawGaps = Cardinality(RawGaps(Scored(dev)))
       /\ d.trueGaps = Cardinality(TrueGaps(dev)) /\ d.falseGapIds = IdsOf(FalseGaps(dev))
  BY GapStatsIs
<1>15. /\ t.committed = Cardinality(Committed(Scored(test)))
       /\ t.goldGaps = Cardinality(GoldGaps(Scored(test)))
       /\ t.rawGaps = Cardinality(RawGaps(Scored(test)))
       /\ t.trueGaps = Cardinality(TrueGaps(test)) /\ t.falseGapIds = IdsOf(FalseGaps(test))
  BY GapStatsIs
<1> HIDE DEF m, all, d, t, s, own, dev, test
<1>16. all.committed = d.committed + t.committed
  BY <1>2, <1>6, <1>7, <1>13, <1>14, <1>15
<1>17. all.goldGaps = d.goldGaps + t.goldGaps
  BY <1>2, <1>6, <1>8, <1>13, <1>14, <1>15
<1>18. all.rawGaps = d.rawGaps + t.rawGaps
  BY <1>2, <1>6, <1>9, <1>13, <1>14, <1>15
<1>19. all.trueGaps = d.trueGaps + t.trueGaps
  BY <1>2, <1>6, <1>10, <1>13, <1>14, <1>15
<1>20. /\ all.scored = m.scored /\ all.committed = m.committed /\ all.falseGapIds \subseteq m.silent
       /\ all.falseGapIds = d.falseGapIds \cup t.falseGapIds
       /\ all.trueGaps + Cardinality(all.missedGoldGapIds) = all.goldGaps
  BY <1>4, <1>5, <1>11, <1>12, <1>13, <1>14, <1>15
<1>21. \A f \in {"committed", "goldGaps", "rawGaps", "trueGaps"} : all[f] = d[f] + t[f]
  BY <1>16, <1>17, <1>18, <1>19
<1> QED
  BY <1>20, <1>21, Zenon DEF GapsAgree, m, all, d, t, dev, test

\* A run that passes the gate against the baseline made from one run.
GateHolds(items, base) ==
    LET baseline == MakeBaseline({RunStats(base, Frozen)})
        known == Metrics(base).silent \cap Frozen
    IN  GatePasses(baseline, RunStats(items, Frozen)) =>
            /\ \E i \in items : i.id \in Frozen /\ ~Bad(i) /\ ~i.review
            /\ Cardinality(Metrics(items).silent \cap Frozen) <= Cardinality(known) + MaxExtra

\* The gate counts the frozen silent errors of the comparison.
LEMMA FrozenErrors ==
    ASSUME NEW items, IsItems(items)
    PROVE  /\ RunStats(items, Frozen).committedErrors = Cardinality(Metrics(items).silent \cap Frozen)
           /\ RunStats(items, Frozen).committedErrors \in Nat
           /\ RunStats(items, Frozen).committed # 0 =>
                 \E i \in items : i.id \in Frozen /\ ~Bad(i) /\ ~i.review
<1> DEFINE frozen == {i \in items : i.id \in Frozen /\ ~Bad(i)}
           own == Committed(frozen)
<1>1. RunStats(items, Frozen).committed = Cardinality(own)
      /\ RunStats(items, Frozen).committedErrors = Cardinality(Wrong(own))
  BY RunStatsIs
<1>2. Metrics(items).silent \cap Frozen = IdsOf(Wrong(own))
  <2>1. Metrics(items).silent = IdsOf(Wrong(Committed(Scored(items))))
    BY MetricsIs
  <2> QED
    BY <2>1 DEF IdsOf, Wrong, Committed, Scored
<1>3. Wrong(own) \in SUBSET items /\ own \in SUBSET items
  BY DEF Wrong, Committed
<1>4. Cardinality(IdsOf(Wrong(own))) = Cardinality(Wrong(own)) /\ IsFiniteSet(Wrong(own))
  BY <1>3, IdsCount DEF IdsOf
<1>5. Cardinality(own) # 0 => \E i \in items : i.id \in Frozen /\ ~Bad(i) /\ ~i.review
  <2>1. own = {} => Cardinality(own) = 0
    BY FS_EmptySet
  <2> QED
    BY <2>1 DEF Committed
<1> QED
  BY <1>1, <1>2, <1>4, <1>5, FS_CardinalityType

\* It committed an item, and its frozen silent errors are within the margin.
LEMMA GateAgrees ==
    ASSUME NEW items, IsItems(items), NEW base, IsItems(base) PROVE GateHolds(items, base)
<1> DEFINE b == RunStats(base, Frozen)
           c == RunStats(items, Frozen)
           baseline == MakeBaseline({b})
<1>1. b.committedErrors \in Nat /\ b.committedErrors = Cardinality(Metrics(base).silent \cap Frozen)
  BY FrozenErrors
<1>2. c.committedErrors \in Nat /\ c.committedErrors = Cardinality(Metrics(items).silent \cap Frozen)
  BY FrozenErrors
<1>3. c.committed # 0 => \E i \in items : i.id \in Frozen /\ ~Bad(i) /\ ~i.review
  BY FrozenErrors
<1> HIDE DEF b, c
<1>4. baseline.worstCommittedErrors = b.committedErrors
  <2>1. baseline.worstCommittedErrors = Max({b.committedErrors})
    <3>1. {r.committedErrors : r \in {b}} = {b.committedErrors}
      OBVIOUS
    <3> QED
      BY <3>1 DEF MakeBaseline
  <2> QED
    BY <1>1, <2>1 DEF Max
<1> HIDE DEF baseline
<1>5. ASSUME GatePasses(baseline, c)
      PROVE  c.committed # 0 /\ c.committedErrors <= b.committedErrors + MaxExtra
  BY <1>1, <1>2, <1>4, <1>5, ReportsAssumption DEF GatePasses
<1> QED
  BY <1>1, <1>2, <1>3, <1>5 DEF GateHolds, baseline, b, c

\* Whatever was run and killed, the reports of a file agree (ReportsAgree).
THEOREM CountsCoincide == Spec => []ReportsAgree
<1>1. HarnessInv => ReportsAgree
  <2> SUFFICES ASSUME HarnessInv, NEW kind \in {"raw", "public"}, NEW k \in Passes,
                      Writing(<<kind, k>>)
               PROVE  /\ SummaryAgrees(proc.content.items, proc.content.summary)
                      /\ GapsAgree(proc.content.items)
                      /\ \A b \in RawFiles : GateHolds(proc.content.items, disk[<<"raw", b>>].items)
    BY Zenon DEF ReportsAgree, SummaryAgrees, GapsAgree, GateHolds
  <2>1. Writes
    BY DEF HarnessInv, Writing, Idle, Evals
  <2>2. <<kind, k>> \in ResultPaths
    BY DEF ResultPaths
  <2>3. IsItems(proc.content.items) /\ Reported(proc.content.items, proc.content.summary)
    BY <2>1, <2>2 DEF Writes, Writing, Content
  <2>4. ASSUME NEW b \in RawFiles PROVE IsItems(disk[<<"raw", b>>].items)
    <3>1. <<"raw", b>> \in ResultPaths /\ <<"raw", b>> \in Paths /\ Readable(<<"raw", b>>)
      BY DEF ResultPaths, Paths, RawFiles
    <3> QED
      BY <3>1 DEF HarnessInv, DiskOK, Readable, Absent, Truncated, Content
  <2> QED
    BY <2>3, <2>4, MetricsAgree, GapStatsAgree, GateAgrees
<1> QED
  BY <1>1, HarnessInvariant, PTL

(***************************************************************************)
(* The replay of the guards.                                               *)
(***************************************************************************)
\* What the run recorded of an item that can be replayed: nothing was cited, or the verdict
\* stood, or the verbatim guard withdrew it, or the gap guard did.
Uncited(p) == /\ p.predClause = <<>> /\ p.reason = "no_clause_found"
              /\ p.raw = "insufficient" /\ p.pred = "insufficient"

Stood(p) == /\ p.predClause # <<>> /\ p.pred = p.raw
            /\ p.reason = ReviewLadder(TRUE, "none", p.agrees, p.confidence < ReviewThreshold)
            /\ p.raw = "gap" => p.gapCheck = "pass"

NotVerbatim(p) == /\ p.predClause # <<>> /\ p.raw # "insufficient" /\ p.pred = "insufficient"
                  /\ VerbatimFails(p)

GapWithdrawn(p) == /\ p.predClause # <<>> /\ p.raw = "gap" /\ p.pred = "insufficient"
                   /\ p.gapCheck \in GapOutcome \ {"pass"} /\ p.reason = p.gapCheck

\* Such an item met one of four fates.
LEMMA Fates ==
    ASSUME NEW p, IsItem(p), Replayable(p)
    PROVE  /\ p.review = (p.reason # "none") /\ p.correct = (p.pred = p.gold)
           /\ Uncited(p) \/ Stood(p) \/ NotVerbatim(p) \/ GapWithdrawn(p)
<1>0. PICK cfg \in Config : \E x \in Answers(cfg) : Answered(p, cfg, x)
  BY DEF IsItem, Told, Replayable
<1>1. PICK x \in Answers(cfg) : Answered(p, cfg, x)
  BY <1>0
<1> DEFINE j == x.judgement
<1>2. /\ p.predClause = x.clause /\ p.agrees = x.agrees /\ p.confidence = x.confidence
      /\ p.raw = NormalizeVerdict(j.raw) /\ p.pred = NormalizeVerdict(j.verdict)
      /\ p.gapCheck = j.gapCheck
      /\ p.reason = ReviewLadder(x.clause # <<>>, j.blocked, x.agrees,
                                 x.confidence < ReviewThreshold)
      /\ p.review = (p.reason # "none") /\ p.correct = (p.pred = p.gold)
  BY <1>1 DEF Answered
<1>3. (x.clause = <<>> /\ j = NoClauseJudgement) \/ (x.clause # <<>> /\ j \in Judgements(cfg))
  BY HarnessAssumption DEF Answers
<1>5. CASE x.clause = <<>> /\ j = NoClauseJudgement
  BY <1>2, <1>5 DEF NoClauseJudgement, Judgement, NormalizeVerdict, ReviewLadder, Uncited
<1>6. CASE x.clause # <<>> /\ j \in Judgements(cfg)
  <2>1. CASE \E v \in AssessorVerdict \ {"gap"} : j = Judgement(v, v, "none", "none")
    BY <1>2, <1>6, <2>1 DEF Judgement, NormalizeVerdict, ReviewLadder, Stood
  <2>2. CASE \E v \in AssessorVerdict \ {"insufficient_evidence"},
                reason \in {"citation_not_verbatim", "citation_too_short"} :
                   j = Withdrawn(v, reason, "none")
    <3>1. PICK v \in AssessorVerdict \ {"insufficient_evidence"},
               reason \in {"citation_not_verbatim", "citation_too_short"} :
                  j = Withdrawn(v, reason, "none")
      BY <2>2
    <3>2. j.raw = v /\ j.verdict = "insufficient_evidence" /\ j.blocked = reason
      BY <3>1 DEF Withdrawn, Judgement
    <3>3. p.pred = "insufficient" /\ p.reason = reason
      BY <1>2, <1>6, <3>2 DEF NormalizeVerdict, ReviewLadder
    <3>4. VerbatimFails(p) /\ p.raw # "insufficient"
      BY <3>3 DEF VerbatimFails, Replayable
    <3> QED
      BY <1>2, <1>6, <3>3, <3>4 DEF NotVerbatim
  <2>3. CASE j \in GapJudgements(cfg)
    <3>1. VerbatimFails(p) \/ (p.gapCheck # "none" /\ p.gapCheck # "skipped_same_family")
      <4>1. j.raw = "gap"
        BY <2>3 DEF GapJudgements, Withdrawn, Judgement
      <4>2. p.raw = "gap"
        BY <1>2, <4>1 DEF NormalizeVerdict
      <4> QED
        BY <1>2, <1>6, <4>2 DEF Replayable, ReplayThrows, GapRule, Guarded, Verbatim, Both
    <3>2. ~VerbatimFails(p)
      <4>1. j.blocked \notin {"citation_not_verbatim", "citation_too_short"}
        BY <2>3 DEF GapJudgements, Withdrawn, Judgement, GapOutcome
      <4> QED
        BY <1>2, <1>6, <4>1 DEF VerbatimFails, ReviewLadder
    <3>3. j.gapCheck # "none" /\ j.gapCheck # "skipped_same_family"
      BY <1>2, <3>1, <3>2
    <3>4. j = Judgement("gap", "gap", "none", "pass")
          \/ \E o \in GapOutcome \ {"pass"} : j = Withdrawn("gap", o, o)
      BY <2>3, <3>3 DEF GapJudgements, Withdrawn, Judgement
    <3>5. CASE j = Judgement("gap", "gap", "none", "pass")
      BY <1>2, <1>6, <3>5 DEF Judgement, NormalizeVerdict, ReviewLadder, Stood
    <3>6. CASE \E o \in GapOutcome \ {"pass"} : j = Withdrawn("gap", o, o)
      BY <1>2, <1>6, <3>6 DEF Withdrawn, Judgement, NormalizeVerdict, ReviewLadder, GapWithdrawn,
         GapOutcome
    <3> QED
      BY <3>4, <3>5, <3>6
  <2> QED
    BY <1>6, <2>1, <2>2, <2>3 DEF Judgements
<1> QED
  BY <1>2, <1>3, <1>5, <1>6

\* The parts of a replay, by name.
GivenVerdict(p, cfg) == IF ReplayBlock(p, cfg) = "none" THEN p.raw ELSE "insufficient"
Observed(p, cfg) == GivenVerdict(p, cfg) = p.pred
                    /\ (ReplayBlock(p, cfg) # "none") = (p.reason \in BlockedReason)
KeyOf(p, cfg, k) == Key(k, p.id, GivenVerdict(p, cfg), ReplayBlock(p, cfg) = "none")

\* A replay that gives the recorded verdict takes the verifier's answer from the run.
LEMMA ReplayObserved ==
    ASSUME NEW p, NEW cfg, NEW k, NEW calls, Observed(p, cfg)
    PROVE  LET r == Replay(p, cfg, k, calls)
           IN  /\ r.id = p.id /\ r.verdict = p.pred /\ r.correct = (p.pred = p.gold)
               /\ r.committed = (r.reason = "none")
               /\ r.reason = ReviewLadder(p.predClause # <<>>, ReplayBlock(p, cfg), p.agrees,
                                          p.confidence < ReviewThreshold)
  BY DEF Replay, Observed, GivenVerdict

\* Configuration (d) gives a replayable item back as it was, whatever the collector recorded.
LEMMA GivenBack ==
    ASSUME NEW p, IsItem(p), Replayable(p), NEW k, NEW calls
    PROVE  LET r == Replay(p, Both, k, calls)
           IN  /\ r.id = p.id /\ r.verdict = p.pred /\ r.reason = p.reason
               /\ r.committed = ~p.review /\ r.correct = p.correct
<1>1. /\ p.review = (p.reason # "none") /\ p.correct = (p.pred = p.gold)
      /\ Uncited(p) \/ Stood(p) \/ NotVerbatim(p) \/ GapWithdrawn(p)
  BY Fates
<1>2. /\ Observed(p, Both)
      /\ p.reason = ReviewLadder(p.predClause # <<>>, ReplayBlock(p, Both), p.agrees,
                                 p.confidence < ReviewThreshold)
  <2> USE DEF Observed, GivenVerdict, ReplayBlock, Verbatim, GapRule, Guarded, Both, VerbatimFails,
              ReviewLadder, BlockedReason, GapOutcome
  <2>1. CASE Uncited(p)
    BY <2>1 DEF Uncited
  <2>2. CASE Stood(p)
    BY <2>2 DEF Stood
  <2>3. CASE NotVerbatim(p)
    BY <2>3 DEF NotVerbatim
  <2>4. CASE GapWithdrawn(p)
    BY <2>4 DEF GapWithdrawn
  <2> QED
    BY <1>1, <2>1, <2>2, <2>3, <2>4
<1> DEFINE r == Replay(p, Both, k, calls)
<1>3. /\ r.id = p.id /\ r.verdict = p.pred /\ r.correct = (p.pred = p.gold)
      /\ r.committed = (r.reason = "none")
      /\ r.reason = ReviewLadder(p.predClause # <<>>, ReplayBlock(p, Both), p.agrees,
                                 p.confidence < ReviewThreshold)
  BY <1>2, ReplayObserved
<1> HIDE DEF r
<1>4. r.reason = p.reason
  BY <1>2, <1>3
<1>5. r.committed = ~p.review /\ r.correct = p.correct
  BY <1>1, <1>3, <1>4
<1> QED
  BY <1>3, <1>4, <1>5 DEF r

\* What the run committed, every configuration that can be replayed commits.
LEMMA FewerGuardsCommit ==
    ASSUME NEW p, IsItem(p), Replayable(p), ~p.review,
           NEW cfg, ~ReplayThrows(p, cfg), NEW k, NEW calls
    PROVE  LET r == Replay(p, cfg, k, calls) IN r.committed /\ r.verdict = p.pred
<1>1. p.reason = "none" /\ Stood(p)
  <2>1. p.reason = "none" /\ (Uncited(p) \/ Stood(p) \/ NotVerbatim(p) \/ GapWithdrawn(p))
    BY Fates
  <2> QED
    BY <2>1 DEF Uncited, NotVerbatim, VerbatimFails, GapWithdrawn, GapOutcome
<1>2. ReplayBlock(p, cfg) = "none"
  BY <1>1 DEF ReplayBlock, Verbatim, GapRule, VerbatimFails, Stood
<1>3. Observed(p, cfg)
  BY <1>1, <1>2 DEF Observed, GivenVerdict, Stood, BlockedReason, GapOutcome
<1>4. p.predClause # <<>>
      /\ ReviewLadder(TRUE, "none", p.agrees, p.confidence < ReviewThreshold) = "none"
  BY <1>1 DEF Stood
<1> DEFINE r == Replay(p, cfg, k, calls)
<1>5. /\ r.verdict = p.pred /\ r.committed = (r.reason = "none")
      /\ r.reason = ReviewLadder(p.predClause # <<>>, ReplayBlock(p, cfg), p.agrees,
                                 p.confidence < ReviewThreshold)
  BY <1>3, ReplayObserved
<1> HIDE DEF r
<1>6. r.reason = "none"
  BY <1>2, <1>4, <1>5 DEF ReviewLadder
<1> QED
  BY <1>5, <1>6 DEF r

\* The one item of an id.
LEMMA ItemIs == ASSUME NEW items, OnePerId(items), NEW i \in items PROVE ItemOf(items, i.id) = i
<1>1. \E j \in items : j.id = i.id
  OBVIOUS
<1>2. ItemOf(items, i.id) \in items /\ ItemOf(items, i.id).id = i.id
  BY <1>1, Zenon DEF ItemOf
<1> QED
  BY <1>2 DEF OnePerId

GoldOf(items) == [x \in {i.id : i \in items} |-> ItemOf(items, x).gold]

CommittedReplays(rs) == {r \in rs : r.committed}
GapReplays(rs)       == {r \in CommittedReplays(rs) : r.verdict = "gap"}

\* What the table of the ablation counts.
LEMMA SummarizeIs ==
    ASSUME NEW items, NEW rs
    PROVE  LET d == Summarize(items, rs)
               com == CommittedReplays(rs)
           IN  /\ d.correct = Cardinality(Right(rs)) /\ d.committed = Cardinality(com)
               /\ d.committedCorrect = Cardinality(Right(com)) /\ d.silent = IdsOf(Wrong(com))
               /\ d.falseGaps = IdsOf({r \in GapReplays(rs) : GoldOf(items)[r.id] # "gap"})
  BY Zenon DEF Summarize, CommittedReplays, GapReplays, Right, Wrong, IdsOf, GoldOf

\* The row of the ablation counts what the comparison and the gap report count.
RowAgrees(own, rs) ==
    LET d == Summarize(own, rs)
        m == Metrics(own)
    IN  /\ <<d.correct, d.committed, d.committedCorrect, d.silent>>
             = <<m.correct, m.committed, m.committedCorrect, m.silent>>
        /\ d.falseGaps = GapStats(own).falseGapIds

\* It does when every replay gives its item back.
LEMMA RowOf ==
    ASSUME NEW own, IsItems(own), \A p \in own : ~Bad(p),
           NEW f, \A p \in own : /\ f[p].id = p.id /\ f[p].verdict = p.pred
                                 /\ f[p].committed = ~p.review /\ f[p].correct = p.correct,
           f = [p \in own |-> f[p]]
    PROVE  RowAgrees(own, {f[p] : p \in own})
<1> DEFINE rs == {f[p] : p \in own}
<1>1. Scored(own) = own /\ IsFiniteSet(own) /\ OnePerId(own) /\ \A p \in own : IsItem(p)
  BY DEF Scored, IsItems
<1>2. f \in [own -> rs] /\ (\A r \in rs : \E p \in own : f[p] = r)
      /\ \A p \in own : /\ f[p] \in rs /\ f[p].id = p.id /\ f[p].verdict = p.pred
                        /\ f[p].committed = ~p.review /\ f[p].correct = p.correct
  OBVIOUS
<1> HIDE DEF rs
<1>3. f \in Bijection(own, rs)
  <2>1. \A p, q \in own : f[p] = f[q] => p = q
    BY <1>1, <1>2 DEF OnePerId
  <2> QED
    BY <1>2, <2>1 DEF Bijection, Injection, Surjection, IsInjective
<1>4. \A A \in SUBSET own, B \in SUBSET rs : (\A p \in own : p \in A <=> f[p] \in B) =>
        Cardinality(A) = Cardinality(B) 
  BY <1>1, <1>3, SameSize
<1>5. \A p \in own : p.review \in BOOLEAN /\ p.correct \in BOOLEAN
  BY <1>1 DEF IsItem
<1> DEFINE com == Committed(own)
           back == CommittedReplays(rs)
<1>14. \A p \in own : p \in com <=> f[p] \in back
  <2> SUFFICES ASSUME NEW p \in own PROVE p \in com <=> f[p] \in back
    OBVIOUS
  <2>1. f[p] \in rs /\ f[p].committed = ~p.review
    BY <1>2
  <2> QED
    BY <2>1, Zenon DEF Committed, CommittedReplays
<1>15. com \in SUBSET own /\ back \in SUBSET rs
  BY DEF Committed, CommittedReplays
<1>6. Cardinality(Right(rs)) = Cardinality(Right(own))
  BY <1>2, <1>4 DEF Right
<1>7. Cardinality(back) = Cardinality(com)
  BY <1>4, <1>14, <1>15
<1>8. Cardinality(Right(back)) = Cardinality(com) - Cardinality(Wrong(com))
  <2>1. Cardinality(Right(back)) = Cardinality(Right(com))
    <3> HIDE DEF com, back
    <3>1. \A p \in own : p \in Right(com) <=> f[p] \in Right(back)
      BY <1>2, <1>14 DEF Right
    <3>2. Right(com) \in SUBSET own /\ Right(back) \in SUBSET rs
      BY <1>15 DEF Right
    <3> QED
      BY <1>4, <3>1, <3>2
  <2>2. Wrong(com) \in SUBSET com /\ Right(com) = com \ Wrong(com) /\ com \in SUBSET own
    BY DEF Wrong, Right, Committed
  <2>3. IsFiniteSet(com)
    BY <1>1, <2>2, FS_Subset
  <2> HIDE DEF com
  <2>4. Cardinality(com) = Cardinality(Wrong(com)) + Cardinality(Right(com))
        /\ Cardinality(Wrong(com)) \in Nat /\ Cardinality(Right(com)) \in Nat
    <3>1. /\ Cardinality(com) = Cardinality(Wrong(com)) + Cardinality(com \ Wrong(com))
          /\ Cardinality(Wrong(com)) \in Nat /\ Cardinality(com \ Wrong(com)) \in Nat
      BY <2>2, <2>3, Divided
    <3> QED
      BY <2>2, <3>1
  <2> QED
    BY <2>1, <2>4
<1>9. IdsOf(Wrong(back)) = IdsOf(Wrong(com))
  <2> HIDE DEF com, back
  <2>1. \A p \in own : p \in Wrong(com) <=> f[p] \in Wrong(back)
    BY <1>2, <1>14 DEF Wrong
  <2>2. Wrong(com) \subseteq own /\ Wrong(back) \subseteq rs
    BY <1>15 DEF Wrong
  <2> QED
    BY <1>2, <2>1, <2>2 DEF IdsOf
<1> DEFINE gaps == {r \in GapReplays(rs) : GoldOf(own)[r.id] # "gap"}
<1>10. IdsOf(gaps) = IdsOf(FalseGaps(own))
  <2>1. \A p \in own : GoldOf(own)[p.id] = p.gold
    BY <1>1, ItemIs DEF GoldOf
  <2>2. \A p \in own : p \in FalseGaps(own) <=> f[p] \in gaps
    <3>1. FalseGaps(own) = {p \in com : p.pred = "gap" /\ p.gold # "gap"}
      BY <1>1 DEF FalseGaps, TrueGaps, GoldGaps, GapsOf
    <3>2. gaps = {r \in back : r.verdict = "gap" /\ GoldOf(own)[r.id] # "gap"}
      BY DEF GapReplays
    <3> HIDE DEF com, back, gaps
    <3> QED
      BY <1>2, <1>14, <1>15, <2>1, <3>1, <3>2
  <2>3. FalseGaps(own) \subseteq own /\ gaps \subseteq rs
    BY <1>1 DEF FalseGaps, GapsOf, Committed, GapReplays, CommittedReplays
  <2> HIDE DEF gaps
  <2> QED
    BY <1>2, <2>2, <2>3 DEF IdsOf
<1> DEFINE d == Summarize(own, rs)
           m == Metrics(own)
<1>11. /\ d.correct = Cardinality(Right(rs)) /\ d.committed = Cardinality(back)
       /\ d.committedCorrect = Cardinality(Right(back)) /\ d.silent = IdsOf(Wrong(back))
       /\ d.falseGaps = IdsOf(gaps)
  BY SummarizeIs
<1>12. /\ m.correct = Cardinality(Right(own)) /\ m.committed = Cardinality(com)
       /\ m.committedCorrect = Cardinality(com) - Cardinality(Wrong(com))
       /\ m.silent = IdsOf(Wrong(com))
  <2> DEFINE s == Scored(own)
  <2>1. /\ m.correct = Cardinality(Right(s)) /\ m.committed = Cardinality(Committed(s))
        /\ m.committedCorrect = Cardinality(Committed(s)) - Cardinality(Wrong(Committed(s)))
        /\ m.silent = IdsOf(Wrong(Committed(s)))
    BY MetricsIs
  <2> HIDE DEF m, s
  <2>2. s = own
    BY <1>1 DEF s
  <2> QED
    BY <2>1, <2>2
<1>13. GapStats(own).falseGapIds = IdsOf(FalseGaps(own))
  BY GapStatsIs
<1> HIDE DEF d, m, com, back, gaps
<1> QED
  BY <1>6, <1>7, <1>8, <1>9, <1>10, <1>11, <1>12, <1>13 DEF RowAgrees, d, m, rs

\* What a replay looks up is among the calls the collector asks for.
LEMMA Asked ==
    ASSUME NEW pub, NEW k \in DOMAIN pub, NEW cfg \in Configurations, NEW p \in pub[k],
           ~Observed(p, cfg)
    PROVE  KeyOf(p, cfg, k) \in Needs(pub)
<1>1. Replay(p, cfg, k, <<>>).needs = {KeyOf(p, cfg, k)}
  BY DEF Replay, Observed, GivenVerdict, KeyOf
<1> DEFINE of(n, c) == UNION {Replay(q, c, n, <<>>).needs : q \in pub[n]}
<1>2. KeyOf(p, cfg, k) \in of(k, cfg)
  BY <1>1
<1>3. Needs(pub) = UNION {of(n, c) : n \in DOMAIN pub, c \in Configurations}
  BY DEF Needs
<1> HIDE DEF of
<1> QED
  BY <1>2, <1>3

\* With every call it asked for recorded, no replay lacks an answer.
LEMMA NoneMissing ==
    ASSUME NEW p, IsItem(p), NEW cfg, NEW k, NEW calls,
           Observed(p, cfg) \/ KeyOf(p, cfg, k) \in DOMAIN calls
    PROVE  Replay(p, cfg, k, calls).reason # "MISSING_VERIFIER_CALL"
<1>1. p.gapCheck # "MISSING_VERIFIER_CALL"
  <2>1. CASE Bad(p)
    BY <2>1 DEF IsItem, Told
  <2>2. CASE ~Bad(p)
    <3>1. PICK c \in Config : \E x \in Answers(c) : Answered(p, c, x)
      BY <2>2 DEF IsItem, Told
    <3>2. PICK x \in Answers(c) : Answered(p, c, x)
      BY <3>1
    <3>3. x.judgement = NoClauseJudgement \/ x.judgement \in Judgements(c)
      BY DEF Answers
    <3>4. x.judgement.gapCheck # "MISSING_VERIFIER_CALL"
      BY <3>3 DEF NoClauseJudgement, Judgements, GapJudgements, Withdrawn, Judgement, GapOutcome
    <3> QED
      BY <3>2, <3>4 DEF Answered
  <2> QED
    BY <2>1, <2>2
<1>2. ReplayBlock(p, cfg) # "MISSING_VERIFIER_CALL"
  BY <1>1 DEF ReplayBlock, Verbatim, VerbatimFails
<1>3. \A cited, agrees, low :
        ReviewLadder(cited, ReplayBlock(p, cfg), agrees, low) # "MISSING_VERIFIER_CALL"
  BY <1>2 DEF ReviewLadder
<1> QED
  BY <1>3 DEF Replay, Observed, GivenVerdict, KeyOf

\* The ablation's baseline is the recorded run, and once the collector has run on the
\* present files no replay lacks an answer (ReplayReproducesTheRun).
THEOREM ReplayExact == Spec => []ReplayReproducesTheRun
<1>1. HarnessInv => ReplayReproducesTheRun
  <2> SUFFICES ASSUME HarnessInv, proc = Idle, disk[Calls] # Truncated
               PROVE  ReplayReproducesTheRun
    BY DEF ReplayReproducesTheRun
  <2>1. \A k \in PublicFiles : IsItems(disk[<<"public", k>>].items)
    <3> SUFFICES ASSUME NEW k \in PublicFiles PROVE IsItems(disk[<<"public", k>>].items)
      OBVIOUS
    <3>1. <<"public", k>> \in ResultPaths /\ <<"public", k>> \in Paths /\ Readable(<<"public", k>>)
      BY DEF ResultPaths, Paths, PublicFiles
    <3> QED
      BY <3>1 DEF HarnessInv, DiskOK, Readable, Absent, Truncated, Content
  <2> DEFINE own(k) == {p \in disk[<<"public", k>>].items : Replayable(p)}
  <2>2. \A k \in PublicFiles : /\ own(k) \subseteq disk[<<"public", k>>].items
                               /\ \A p \in own(k) : Replayable(p) /\ ~Bad(p) /\ IsItem(p)
    BY <2>1 DEF Replayable, IsItems
  <2>3. ASSUME NEW k \in PublicFiles, NEW p \in own(k)
        PROVE  LET r == Replay(p, Both, k, Recorded)
               IN  /\ r.id = p.id /\ r.verdict = p.pred /\ r.reason = p.reason
                   /\ r.committed = ~p.review /\ r.correct = p.correct
    BY <2>2, GivenBack
  <2>4. ASSUME NEW k \in PublicFiles PROVE RowAgrees(own(k), {Replay(p, Both, k, Recorded) : p \in own(k)})
    <3> DEFINE f == [p \in own(k) |-> Replay(p, Both, k, Recorded)]
    <3>1. IsItems(own(k))
      BY <2>1, <2>2, FS_Subset DEF IsItems, OnePerId
    <3>2. /\ f = [p \in own(k) |-> f[p]]
          /\ {Replay(p, Both, k, Recorded) : p \in own(k)} = {f[p] : p \in own(k)}
      OBVIOUS
    <3>3. \A p \in own(k) : /\ f[p].id = p.id /\ f[p].verdict = p.pred
                            /\ f[p].committed = ~p.review /\ f[p].correct = p.correct
      BY <2>3
    <3>4. \A p \in own(k) : ~Bad(p)
      BY <2>2
    <3> HIDE DEF f, own
    <3>5. RowAgrees(own(k), {f[p] : p \in own(k)})
      BY <3>1, <3>2, <3>3, <3>4, RowOf
    <3> QED
      BY <3>2, <3>5
  <2>5. ASSUME NEW k \in PublicFiles, NEW p \in own(k) PROVE Reproduces(p, k, Recorded)
    BY <2>3 DEF Reproduces
  <2>6. ASSUME NEW k \in PublicFiles, NEW p \in own(k), NEW cfg \in Configurations,
               ~p.review, ~ReplayThrows(p, cfg)
        PROVE  LET r == Replay(p, cfg, k, Recorded) IN r.committed /\ r.verdict = p.pred
    BY <2>2, <2>6, FewerGuardsCommit
  <2>7. ASSUME Readable(Calls), PublicFiles = Passes, disk[Calls].from = ReadAll("public"),
               NEW k \in Passes, NEW cfg \in Configurations, NEW p \in disk[<<"public", k>>].items
        PROVE  Replay(p, cfg, k, Recorded).reason # "MISSING_VERIFIER_CALL"
    <3>1. Calls \in Paths /\ Recorded = disk[Calls].calls
      BY <2>7 DEF Paths, Recorded
    <3>2. DOMAIN Recorded = Needs(ReadAll("public"))
      BY <2>7, <3>1 DEF HarnessInv, DiskOK, Readable, Absent, Truncated, Content
    <3>3. k \in DOMAIN ReadAll("public") /\ ReadAll("public")[k] = disk[<<"public", k>>].items
      BY DEF ReadAll
    <3>4. IsItem(p)
      BY <2>1, <2>7 DEF IsItems
    <3>5. Observed(p, cfg) \/ KeyOf(p, cfg, k) \in DOMAIN Recorded
      BY <3>2, <3>3, Asked
    <3> QED
      BY <3>4, <3>5, NoneMissing
  <2> QED
    BY <2>4, <2>5, <2>6, <2>7, Zenon DEF ReplayReproducesTheRun, RowAgrees
<1> QED
  BY <1>1, HarnessInvariant, PTL
=============================================================================
