-------------------------- MODULE TransferAllProofs --------------------------
(***************************************************************************)
(* Theorems about the transfer of all assets, for every set of wallets,    *)
(* UTXOs and cells and any number of steps of others: the groups part the  *)
(* listed UTXOs, a transaction moves what its summary says and returns the *)
(* rest, transactions of one call do not overlap, and a call fails only    *)
(* because of others.                                                      *)
(***************************************************************************)
EXTENDS TransferAll, FiniteSetTheorems

-----------------------------------------------------------------------------
(* Recursive functions and ascending lists.                                *)

\* f goes from a through D, by the steps F[1] .. F[n].
Iterates(f, F, a, n, D) ==
    /\ f \in [0..n -> D] /\ f[0] = a
    /\ \A k \in 1..n : f[k] = F[k][f[k - 1]]

\* Steps that stay in D can be iterated from any of its elements.
LEMMA IterationExists ==
    ASSUME NEW N \in Nat, NEW D, NEW a \in D, NEW F \in [1..N -> [D -> D]]
    PROVE  \E f : Iterates(f, F, a, N, D)
<1> DEFINE S == {n \in Nat : n <= N => \E f : Iterates(f, F, a, n, D)}
<1>1. 0 \in S
  <2> DEFINE g == [k \in 0..0 |-> a]
  <2>1. g \in [0..0 -> D] /\ g[0] = a /\ 1..0 = {}
    OBVIOUS
  <2> HIDE DEF g
  <2> QED BY <2>1 DEF Iterates
<1>2. ASSUME NEW n \in Nat, n \in S PROVE n + 1 \in S
  <2>1. SUFFICES ASSUME n + 1 <= N PROVE \E f : Iterates(f, F, a, n + 1, D)
    OBVIOUS
  <2>2. PICK f : Iterates(f, F, a, n, D)
    BY <1>2, <2>1
  <2> DEFINE new == F[n + 1][f[n]]
             g == [k \in 0..(n + 1) |-> IF k <= n THEN f[k] ELSE new]
  <2>3. new \in D
    <3>1. f[n] \in D /\ F[n + 1] \in [D -> D]
      BY <2>1, <2>2 DEF Iterates
    <3> QED BY <3>1
  <2>4. g \in [0..(n + 1) -> D] /\ g[0] = a /\ g[n + 1] = new /\ \A k \in 0..n : g[k] = f[k]
    <3> HIDE DEF new
    <3> QED BY <2>2, <2>3 DEF Iterates
  <2> HIDE DEF g
  <2>5. \A k \in 1..(n + 1) : g[k] = F[k][g[k - 1]]
    <3> TAKE k \in 1..(n + 1)
    <3>1. CASE k \in 1..n
      <4>1. k - 1 \in 0..n /\ k \in 0..n
        BY <3>1
      <4> QED BY <2>2, <2>4, <3>1, <4>1 DEF Iterates
    <3>2. CASE k = n + 1
      <4>1. k - 1 = n /\ n \in 0..n
        BY <3>2
      <4> QED BY <2>4, <3>2, <4>1
    <3> QED BY <3>1, <3>2
  <2> QED BY <2>4, <2>5 DEF Iterates
<1>3. N \in S
  <2> HIDE DEF S
  <2> QED BY <1>1, <1>2, NatSetInduction
<1> QED BY <1>3

\* The list of a set of the first numbers has each member once.
LEMMA ListedInOrder ==
    ASSUME NEW N \in Nat, NEW S \in SUBSET (1..N)
    PROVE  /\ InOrder(S) \in Seq(S) /\ Len(InOrder(S)) = Cardinality(S)
           /\ Cardinality(S) \in Nat
           /\ \A x \in S : \E i \in 1..Cardinality(S) : InOrder(S)[i] = x
<1>1. IsFiniteSet(1..N)
  BY FS_Interval
<1>2. IsFiniteSet(S) /\ Cardinality(S) \in Nat
  BY <1>1, FS_Subset, FS_CardinalityType
<1>3. S \in SUBSET Nat
  BY SMT
<1> QED BY <1>2, <1>3, InOrderPlaces, RankRange

-----------------------------------------------------------------------------
(* The load of a group.                                                    *)

\* What the grouping reads: each valid UTXO has no more cells than fit.
Readable ==
    /\ rgbppGroups \in Seq(Utxo) /\ cellsMap \in [Utxo -> SUBSET Cell]
    /\ \A i \in Index : Cardinality(cellsMap[rgbppGroups[i]]) <= MaxCells

CellCount(i) == Cardinality(cellsMap[rgbppGroups[i]])

LEMMA CellsFinite ==
    ASSUME NEW S \in SUBSET Cell
    PROVE  IsFiniteSet(S) /\ Cardinality(S) \in Nat
<1>1. IsFiniteSet(Cell)
  BY WorldAssumption, FS_Interval DEF Cell
<1> QED BY <1>1, FS_Subset, FS_CardinalityType

LEMMA IndexType ==
    ASSUME Readable
    PROVE  /\ Len(rgbppGroups) \in Nat /\ Index = 1..Len(rgbppGroups)
           /\ \A i \in Index : rgbppGroups[i] \in Utxo /\ CellCount(i) \in Nat
<1>1. /\ Len(rgbppGroups) \in Nat /\ Index = 1..Len(rgbppGroups)
      /\ \A i \in Index : rgbppGroups[i] \in Utxo
  BY DEF Readable, Index
<1>2. ASSUME NEW i \in Index PROVE CellCount(i) \in Nat
  <2>1. cellsMap[rgbppGroups[i]] \in SUBSET Cell
    BY <1>1 DEF Readable
  <2> QED BY <2>1, CellsFinite DEF CellCount
<1> QED BY <1>1, <1>2

LEMMA LoadIsSum ==
    ASSUME Readable, NEW group
    PROVE  LET f == [i \in 1..Len(rgbppGroups) |-> IF i \in group THEN CellCount(i) ELSE 0]
           IN  Load(group) = SumTo(f, Len(rgbppGroups))
BY IndexType DEF Load, CellCount

LEMMA LoadNat == ASSUME Readable, NEW group PROVE Load(group) \in Nat
<1> DEFINE N == Len(rgbppGroups)
           f == [i \in 1..N |-> IF i \in group THEN CellCount(i) ELSE 0]
<1>1. N \in Nat /\ \A i \in 1..N : f[i] \in Nat
  BY IndexType
<1>2. Load(group) = SumTo(f, N)
  BY LoadIsSum
<1> HIDE DEF f, N
<1> QED BY <1>1, <1>2, SumNat

LEMMA LoadEmpty == ASSUME Readable PROVE Load({}) = 0
<1> DEFINE N == Len(rgbppGroups)
           f == [i \in 1..N |-> IF i \in {} THEN CellCount(i) ELSE 0]
<1>1. N \in Nat /\ \A i \in 1..N : f[i] = 0
  BY IndexType
<1>2. Load({}) = SumTo(f, N)
  BY LoadIsSum
<1> HIDE DEF f, N
<1>3. SumTo(f, N) = N * 0
  BY <1>1, SumConstant, 0 \in Int
<1> QED BY <1>1, <1>2, <1>3

LEMMA LoadOne == ASSUME Readable, NEW i \in Index PROVE Load({i}) = CellCount(i)
<1> DEFINE N == Len(rgbppGroups)
           f == [j \in 1..N |-> IF j \in {i} THEN CellCount(j) ELSE 0]
<1>1. N \in Nat /\ i \in 1..N /\ CellCount(i) \in Nat
  BY IndexType
<1>2. f[i] = CellCount(i) /\ \A j \in 1..N : j # i => f[j] = 0
  BY <1>1
<1>3. Load({i}) = SumTo(f, N)
  BY LoadIsSum
<1> HIDE DEF f, N
<1>4. f[i] \in Int
  BY <1>1, <1>2
<1>5. SumTo(f, N) = f[i]
  BY <1>1, <1>2, <1>4, SumSingle
<1> QED BY <1>2, <1>3, <1>5
-----------------------------------------------------------------------------
(* groupNumbersBySum.                                                      *)

\* Backtrack visits the numbers in their order.
LEMMA BacktrackIterates ==
    ASSUME Readable, NEW unused \in SUBSET Index
    PROVE  \E taken \in [0..Len(rgbppGroups) -> SUBSET Index] :
               /\ taken[0] = {}
               /\ \A k \in 1..Len(rgbppGroups) : taken[k] = Take(unused, taken[k - 1], k)
               /\ Backtrack(unused) = taken[Len(rgbppGroups)]
<1> DEFINE N == Len(rgbppGroups)
           D == SUBSET Index
           F == [k \in 1..N |-> [group \in D |-> Take(unused, group, k)]]
<1>1. N \in Nat /\ Index = 1..N /\ {} \in D
  BY IndexType
<1>2. ASSUME NEW group \in D, NEW k \in 1..N PROVE Take(unused, group, k) \in D
  BY <1>1 DEF Take
<1>3. /\ F \in [1..N -> [D -> D]]
      /\ \A k \in 1..N : \A group \in D : F[k][group] = Take(unused, group, k)
  <2> HIDE DEF D, N
  <2> QED BY <1>2
<1> HIDE DEF F, D, N
<1>4. PICK f : Iterates(f, F, {}, N, D)
  BY <1>1, <1>3, IterationExists
<1>5. f \in [0..N -> D] /\ f[0] = {}
  BY <1>4 DEF Iterates
<1>6. \A k \in 1..N : f[k] = Take(unused, f[k - 1], k)
  <2> TAKE k \in 1..N
  <2>1. k - 1 \in 0..N
    BY <1>1
  <2>2. f[k - 1] \in D /\ f[k] = F[k][f[k - 1]]
    BY <1>4, <1>5, <2>1 DEF Iterates
  <2> QED BY <1>3, <2>2
<1>7. f = [i \in 0..N |-> IF i = 0 THEN {} ELSE Take(unused, f[i - 1], i)]
  BY <1>1, <1>5, <1>6
<1> DEFINE g == CHOOSE g : g = [i \in 0..N |-> IF i = 0 THEN {} ELSE Take(unused, g[i - 1], i)]
<1>8. g = [i \in 0..N |-> IF i = 0 THEN {} ELSE Take(unused, g[i - 1], i)]
  BY <1>7
<1>9. Backtrack(unused) = g[N]
  BY DEF Backtrack, N
<1> HIDE DEF g
<1> DEFINE S == {k \in Nat : k <= N => g[k] = f[k]}
<1>10. 0 \in S
  BY <1>1, <1>5, <1>8
<1>11. ASSUME NEW k \in Nat, k \in S PROVE k + 1 \in S
  <2>1. SUFFICES ASSUME k + 1 <= N PROVE g[k + 1] = f[k + 1]
    OBVIOUS
  <2>2. k + 1 \in 0..N /\ k + 1 \in 1..N /\ k + 1 # 0 /\ (k + 1) - 1 = k
    BY <1>1, <2>1
  <2>3. g[k] = f[k]
    BY <1>1, <1>11, <2>1
  <2>4. g[k + 1] = Take(unused, g[k], k + 1)
    BY <1>8, <2>2
  <2> QED BY <1>6, <2>2, <2>3, <2>4
<1>12. N \in S
  <2> HIDE DEF S
  <2> QED BY <1>1, <1>10, <1>11, NatSetInduction
<1>13. Backtrack(unused) = f[N]
  BY <1>1, <1>9, <1>12
<1> QED BY <1>5, <1>6, <1>13 DEF D, N

LEMMA BacktrackType ==
    ASSUME Readable, NEW unused \in SUBSET Index
    PROVE  Backtrack(unused) \in SUBSET Index
BY BacktrackIterates, IndexType

\* A group is made of unused numbers, the least of them among them, and is no larger
\* than fits.
LEMMA BacktrackFits ==
    ASSUME Readable, NEW unused \in SUBSET Index,
           NEW least \in unused, \A i \in unused : least <= i
    PROVE  /\ Backtrack(unused) \subseteq unused /\ least \in Backtrack(unused)
           /\ Load(Backtrack(unused)) <= MaxCells
<1> DEFINE N == Len(rgbppGroups)
<1>1. N \in Nat /\ Index = 1..N
  BY IndexType
<1>2. PICK taken \in [0..N -> SUBSET Index] :
          /\ taken[0] = {} /\ \A k \in 1..N : taken[k] = Take(unused, taken[k - 1], k)
          /\ Backtrack(unused) = taken[N]
  BY BacktrackIterates
<1> DEFINE S == {k \in Nat : k <= N =>
                   /\ taken[k] \subseteq unused /\ Load(taken[k]) <= MaxCells
                   /\ k < least => taken[k] = {}
                   /\ k >= least => least \in taken[k]}
<1>3. least \in 1..N /\ MaxCells \in Nat \ {0}
  BY <1>1, LimitAssumption
<1> HIDE DEF N
<1>4. 0 \in S
  <2>1. Load({}) = 0
    BY LoadEmpty
  <2>2. /\ taken[0] \subseteq unused /\ Load(taken[0]) <= MaxCells
        /\ taken[0] = {} /\ 0 < least
    BY <1>2, <1>3, <2>1
  <2>3. ~ (0 >= least)
    BY <1>3
  <2> QED BY <2>2, <2>3
<1>5. ASSUME NEW k \in Nat, k \in S PROVE k + 1 \in S
  <2> DEFINE i == k + 1
             group == taken[k]
  <2>1. SUFFICES ASSUME i <= N
                 PROVE  /\ taken[i] \subseteq unused /\ Load(taken[i]) <= MaxCells
                        /\ i < least => taken[i] = {}
                        /\ i >= least => least \in taken[i]
    OBVIOUS
  <2>2. i \in 1..N /\ i - 1 = k /\ taken[i] = Take(unused, group, i)
    BY <1>1, <1>2, <2>1
  <2>3. /\ group \subseteq unused /\ Load(group) <= MaxCells
        /\ k < least => group = {}
        /\ k >= least => least \in group
    BY <1>1, <1>5, <2>1
  <2> HIDE DEF group
  <2>4. CASE i \in unused /\ Fits(group, i)
    <3>1. taken[i] = group \cup {i} /\ Load(group \cup {i}) <= MaxCells
      BY <2>2, <2>4 DEF Take, Fits
    <3>2. least <= i /\ taken[i] \subseteq unused
      BY <2>3, <2>4, <3>1
    <3>3. i >= least => least \in taken[i]
      BY <1>1, <1>3, <2>3, <3>1
    <3> QED BY <1>1, <1>3, <3>1, <3>2, <3>3
  <2>5. CASE ~ (i \in unused /\ Fits(group, i))
    <3>1. taken[i] = group
      BY <2>2, <2>5 DEF Take
    <3>2. i # least
      <4>1. SUFFICES ASSUME i = least PROVE FALSE
        OBVIOUS
      <4>2. group = {} /\ i \in Index
        BY <1>1, <1>3, <2>2, <2>3, <4>1
      <4>3. Load({}) = 0 /\ Load({i}) <= MaxCells
        BY <4>2, LoadEmpty, LoadOne DEF Readable, CellCount
      <4>4. Fits(group, i)
        <5>1. group \cup {i} = {i}
          BY <4>2
        <5> QED BY <1>3, <4>2, <4>3, <5>1 DEF Fits
      <4> QED BY <2>5, <4>1, <4>4
    <3> QED BY <1>1, <1>3, <2>2, <2>3, <3>1, <3>2
  <2> QED BY <2>4, <2>5
<1>6. N \in S
  <2> HIDE DEF S
  <2> QED BY <1>1, <1>4, <1>5, NatSetInduction
<1> QED BY <1>1, <1>2, <1>3, <1>6

\* Groups that fit, share no number and are not empty.
Grouped(done) ==
    /\ done \in Seq(SUBSET Index)
    /\ \A k \in DOMAIN done : done[k] # {} /\ Load(done[k]) <= MaxCells
    /\ \A k, m \in DOMAIN done : k # m => done[k] \cap done[m] = {}
Covered(done, i) == \A j \in Index : j <= i => \E k \in DOMAIN done : j \in done[k]

LEMMA VisitType ==
    ASSUME Readable, NEW done \in Seq(SUBSET Index), NEW i
    PROVE  Visit(done, i) \in Seq(SUBSET Index)
<1> DEFINE unused == Index \ UNION {done[k] : k \in DOMAIN done}
<1>1. unused \in SUBSET Index
  OBVIOUS
<1> HIDE DEF unused
<1>2. Backtrack(unused) \in SUBSET Index
  BY <1>1, BacktrackType
<1>3. Visit(done, i) = IF i \in unused THEN Append(done, Backtrack(unused)) ELSE done
  BY DEF Visit, unused
<1> DEFINE T == SUBSET Index
           new == Backtrack(unused)
<1> HIDE DEF T, new
<1>4. Append(done, new) \in Seq(T)
  BY <1>2 DEF T, new
<1> QED BY <1>3, <1>4 DEF T, new

\* Visiting i when the numbers below it are covered covers it as well.
LEMMA VisitGroups ==
    ASSUME Readable, NEW done, Grouped(done), NEW i \in Index, Covered(done, i - 1)
    PROVE  Grouped(Visit(done, i)) /\ Covered(Visit(done, i), i)
<1> DEFINE unused == Index \ UNION {done[k] : k \in DOMAIN done}
<1>1. unused \in SUBSET Index /\ \A j \in unused, k \in DOMAIN done : j \notin done[k]
  OBVIOUS
<1>2. \A j \in Index : j \notin unused => \E k \in DOMAIN done : j \in done[k]
  OBVIOUS
<1>3. Visit(done, i) = IF i \in unused THEN Append(done, Backtrack(unused)) ELSE done
  BY DEF Visit
<1> HIDE DEF unused
<1>4. \A j \in Index : j \in Int
  BY IndexType
<1>5. \A j \in unused : i <= j
  <2> TAKE j \in unused
  <2>1. j \in Index /\ ~ (j <= i - 1)
    BY <1>1 DEF Covered
  <2> QED BY <1>4, <2>1
<1>6. CASE i \notin unused
  <2>1. \A j \in Index : j <= i => j <= i - 1 \/ j = i
    BY <1>4
  <2>2. Covered(done, i)
    BY <1>2, <1>6, <2>1 DEF Covered
  <2> QED BY <1>3, <1>6, <2>2
<1>7. CASE i \in unused
  <2> DEFINE new == Backtrack(unused)
             n == Len(done)
             d == Append(done, new)
  <2>1. new \subseteq unused /\ i \in new /\ Load(new) <= MaxCells
    BY <1>1, <1>5, <1>7, BacktrackFits
  <2> HIDE DEF new
  <2>2. done \in Seq(SUBSET Index) /\ n \in Nat /\ DOMAIN done = 1..n
    BY DEF Grouped
  <2>3. new \in SUBSET Index
    BY <1>1, <2>1
  <2>4. /\ d \in Seq(SUBSET Index) /\ DOMAIN d = 1..(n + 1)
        /\ d[n + 1] = new /\ \A k \in 1..n : d[k] = done[k]
    <3> DEFINE T == SUBSET Index
    <3>1. done \in Seq(T) /\ new \in T
      BY <2>2, <2>3
    <3> HIDE DEF T
    <3> QED BY <3>1 DEF T
  <2> HIDE DEF d, n
  <2>5. \A k \in DOMAIN d : k \in DOMAIN done \/ k = n + 1
    BY <2>2, <2>4
  <2>6. \A k \in DOMAIN done : k \in DOMAIN d /\ d[k] = done[k] /\ new \cap done[k] = {}
    BY <1>1, <2>1, <2>2, <2>4
  <2>7. n + 1 \in DOMAIN d
    BY <2>2, <2>4
  <2>8. Grouped(d)
    <3>1. \A k \in DOMAIN d : d[k] # {} /\ Load(d[k]) <= MaxCells
      BY <2>1, <2>4, <2>5, <2>6 DEF Grouped
    <3>2. \A k, m \in DOMAIN d : k # m => d[k] \cap d[m] = {}
      BY <2>4, <2>5, <2>6 DEF Grouped
    <3> QED BY <2>4, <3>1, <3>2 DEF Grouped
  <2>9. Covered(d, i)
    <3> SUFFICES ASSUME NEW j \in Index, j <= i PROVE \E k \in DOMAIN d : j \in d[k]
      BY DEF Covered
    <3>1. CASE j <= i - 1
      BY <2>6, <3>1 DEF Covered
    <3>2. CASE j = i
      BY <2>1, <2>4, <2>7, <3>2
    <3> QED BY <1>4, <3>1, <3>2
  <2>10. Visit(done, i) = d
    BY <1>3, <1>7 DEF d, new
  <2> QED BY <2>8, <2>9, <2>10
<1> QED BY <1>6, <1>7

\* The groups cover the numbers.
LEMMA GroupingIsPartition ==
    ASSUME Readable
    PROVE  Grouped(GroupNumbersBySum) /\ \A j \in Index : \E k \in DOMAIN GroupNumbersBySum :
                                              j \in GroupNumbersBySum[k]
<1> DEFINE N == Len(rgbppGroups)
           D == Seq(SUBSET Index)
           F == [k \in 1..N |-> [done \in D |-> Visit(done, k)]]
<1>1. N \in Nat /\ Index = 1..N /\ <<>> \in D
  BY IndexType
<1>2. ASSUME NEW done \in D, NEW k \in 1..N PROVE Visit(done, k) \in D
  BY VisitType
<1>3. /\ F \in [1..N -> [D -> D]]
      /\ \A k \in 1..N : \A done \in D : F[k][done] = Visit(done, k)
  <2> HIDE DEF D, N
  <2> QED BY <1>2
<1> HIDE DEF F, D, N
<1>4. PICK f : Iterates(f, F, <<>>, N, D)
  BY <1>1, <1>3, IterationExists
<1>5. f \in [0..N -> D] /\ f[0] = <<>>
  BY <1>4 DEF Iterates
<1>6. \A k \in 1..N : f[k] = Visit(f[k - 1], k)
  <2> TAKE k \in 1..N
  <2>1. k - 1 \in 0..N
    BY <1>1
  <2>2. f[k - 1] \in D /\ f[k] = F[k][f[k - 1]]
    BY <1>4, <1>5, <2>1 DEF Iterates
  <2> QED BY <1>3, <2>2
<1>7. f = [i \in 0..N |-> IF i = 0 THEN <<>> ELSE Visit(f[i - 1], i)]
  BY <1>1, <1>5, <1>6
<1> DEFINE g == CHOOSE g : g = [i \in 0..N |-> IF i = 0 THEN <<>> ELSE Visit(g[i - 1], i)]
<1>8. g = [i \in 0..N |-> IF i = 0 THEN <<>> ELSE Visit(g[i - 1], i)]
  BY <1>7
<1>9. GroupNumbersBySum = g[N]
  BY DEF GroupNumbersBySum, N
<1> HIDE DEF g
<1> DEFINE S == {k \in Nat : k <= N => Grouped(g[k]) /\ Covered(g[k], k)}
<1>10. 0 \in S
  <2>1. g[0] = <<>>
    BY <1>1, <1>8
  <2>2. Grouped(<<>>)
    BY DEF Grouped
  <2>3. Covered(<<>>, 0)
    BY <1>1 DEF Covered
  <2> QED BY <2>1, <2>2, <2>3
<1>11. ASSUME NEW k \in Nat, k \in S PROVE k + 1 \in S
  <2>1. SUFFICES ASSUME k + 1 <= N PROVE Grouped(g[k + 1]) /\ Covered(g[k + 1], k + 1)
    OBVIOUS
  <2>2. k + 1 \in 0..N /\ k + 1 \in 1..N /\ k + 1 # 0 /\ (k + 1) - 1 = k
    BY <1>1, <2>1
  <2>3. Grouped(g[k]) /\ Covered(g[k], k)
    BY <1>1, <1>11, <2>1
  <2>4. g[k + 1] = Visit(g[k], k + 1)
    BY <1>8, <2>2
  <2>5. k + 1 \in Index
    BY <1>1, <2>2
  <2> QED BY <2>2, <2>3, <2>4, <2>5, VisitGroups
<1>12. N \in S
  <2> HIDE DEF S
  <2> QED BY <1>1, <1>10, <1>11, NatSetInduction
<1>13. Grouped(g[N]) /\ Covered(g[N], N)
  BY <1>1, <1>12
<1>14. \A j \in Index : j <= N
  BY <1>1
<1> QED BY <1>9, <1>13, <1>14 DEF Covered
-----------------------------------------------------------------------------
(* Cells and amounts.                                                      *)

\* The cells of a group are no more than its load.
LEMMA SummarizedFits ==
    ASSUME Readable, NEW group \in SUBSET Index
    PROVE  Cardinality(Summarized(group)) <= Load(group)
<1> DEFINE N == Len(rgbppGroups)
           f == [i \in 1..N |-> IF i \in group THEN CellCount(i) ELSE 0]
           Part(n) == UNION {cellsMap[rgbppGroups[i]] : i \in {j \in group : j <= n}}
           S == {n \in Nat : n <= N => Cardinality(Part(n)) <= SumTo(f, n)}
<1>1. /\ N \in Nat /\ Index = 1..N /\ \A i \in Index : rgbppGroups[i] \in Utxo
      /\ \A i \in 1..N : f[i] \in Nat
  BY IndexType
<1>2. \A n : Part(n) \in SUBSET Cell
  <2>1. \A i \in group : cellsMap[rgbppGroups[i]] \in SUBSET Cell
    BY <1>1 DEF Readable
  <2> QED BY <2>1
<1>3. \A i \in 1..N : f[i] = IF i \in group THEN CellCount(i) ELSE 0
  OBVIOUS
<1> HIDE DEF f, N
<1>4. \A j \in group : j \in Int /\ 1 <= j /\ j <= N
  BY <1>1
<1>5. 0 \in S
  <2>1. {j \in group : j <= 0} = {}
    BY <1>4
  <2>2. Part(0) = {}
    BY <2>1
  <2>3. Cardinality(Part(0)) = 0
    <3> HIDE DEF Part
    <3> QED BY <2>2, FS_EmptySet
  <2>4. SumTo(f, 0) = 0
    BY SumNone
  <2> HIDE DEF Part
  <2> QED BY <2>3, <2>4
<1>6. ASSUME NEW n \in Nat, n \in S PROVE n + 1 \in S
  <2>1. SUFFICES ASSUME n + 1 <= N PROVE Cardinality(Part(n + 1)) <= SumTo(f, n + 1)
    OBVIOUS
  <2>2. n + 1 \in 1..N /\ n <= N
    BY <1>1, <2>1
  <2>3. SumTo(f, n) \in Int /\ SumTo(f, n + 1) = SumTo(f, n) + f[n + 1] /\ f[n + 1] \in Nat
    <3>1. \A k \in 1..(n + 1) : f[k] \in Int
      BY <1>1, <2>2
    <3> QED BY <1>1, <2>2, <3>1, SumOneMore
  <2>4. Cardinality(Part(n)) <= SumTo(f, n)
    BY <1>6, <2>2
  <2>5. /\ Cardinality(Part(n)) \in Nat /\ IsFiniteSet(Part(n))
        /\ Cardinality(Part(n + 1)) \in Nat
    BY <1>2, CellsFinite
  <2>6. CASE n + 1 \in group
    <3> DEFINE X == cellsMap[rgbppGroups[n + 1]]
    <3>1. X \in SUBSET Cell
      BY <1>1, <2>6 DEF Readable
    <3>2. \A j \in group : j <= n + 1 <=> j <= n \/ j = n + 1
      BY <1>4
    <3>3. {j \in group : j <= n + 1} = {j \in group : j <= n} \cup {n + 1}
      BY <2>6, <3>2
    <3>4. Part(n + 1) = Part(n) \cup X
      BY <3>3
    <3>5. f[n + 1] = Cardinality(X)
      BY <1>3, <2>2, <2>6 DEF CellCount
    <3> HIDE DEF X, Part
    <3>6. IsFiniteSet(X) /\ Cardinality(X) \in Nat
      BY <3>1, CellsFinite
    <3>7. Part(n) \cap X \in SUBSET Cell
      BY <3>1
    <3>8. Cardinality(Part(n) \cap X) \in Nat
      BY <3>7, CellsFinite
    <3>9. Cardinality(Part(n) \cup X)
            = Cardinality(Part(n)) + Cardinality(X) - Cardinality(Part(n) \cap X)
      BY <2>5, <3>6, FS_Union
    <3>10. Cardinality(Part(n) \cup X) <= Cardinality(Part(n)) + Cardinality(X)
      BY <2>5, <3>6, <3>8, <3>9
    <3>11. Cardinality(Part(n + 1)) <= Cardinality(Part(n)) + f[n + 1]
      BY <3>4, <3>5, <3>10
    <3> QED BY <2>3, <2>4, <2>5, <3>11
  <2>7. CASE n + 1 \notin group
    <3>1. \A j \in group : j <= n + 1 <=> j <= n
      BY <1>4, <2>7
    <3>2. {j \in group : j <= n + 1} = {j \in group : j <= n}
      BY <3>1
    <3>3. Part(n + 1) = Part(n)
      BY <3>2
    <3> HIDE DEF Part
    <3> QED BY <2>3, <2>4, <2>5, <3>3
  <2> QED BY <2>6, <2>7
<1>7. N \in S
  <2> HIDE DEF S
  <2> QED BY <1>1, <1>5, <1>6, NatSetInduction
<1>8. Summarized(group) = Part(N)
  <2>1. {j \in group : j <= N} = group
    BY <1>4
  <2> QED BY <2>1 DEF Summarized, GroupUtxos
<1>9. Load(group) = SumTo(f, N)
  BY LoadIsSum DEF f, N
<1> HIDE DEF Part
<1> QED BY <1>1, <1>7, <1>8, <1>9

LEMMA TotalNat == ASSUME NEW S PROVE Total(S) \in Nat
<1> DEFINE f == [c \in Cell |-> IF c \in S THEN Amount[c] ELSE 0]
<1>1. NumCell \in Nat /\ \A c \in 1..NumCell : f[c] \in Nat
  BY WorldAssumption DEF Cell
<1>2. Total(S) = SumTo(f, NumCell)
  BY DEF Total
<1> HIDE DEF f
<1> QED BY <1>1, <1>2, SumNat

LEMMA TotalMonotone == ASSUME NEW S, NEW T, S \subseteq T PROVE Total(S) <= Total(T)
<1> DEFINE f == [c \in Cell |-> IF c \in S THEN Amount[c] ELSE 0]
           g == [c \in Cell |-> IF c \in T THEN Amount[c] ELSE 0]
<1>1. NumCell \in Nat /\ \A c \in 1..NumCell : f[c] \in Int /\ g[c] \in Int /\ f[c] <= g[c]
  BY WorldAssumption DEF Cell
<1>2. Total(S) = SumTo(f, NumCell) /\ Total(T) = SumTo(g, NumCell)
  BY DEF Total
<1> HIDE DEF f, g
<1> QED BY <1>1, <1>2, SumMonotone
-----------------------------------------------------------------------------
(* The invariant.                                                          *)

Tx == [cells : SUBSET Cell, inputs : SUBSET Utxo, amount : Nat, enlarged : BOOLEAN,
       outputs : Seq(Nat), tos : Seq(AssetAddress \cup {From, To})]

TypeInv ==
    /\ unspent \in SUBSET Utxo /\ cells \in SUBSET Cell /\ moves \in Nat /\ step \in Steps
    /\ utxoIds \in SUBSET Utxo /\ utxoMap \in SUBSET Utxo
    /\ unread \in SUBSET utxoIds /\ invalidUtxoIds \in SUBSET utxoIds
    /\ cellsMap \in [Utxo -> SUBSET Cell] /\ rgbppGroups \in Seq(Utxo)
    /\ found \in SUBSET Cell /\ txs \in Seq(Tx)

\* What the rounds leave behind: the valid UTXOs are those read and not excluded, each once,
\* and the cells listed for a UTXO are still there or all of its cells are gone for good.
ReadInv ==
    /\ step \in {"assets", "utxos"} => rgbppGroups = <<>> /\ invalidUtxoIds = {}
    /\ step \in {"cells", "groups", "locks", "done"} =>
           utxoIds \ (unread \cup invalidUtxoIds) = GroupUtxos(Index)
    /\ unread \cap invalidUtxoIds = {}
    /\ \A i, j \in Index : rgbppGroups[i] = rgbppGroups[j] => i = j
    /\ \A i \in Index : CellCount(i) <= MaxCells
    /\ \A i \in Index : \A c \in cellsMap[rgbppGroups[i]] : Type[c] # "unsupported"
    /\ \A u \in Utxo : \A c \in cellsMap[u] : Bound[c] = u
    /\ \A u \in Utxo : cellsMap[u] \subseteq cells \/ (u \notin unspent /\ CellsOf(u) = {})

\* The groups partition the valid UTXOs, and one transaction after the other is built.
GroupInv ==
    /\ step \in {"assets", "utxos", "cells"} => groups = <<>>
    /\ Grouped(groups)
    /\ step \in {"groups", "locks", "done"} =>
           unread = {} /\ \A i \in Index : \E k \in DOMAIN groups : i \in groups[k]
    /\ Len(txs) <= Len(groups)

\* While the locks of a group are read: every cell found is of a UTXO that was read, and
\* of every UTXO that was read all listed cells were found, and one at least.
LocksInv ==
    step = "locks" =>
        /\ Len(txs) < Len(groups) /\ toRead \subseteq Current
        /\ \A c \in found : \E i \in Current \ toRead : Bound[c] = rgbppGroups[i]
        /\ \A i \in Current \ toRead :
               /\ cellsMap[rgbppGroups[i]] \subseteq found
               /\ \E c \in found : Bound[c] = rgbppGroups[i]

\* What a transaction spends besides its group's UTXOs is excluded for the next ones.
SpentInv ==
    \A k \in DOMAIN txs : /\ txs[k].inputs \ FeeUtxo \subseteq GroupUtxos(groups[k])
                          /\ txs[k].inputs \cap FeeUtxo \subseteq usedBtcUtxos

\* As long as nobody else moves, what was read is what there is.
QuietInv ==
    moves = 0 =>
        /\ unspent = Utxo
        /\ \A u \in utxoIds : Owner[u] \in AssetAddress /\ Targets(CellsOf(u)) # {}
        /\ step = "utxos" => \A u \in utxoIds : Owner[u] \in pending \/ u \in utxoMap
        /\ step \in {"cells", "groups", "locks"} => utxoIds \subseteq utxoMap
        /\ \A i \in Index : cellsMap[rgbppGroups[i]] = CellsOf(rgbppGroups[i])
        /\ step = "locks" => found \subseteq cells /\ found \subseteq KnownCells

ListInv == TypeInv /\ ReadInv /\ GroupInv
BuildInv == LocksInv /\ SummaryTrue /\ OthersReturned /\ SpentInv /\ SharedOnlyIfEnlarged
IInv == ListInv /\ BuildInv /\ QuietInv /\ FailsForAReason
-----------------------------------------------------------------------------
\* What the grouping reads does not change any more.
LEMMA SameGrouped ==
    ASSUME UNCHANGED <<rgbppGroups, cellsMap>>
    PROVE  /\ UNCHANGED groups /\ Grouped(groups) => Grouped(groups)'
           /\ UNCHANGED groups /\ SummaryTrue /\ UNCHANGED txs => SummaryTrue'
           /\ UNCHANGED <<Index, GroupUtxos(Index), KnownCells>>
           /\ \A i \in Index : UNCHANGED CellCount(i)
           /\ UNCHANGED <<groups, txs>> => UNCHANGED <<Current, Summarized(Current), XudtAmount(Current)>>
<1>1. UNCHANGED groups /\ Grouped(groups) => Grouped(groups)'
  BY DEF Grouped, Load, Index
<1>2. UNCHANGED <<Index, GroupUtxos(Index), KnownCells>>
  BY DEF Index, GroupUtxos, KnownCells
<1>3. \A i \in Index : UNCHANGED CellCount(i)
  BY DEF CellCount, Index
<1>4. UNCHANGED groups /\ SummaryTrue /\ UNCHANGED txs => SummaryTrue'
  BY DEF SummaryTrue, Summarized, GroupUtxos
<1>5. UNCHANGED <<groups, txs>> => UNCHANGED <<Current, Summarized(Current), XudtAmount(Current)>>
  BY DEF Current, Summarized, GroupUtxos, XudtAmount
<1> QED BY <1>1, <1>2, <1>3, <1>4, <1>5
-----------------------------------------------------------------------------
(* The transaction of a group.                                             *)

Others == found \ Targets(found)

\* The receivers of the other cells, cell by cell.
LEMMA TosPerCell ==
    ASSUME found \in SUBSET Cell
    PROVE  /\ Cardinality(Others) \in Nat
           /\ InOrder(Others) \in Seq(Cell) /\ Len(InOrder(Others)) = Cardinality(Others)
           /\ NonTargetTos \in Seq(AssetAddress \cup {From})
           /\ Len(NonTargetTos) = Cardinality(Others)
           /\ \A k \in 1..Cardinality(Others) : NonTargetTos[k] = Owner[Bound[InOrder(Others)[k]]]
<1> DEFINE t == InOrder(Targets(found))
           o == InOrder(Others)
           m == Cardinality(Targets(found))
           n == Cardinality(Others)
<1>1. NumCell \in Nat /\ Cell = 1..NumCell
  BY WorldAssumption DEF Cell
<1>2. Targets(found) \in SUBSET Cell /\ Others \in SUBSET Cell
  BY DEF Targets, Others
<1>3. t \in Seq(Targets(found)) /\ Len(t) = m /\ m \in Nat
  BY <1>1, <1>2, ListedInOrder
<1>4. o \in Seq(Others) /\ Len(o) = n /\ n \in Nat
  BY <1>1, <1>2, ListedInOrder
<1>5. CkbInputs = t \o o
  BY DEF CkbInputs, Others
<1> HIDE DEF t, o
<1>6. t \in Seq(Cell) /\ o \in Seq(Cell)
  BY <1>2, <1>3, <1>4
<1>7. NonTargetTos = [k \in 1..n |-> Owner[Bound[CkbInputs[m + k]]]]
  BY DEF NonTargetTos, Others
<1> HIDE DEF m, n
<1>8. ASSUME NEW k \in 1..n
      PROVE  CkbInputs[m + k] = o[k] /\ o[k] \in Cell
  BY <1>3, <1>4, <1>5, <1>6
<1>9. \A c \in Cell : Owner[Bound[c]] \in AssetAddress \cup {From}
  BY WorldAssumption
<1>10. \A k \in 1..n : NonTargetTos[k] = Owner[Bound[o[k]]]
  BY <1>7, <1>8
<1>11. \A k \in 1..n : Owner[Bound[CkbInputs[m + k]]] \in AssetAddress \cup {From}
  BY <1>8, <1>9
<1> DEFINE T == AssetAddress \cup {From}
<1> HIDE DEF T
<1>12. NonTargetTos \in [1..n -> T]
  BY <1>7, <1>11 DEF T
<1>13. NonTargetTos \in Seq(T) /\ Len(NonTargetTos) = n
  BY <1>4, <1>12
<1> QED BY <1>4, <1>6, <1>10, <1>13 DEF T, n, o

LEMMA TxType ==
    ASSUME TypeInv, NEW fees \in SUBSET Utxo, NEW enlarged \in BOOLEAN
    PROVE  [cells |-> found, inputs |-> BtcInputs \cup fees, amount |-> XudtAmount(Current),
            enlarged |-> enlarged, outputs |-> CkbOutputs, tos |-> Tos] \in Tx
<1>1. found \in SUBSET Cell
  BY DEF TypeInv
<1>2. BtcInputs \cup fees \in SUBSET Utxo
  BY <1>1, WorldAssumption DEF BtcInputs
<1>3. XudtAmount(Current) \in Nat
  BY TotalNat DEF XudtAmount
<1>4. CkbOutputs \in Seq(Nat)
  <2> DEFINE o == InOrder(Others)
             first == IF Total(Targets(found)) > XudtAmount(Current) THEN <<Receiver, Change>>
                      ELSE <<Receiver>>
  <2>1. o \in Seq(Cell) /\ Cell \subseteq Nat
    BY <1>1, TosPerCell DEF Cell
  <2>2. Receiver \in Nat /\ Change \in Nat
    BY WorldAssumption DEF Receiver, Change
  <2>3. <<Receiver>> \in Seq(Nat) /\ <<Receiver, Change>> \in Seq(Nat)
    BY <2>2
  <2>4. first \in Seq(Nat) /\ CkbOutputs = first \o o
    BY <2>3 DEF CkbOutputs, Others
  <2> HIDE DEF first, o
  <2>5. o \in Seq(Nat)
    <3>1. Len(o) \in Nat /\ o \in [1..Len(o) -> Cell]
      BY <2>1
    <3>2. o \in [1..Len(o) -> Nat]
      BY <2>1, <3>1
    <3> QED BY <3>1, <3>2
  <2> QED BY <2>4, <2>5
<1>5. Tos \in Seq(AssetAddress \cup {From, To})
  <2> DEFINE T == AssetAddress \cup {From, To}
  <2>1. NonTargetTos \in Seq(AssetAddress \cup {From})
    BY <1>1, TosPerCell
  <2>2. AssetAddress \cup {From} \subseteq T /\ To \in T
    OBVIOUS
  <2> HIDE DEF T
  <2>3. NonTargetTos \in Seq(T) /\ <<To>> \in Seq(T)
    BY <2>1, <2>2
  <2>4. <<To>> \o NonTargetTos \in Seq(T)
    BY <2>3
  <2> QED BY <2>4 DEF Tos, T
<1> QED BY <1>1, <1>2, <1>3, <1>4, <1>5 DEF Tx

\* With as many outputs as receivers, each other cell goes to the owner of its UTXO.
LEMMA OutputsReturned ==
    ASSUME found \in SUBSET Cell, ~ Unexpected
    PROVE  \A i \in DOMAIN CkbOutputs :
               CkbOutputs[i] \in Cell => Tos[i] = Owner[Bound[CkbOutputs[i]]]
<1> DEFINE o == InOrder(Others)
           n == Cardinality(Others)
<1>1. /\ o \in Seq(Cell) /\ Len(o) = n /\ n \in Nat /\ Len(NonTargetTos) = n
      /\ NonTargetTos \in Seq(AssetAddress \cup {From})
      /\ \A k \in 1..n : NonTargetTos[k] = Owner[Bound[o[k]]]
  BY TosPerCell
<1>2. Len(CkbOutputs) = n + 1
  BY <1>1 DEF Unexpected
<1>3. CkbOutputs = <<Receiver>> \o o
  <2>1. CkbOutputs = <<Receiver, Change>> \o o \/ CkbOutputs = <<Receiver>> \o o
    BY DEF CkbOutputs, Others
  <2> HIDE DEF o, n
  <2>2. Len(<<Receiver, Change>> \o o) = n + 2
    BY <1>1
  <2> QED BY <1>1, <1>2, <2>1, <2>2
<1>4. Receiver \notin Cell
  BY WorldAssumption DEF Receiver, Cell
<1> HIDE DEF o, n
<1> SUFFICES ASSUME NEW i \in DOMAIN CkbOutputs, CkbOutputs[i] \in Cell
             PROVE  Tos[i] = Owner[Bound[CkbOutputs[i]]]
  OBVIOUS
<1>5. DOMAIN CkbOutputs = 1..(n + 1)
  BY <1>1, <1>3
<1>6. CkbOutputs[1] = Receiver
  BY <1>1, <1>3
<1>7. i - 1 \in 1..n /\ (i - 1) + 1 = i
  BY <1>1, <1>4, <1>5, <1>6
<1>8. CkbOutputs[i] = o[i - 1]
  BY <1>1, <1>3, <1>5, <1>7
<1>9. Tos[i] = NonTargetTos[i - 1]
  <2> DEFINE s == NonTargetTos
  <2>1. s \in Seq(AssetAddress \cup {From}) /\ Len(s) = n /\ Tos = <<To>> \o s
    BY <1>1 DEF Tos
  <2> HIDE DEF s
  <2>2. (<<To>> \o s)[i] = s[i - 1]
    BY <1>1, <1>7, <2>1
  <2> QED BY <2>1, <2>2 DEF s
<1> QED BY <1>1, <1>7, <1>8, <1>9
-----------------------------------------------------------------------------
(* The rounds and the groups.                                              *)

LEMMA InitIInv == Init => IInv
<1> SUFFICES ASSUME Init PROVE IInv
  OBVIOUS
<1> USE DEF Init
<1>1. Index = {} /\ DOMAIN groups = {} /\ DOMAIN txs = {} /\ GroupUtxos(Index) = {}
  BY DEF Index, GroupUtxos
<1>2. TypeInv
  BY WorldAssumption DEF TypeInv, Steps
<1>3. ReadInv
  BY <1>1 DEF ReadInv
<1>4. GroupInv
  BY <1>1 DEF GroupInv, Grouped
<1>5. LocksInv /\ SummaryTrue /\ OthersReturned /\ SpentInv /\ SharedOnlyIfEnlarged
  BY <1>1 DEF LocksInv, SummaryTrue, OthersReturned, SpentInv, SharedOnlyIfEnlarged
<1>6. QuietInv /\ FailsForAReason
  BY <1>1 DEF QuietInv, FailsForAReason
<1> QED BY <1>2, <1>3, <1>4, <1>5, <1>6 DEF IInv, ListInv, BuildInv

Late == {"groups", "locks", "done"}
Failed == {"unavailable", "failed", "insufficient", "unsummarized"}
Rival == (\E u \in Utxo : RivalSpends(u) \/ RivalMovesCells(u)) \/ \E c \in Cell : LeapToBtc(c)

\* Once the groups are built, or when the call ends, the lists stay.
LEMMA ListsKept ==
    ASSUME ListInv, UNCHANGED <<world, utxoIds, utxoMap, reading, groups>>,
           step' = step \/ (step \in Late /\ step' \in Late) \/ step' \in Failed,
           found' \in SUBSET Cell, txs' \in Seq(Tx), Len(txs') <= Len(groups)
    PROVE  ListInv'
<1> USE DEF ListInv, world, reading
<1>1. UNCHANGED <<unspent, cells, moves, utxoIds, utxoMap, unread, cellsMap, invalidUtxoIds,
                  rgbppGroups, groups>>
  OBVIOUS
<1>2. step' \in Steps
  BY DEF TypeInv, Steps, Late, Failed
<1>3. TypeInv'
  BY <1>2 DEF TypeInv
<1>4. ReadInv'
  <2>1. /\ UNCHANGED <<Index, GroupUtxos(Index)>> /\ \A i \in Index : UNCHANGED CellCount(i)
        /\ \A u \in Utxo : UNCHANGED CellsOf(u)
    BY <1>1, SameGrouped DEF CellsOf
  <2>2. /\ step' \in {"assets", "utxos"} => step \in {"assets", "utxos"}
        /\ step' \in {"cells", "groups", "locks", "done"} => step \in {"cells", "groups", "locks", "done"}
    BY DEF Late, Failed
  <2> QED BY <1>1, <2>1, <2>2 DEF ReadInv
<1>5. GroupInv'
  <2>1. Grouped(groups)' /\ UNCHANGED Index
    BY <1>1, SameGrouped DEF GroupInv
  <2>2. /\ step' \in {"assets", "utxos", "cells"} => step \in {"assets", "utxos", "cells"}
        /\ step' \in {"groups", "locks", "done"} => step \in {"groups", "locks", "done"}
    BY DEF Late, Failed
  <2> QED BY <1>1, <2>1, <2>2 DEF GroupInv
<1> QED BY <1>3, <1>4, <1>5

\* Other wallets only add cells to unspent UTXOs and take all cells of spent ones.
LEMMA RivalFacts ==
    ASSUME TypeInv, Rival
    PROVE  /\ unspent' \in SUBSET unspent /\ cells' \in SUBSET Cell /\ moves' \in Nat /\ moves' # 0
           /\ \A u \in Utxo : CellsOf(u) \subseteq CellsOf(u)' \/ (u \notin unspent' /\ CellsOf(u)' = {})
           /\ \A u \in Utxo \ unspent : CellsOf(u)' \subseteq CellsOf(u)
           /\ UNCHANGED <<step, listing, reading, groups, building>>
<1>1. moves' = moves + 1 /\ UNCHANGED <<step, listing, reading, groups, building>>
  BY DEF Rival, RivalSpends, RivalMovesCells, LeapToBtc, Moves
<1>2. moves' \in Nat /\ moves' # 0
  BY <1>1 DEF TypeInv
<1>3. CASE \E u \in Utxo : RivalSpends(u)
  BY <1>1, <1>2, <1>3 DEF RivalSpends, CellsOf, TypeInv
<1>4. ASSUME NEW w \in Utxo, RivalMovesCells(w) PROVE
          /\ unspent' \in SUBSET unspent /\ cells' \in SUBSET Cell
          /\ \A u \in Utxo : CellsOf(u) \subseteq CellsOf(u)' \/ (u \notin unspent' /\ CellsOf(u)' = {})
          /\ \A u \in Utxo \ unspent : CellsOf(u)' \subseteq CellsOf(u)
  <2>1. w \notin unspent /\ unspent' = unspent /\ cells' = {c \in cells : Bound[c] # w}
    BY <1>4 DEF RivalMovesCells, CellsOf
  <2>2. \A u \in Utxo : u # w => CellsOf(u)' = CellsOf(u)
    BY <2>1 DEF CellsOf
  <2>3. CellsOf(w)' = {}
    BY <2>1 DEF CellsOf
  <2> QED BY <2>1, <2>2, <2>3 DEF TypeInv
<1>5. ASSUME NEW c \in Cell, LeapToBtc(c) PROVE
          /\ unspent' \in SUBSET unspent /\ cells' \in SUBSET Cell
          /\ \A u \in Utxo : CellsOf(u) \subseteq CellsOf(u)' \/ (u \notin unspent' /\ CellsOf(u)' = {})
          /\ \A u \in Utxo \ unspent : CellsOf(u)' \subseteq CellsOf(u)
  BY <1>5 DEF LeapToBtc, CellsOf, TypeInv
<1> QED BY <1>1, <1>2, <1>3, <1>4, <1>5 DEF Rival

LEMMA ListsUnderRival ==
    ASSUME ListInv, Rival
    PROVE  ListInv'
<1> USE DEF ListInv
<1>1. /\ unspent' \in SUBSET unspent /\ cells' \in SUBSET Cell /\ moves' \in Nat
      /\ \A u \in Utxo : CellsOf(u) \subseteq CellsOf(u)' \/ (u \notin unspent' /\ CellsOf(u)' = {})
      /\ \A u \in Utxo \ unspent : CellsOf(u)' \subseteq CellsOf(u)
      /\ UNCHANGED <<step, listing, reading, groups, building>>
  BY RivalFacts
<1>2. UNCHANGED <<step, utxoIds, utxoMap, unread, cellsMap, invalidUtxoIds, rgbppGroups, groups,
                  found, txs>>
  BY <1>1 DEF listing, reading, building
<1>3. TypeInv'
  BY <1>1, <1>2 DEF TypeInv
<1>4. ReadInv'
  <2>1. UNCHANGED <<Index, GroupUtxos(Index)>> /\ \A i \in Index : UNCHANGED CellCount(i)
    BY <1>2, SameGrouped
  <2>2. ASSUME NEW u \in Utxo
        PROVE  cellsMap[u] \subseteq cells' \/ (u \notin unspent' /\ CellsOf(u)' = {})
    <3>1. CASE cellsMap[u] \subseteq cells
      <4>1. cellsMap[u] \subseteq CellsOf(u)
        BY <3>1 DEF ReadInv, CellsOf
      <4>2. CellsOf(u)' \subseteq cells'
        BY DEF CellsOf
      <4> QED BY <1>1, <4>1, <4>2
    <3>2. CASE u \notin unspent /\ CellsOf(u) = {}
      BY <1>1, <3>2
    <3> QED BY <3>1, <3>2 DEF ReadInv
  <2> QED BY <1>2, <2>1, <2>2 DEF ReadInv
<1>5. GroupInv'
  <2>1. Grouped(groups)' /\ UNCHANGED Index
    BY <1>2, SameGrouped DEF GroupInv
  <2> QED BY <1>2, <2>1 DEF GroupInv
<1> QED BY <1>3, <1>4, <1>5

LEMMA FeesAreFree ==
    ASSUME NEW n, NEW enlarged
    PROVE  /\ FeeInputs(n, enlarged) \subseteq FeeUtxo /\ FeeUtxo \subseteq Utxo
           /\ ~ enlarged => FeeInputs(n, enlarged) \cap usedBtcUtxos = {}
BY DEF FeeInputs, First, FreeUtxos, FeeUtxo

\* How a built group leaves the state.
BuiltWith(n, enlarged) ==
    /\ ~ CkbRefused /\ found \subseteq cells /\ step' = "groups"
    /\ usedBtcUtxos' = usedBtcUtxos \cup UsedFrom(FeeInputs(n, enlarged))
    /\ txs' = Append(txs, [cells |-> found, inputs |-> BtcInputs \cup FeeInputs(n, enlarged),
                           amount |-> XudtAmount(Current), enlarged |-> enlarged,
                           outputs |-> CkbOutputs, tos |-> Tos])

LEMMA BuildCases ==
    ASSUME BuildGroup
    PROVE  /\ step = "locks" /\ toRead = {}
           /\ UNCHANGED <<world, listing, reading, groups, toRead, found>>
           /\ \/ step' = "failed" /\ (CkbRefused \/ ~ (found \subseteq cells)) /\ UNCHANGED building
              \/ step' = "insufficient" /\ UNCHANGED building
              \/ \E n \in 0..MaxFeeInputs, enlarged \in BOOLEAN : BuiltWith(n, enlarged)
<1>1. /\ step = "locks" /\ toRead = {} /\ UNCHANGED world
      /\ UNCHANGED <<listing, reading, groups, toRead, found>>
  BY DEF BuildGroup, Fails, building
<1>2. CASE CkbRefused \/ ~ (found \subseteq cells)
  BY <1>1, <1>2 DEF BuildGroup, Fails
<1>3. CASE ~ (CkbRefused \/ ~ (found \subseteq cells))
  <2>1. PICK n \in 0..MaxFeeInputs, enlarged \in BOOLEAN :
            \/ step' = "insufficient" /\ UNCHANGED <<usedBtcUtxos, txs>>
            \/ /\ step' = "groups"
               /\ usedBtcUtxos' = usedBtcUtxos \cup UsedFrom(FeeInputs(n, enlarged))
               /\ txs' = Append(txs, [cells |-> found, inputs |-> BtcInputs \cup FeeInputs(n, enlarged),
                                      amount |-> XudtAmount(Current), enlarged |-> enlarged,
                                      outputs |-> CkbOutputs, tos |-> Tos])
    BY <1>3 DEF BuildGroup
  <2> QED BY <1>1, <1>3, <2>1 DEF BuiltWith, building
<1> QED BY <1>1, <1>2, <1>3

LEMMA TxAppended ==
    ASSUME TypeInv, NEW n, NEW enlarged \in BOOLEAN, BuiltWith(n, enlarged)
    PROVE  /\ txs' \in Seq(Tx) /\ Len(txs') = Len(txs) + 1 /\ Len(txs) \in Nat
           /\ DOMAIN txs = 1..Len(txs) /\ DOMAIN txs' = 1..(Len(txs) + 1)
           /\ \A k \in DOMAIN txs : txs'[k] = txs[k]
           /\ txs'[Len(txs) + 1].cells = found
           /\ txs'[Len(txs) + 1].inputs = BtcInputs \cup FeeInputs(n, enlarged)
           /\ txs'[Len(txs) + 1].amount = XudtAmount(Current)
           /\ txs'[Len(txs) + 1].enlarged = enlarged
           /\ txs'[Len(txs) + 1].outputs = CkbOutputs
           /\ txs'[Len(txs) + 1].tos = Tos
<1> DEFINE fees == FeeInputs(n, enlarged)
           tx == [cells |-> found, inputs |-> BtcInputs \cup fees, amount |-> XudtAmount(Current),
                  enlarged |-> enlarged, outputs |-> CkbOutputs, tos |-> Tos]
<1>1. fees \in SUBSET Utxo
  BY FeesAreFree
<1> HIDE DEF fees
<1>2. tx \in Tx
  BY <1>1, TxType
<1>3. /\ tx.cells = found /\ tx.inputs = BtcInputs \cup fees /\ tx.amount = XudtAmount(Current)
      /\ tx.enlarged = enlarged /\ tx.outputs = CkbOutputs /\ tx.tos = Tos
  OBVIOUS
<1>4. txs' = Append(txs, tx)
  BY DEF BuiltWith, fees
<1>5. txs \in Seq(Tx)
  BY DEF TypeInv
<1> HIDE DEF tx
<1>6. /\ txs' \in Seq(Tx) /\ Len(txs') = Len(txs) + 1 /\ Len(txs) \in Nat
      /\ DOMAIN txs = 1..Len(txs) /\ DOMAIN txs' = 1..(Len(txs) + 1)
      /\ txs'[Len(txs) + 1] = tx /\ \A k \in DOMAIN txs : txs'[k] = txs[k]
  BY <1>2, <1>4, <1>5
<1> QED BY <1>3, <1>6 DEF fees

LEMMA ReadCellsLists ==
    ASSUME ListInv, NEW u \in Utxo, ReadCells(u)
    PROVE  ListInv'
<1> USE DEF ListInv
<1>1. /\ step = "cells" /\ u \in unread /\ unread' = unread \ {u}
      /\ cellsMap' = [cellsMap EXCEPT ![u] = CellsOf(u)]
      /\ UNCHANGED <<unspent, cells, moves, step, utxoIds, utxoMap, groups, found, txs>>
  BY DEF ReadCells, world, listing, building
<1>2. groups = <<>> /\ groups' = <<>> /\ Grouped(groups)'
  BY <1>1 DEF GroupInv, Grouped
<1>3. u \in utxoIds /\ u \notin GroupUtxos(Index) /\ u \notin invalidUtxoIds
  BY <1>1 DEF TypeInv, ReadInv
<1>4. /\ CellsOf(u) \in SUBSET Cell /\ \A c \in CellsOf(u) : Bound[c] = u
      /\ CellsOf(u) \subseteq cells /\ \A w \in Utxo : UNCHANGED CellsOf(w)
  BY <1>1 DEF CellsOf, TypeInv
<1>5. /\ cellsMap' \in [Utxo -> SUBSET Cell]
      /\ cellsMap'[u] = CellsOf(u) /\ \A w \in Utxo : w # u => cellsMap'[w] = cellsMap[w]
  BY <1>1, <1>4 DEF TypeInv
<1>6. \A w \in Utxo : \A c \in cellsMap'[w] : Bound[c] = w
  BY <1>4, <1>5 DEF ReadInv
<1>7. \A w \in Utxo : cellsMap'[w] \subseteq cells \/ (w \notin unspent /\ CellsOf(w) = {})
  BY <1>4, <1>5 DEF ReadInv
<1>8. /\ rgbppGroups \in Seq(Utxo) /\ Len(rgbppGroups) \in Nat /\ Index = 1..Len(rgbppGroups)
      /\ \A i \in Index : rgbppGroups[i] \in Utxo /\ rgbppGroups[i] # u
  BY <1>3 DEF TypeInv, Index, GroupUtxos
<1>9. GroupInv'
  <2>1. Len(txs) <= Len(groups)
    BY DEF GroupInv
  <2> QED BY <1>1, <1>2, <2>1 DEF GroupInv
<1>10. utxoIds \ (unread \cup invalidUtxoIds) = GroupUtxos(Index)
  BY <1>1 DEF ReadInv
<1>11. CASE Invalid(u)
  <2>1. invalidUtxoIds' = invalidUtxoIds \cup {u} /\ rgbppGroups' = rgbppGroups
    BY <1>11 DEF ReadCells
  <2>2. TypeInv'
    BY <1>1, <1>3, <1>5, <2>1 DEF TypeInv
  <2>3. UNCHANGED <<Index, GroupUtxos(Index)>>
    BY <2>1 DEF Index, GroupUtxos
  <2>4. unread' \cup invalidUtxoIds' = unread \cup invalidUtxoIds
    BY <1>1, <2>1
  <2>5. \A i \in Index' : /\ CellCount(i)' <= MaxCells
                          /\ \A c \in cellsMap'[rgbppGroups'[i]] : Type[c] # "unsupported"
    BY <1>5, <1>8, <2>1, <2>3 DEF ReadInv, CellCount
  <2>6. ReadInv'
    <3>1. unread' \cap invalidUtxoIds' = {}
      BY <1>1, <2>1 DEF ReadInv
    <3>2. \A i, j \in Index' : rgbppGroups'[i] = rgbppGroups'[j] => i = j
      BY <2>1, <2>3 DEF ReadInv
    <3>3. (utxoIds \ (unread \cup invalidUtxoIds) = GroupUtxos(Index))'
      BY <1>1, <1>10, <2>3, <2>4
    <3> QED BY <1>1, <1>4, <1>6, <1>7, <2>5, <3>1, <3>2, <3>3 DEF ReadInv
  <2> QED BY <1>9, <2>2, <2>6
<1>12. CASE ~ Invalid(u)
  <2>1. rgbppGroups' = Append(rgbppGroups, u) /\ invalidUtxoIds' = invalidUtxoIds
    BY <1>12 DEF ReadCells
  <2>2. Cardinality(CellsOf(u)) <= MaxCells /\ \A c \in CellsOf(u) : Type[c] # "unsupported"
    <3>1. Cardinality(CellsOf(u)) \in Nat /\ MaxCells \in Nat
      BY <1>4, CellsFinite, LimitAssumption
    <3> QED BY <1>12, <3>1 DEF Invalid
  <2> DEFINE n == Len(rgbppGroups)
  <2>3. /\ rgbppGroups' \in Seq(Utxo) /\ Index' = 1..(n + 1) /\ rgbppGroups'[n + 1] = u
        /\ \A i \in Index : rgbppGroups'[i] = rgbppGroups[i]
    BY <1>8, <2>1 DEF Index
  <2> HIDE DEF n
  <2>4. n \in Nat /\ Index = 1..n
    BY <1>8 DEF n
  <2>5. \A i \in Index' : i \in Index \/ i = n + 1
    BY <2>3, <2>4
  <2>6. TypeInv'
    BY <1>1, <1>5, <2>1, <2>3 DEF TypeInv
  <2>7. GroupUtxos(Index)' = GroupUtxos(Index) \cup {u}
    <3>1. n + 1 \in Index' /\ \A i \in Index : i \in Index'
      BY <2>3, <2>4
    <3> QED BY <2>3, <2>5, <3>1 DEF GroupUtxos
  <2>8. \A i \in Index' : /\ CellCount(i)' <= MaxCells
                          /\ \A c \in cellsMap'[rgbppGroups'[i]] : Type[c] # "unsupported"
    <3> TAKE i \in Index'
    <3>1. CASE i \in Index
      BY <1>5, <1>8, <2>3, <3>1 DEF ReadInv, CellCount
    <3>2. CASE i = n + 1
      BY <1>5, <2>2, <2>3, <3>2 DEF CellCount
    <3> QED BY <2>5, <3>1, <3>2
  <2>9. ReadInv'
    <3>1. unread' \cap invalidUtxoIds' = {}
      BY <1>1, <2>1 DEF ReadInv
    <3>2. \A i, j \in Index' : rgbppGroups'[i] = rgbppGroups'[j] => i = j
      BY <1>8, <2>3, <2>5 DEF ReadInv
    <3>3. (utxoIds \ (unread \cup invalidUtxoIds) = GroupUtxos(Index))'
      <4>1. utxoIds \ (unread' \cup invalidUtxoIds) = (utxoIds \ (unread \cup invalidUtxoIds)) \cup {u}
        BY <1>1, <1>3
      <4> QED BY <1>1, <1>10, <2>1, <2>7, <4>1
    <3> QED BY <1>1, <1>4, <1>6, <1>7, <2>8, <3>1, <3>2, <3>3 DEF ReadInv
  <2> QED BY <1>9, <2>6, <2>9
<1> QED BY <1>11, <1>12

LEMMA ListNext ==
    ASSUME ListInv, LocksInv, [Next]_vars
    PROVE  ListInv'
<1> USE DEF ListInv
<1>1. /\ found \in SUBSET Cell /\ txs \in Seq(Tx) /\ Len(txs) \in Nat /\ Len(txs) <= Len(groups)
      /\ Len(groups) \in Nat
  BY DEF TypeInv, GroupInv, Grouped
<1>2. CASE UNCHANGED vars
  BY <1>1, <1>2, ListsKept DEF vars, world, listing, reading, building
<1>3. CASE ServiceFails
  BY <1>1, <1>3, ListsKept DEF ServiceFails, world, listing, reading, building, Failed
<1>4. ASSUME NEW a \in AssetAddress, ListAssets(a) PROVE ListInv'
  <2>1. /\ step = "assets" /\ step' \in {"assets", "utxos"} /\ utxoIds \subseteq utxoIds'
        /\ utxoIds' \in SUBSET Utxo
        /\ UNCHANGED <<unspent, cells, moves, utxoMap, unread, cellsMap, invalidUtxoIds, rgbppGroups,
                       groups, found, txs>>
    BY <1>4 DEF ListAssets, Answered, world, reading, building, TypeInv
  <2>2. TypeInv'
    BY <2>1 DEF TypeInv, Steps
  <2>3. ReadInv'
    <3>1. UNCHANGED Index /\ \A i \in Index : UNCHANGED CellCount(i)
      BY <2>1, SameGrouped
    <3>2. \A u \in Utxo : UNCHANGED CellsOf(u)
      BY <2>1 DEF CellsOf
    <3> QED BY <2>1, <3>1, <3>2 DEF ReadInv
  <2>4. GroupInv'
    <3>1. Grouped(groups)'
      BY <2>1, SameGrouped DEF GroupInv
    <3> QED BY <2>1, <3>1 DEF GroupInv
  <2> QED BY <2>2, <2>3, <2>4
<1>5. ASSUME NEW a \in AssetAddress, ListUtxos(a) PROVE ListInv'
  <2>1. /\ step = "utxos" /\ step' \in {"utxos", "cells"} /\ utxoMap' \in SUBSET Utxo
        /\ unread' = utxoIds
        /\ UNCHANGED <<unspent, cells, moves, utxoIds, cellsMap, invalidUtxoIds, rgbppGroups,
                       groups, found, txs>>
    BY <1>5 DEF ListUtxos, Answered, world, building, TypeInv
  <2>2. TypeInv'
    BY <2>1 DEF TypeInv, Steps
  <2>3. ReadInv'
    <3>1. UNCHANGED Index /\ \A i \in Index : UNCHANGED CellCount(i)
      BY <2>1, SameGrouped
    <3>2. \A u \in Utxo : UNCHANGED CellsOf(u)
      BY <2>1 DEF CellsOf
    <3>3. rgbppGroups' = <<>> /\ invalidUtxoIds' = {}
      BY <2>1 DEF ReadInv
    <3>4. GroupUtxos(Index)' = {}
      BY <3>3 DEF GroupUtxos, Index
    <3> QED BY <2>1, <3>1, <3>2, <3>3, <3>4 DEF ReadInv
  <2>4. GroupInv'
    <3>1. Grouped(groups)'
      BY <2>1, SameGrouped DEF GroupInv
    <3> QED BY <2>1, <3>1 DEF GroupInv
  <2> QED BY <2>2, <2>3, <2>4
<1>6. ASSUME NEW u \in Utxo, ReadCells(u) PROVE ListInv'
  BY <1>6, ReadCellsLists
<1>7. CASE Relocate
  <2>1. /\ step = "cells" /\ unread = {} /\ groups' = GroupNumbersBySum /\ step' = "groups"
        /\ UNCHANGED <<unspent, cells, moves, utxoIds, utxoMap, unread, cellsMap, invalidUtxoIds,
                       rgbppGroups, found, txs>>
    BY <1>7 DEF Relocate, world, listing, reading, building
  <2>2. Readable
    BY DEF Readable, TypeInv, ReadInv, CellCount
  <2>3. /\ Grouped(GroupNumbersBySum)
        /\ \A j \in Index : \E k \in DOMAIN GroupNumbersBySum : j \in GroupNumbersBySum[k]
    BY <2>2, GroupingIsPartition
  <2>4. Grouped(groups)' /\ UNCHANGED Index
    BY <2>1, <2>3 DEF Grouped, Load, Index
  <2>5. Len(txs) = 0 /\ Len(groups') \in Nat
    <3>1. Len(txs) = 0
      BY <1>1, <2>1 DEF GroupInv
    <3>2. Len(GroupNumbersBySum) \in Nat
      BY <2>3 DEF Grouped
    <3> QED BY <2>1, <3>1, <3>2
  <2>6. GroupInv'
    BY <2>1, <2>3, <2>4, <2>5 DEF GroupInv
  <2>7. TypeInv'
    BY <2>1 DEF TypeInv, Steps
  <2>8. ReadInv'
    <3>1. UNCHANGED <<Index, GroupUtxos(Index)>> /\ \A i \in Index : UNCHANGED CellCount(i)
      BY <2>1, SameGrouped
    <3>2. \A u \in Utxo : UNCHANGED CellsOf(u)
      BY <2>1 DEF CellsOf
    <3> QED BY <2>1, <3>1, <3>2 DEF ReadInv
  <2> QED BY <2>6, <2>7, <2>8
<1>8. CASE StartGroup
  <2>1. /\ UNCHANGED <<world, utxoIds, utxoMap, reading, groups, txs>>
        /\ (step \in Late /\ step' \in Late) \/ step' \in Failed
        /\ found' \in SUBSET Cell
    BY <1>1, <1>8 DEF StartGroup, Fails, listing, building, Late, Failed
  <2> QED BY <1>1, <2>1, ListsKept
<1>9. CASE ReadLock
  <2>1. /\ UNCHANGED <<world, utxoIds, utxoMap, reading, groups, txs>>
        /\ step' = step \/ step' \in Failed
        /\ found' \in SUBSET Cell
    BY <1>1, <1>9 DEF ReadLock, Fails, listing, building, Failed, CellsOf, TypeInv
  <2> QED BY <1>1, <2>1, ListsKept
<1>10. CASE BuildGroup
  <2>1. /\ UNCHANGED <<world, utxoIds, utxoMap, reading, groups, found>> /\ step = "locks"
        /\ \/ step' \in Failed /\ UNCHANGED txs
           \/ \E n \in 0..MaxFeeInputs, enlarged \in BOOLEAN : BuiltWith(n, enlarged)
    BY <1>10, BuildCases DEF listing, building, Failed
  <2>2. CASE step' \in Failed /\ UNCHANGED txs
    BY <1>1, <2>1, <2>2, ListsKept
  <2>3. ASSUME NEW n \in 0..MaxFeeInputs, NEW enlarged \in BOOLEAN, BuiltWith(n, enlarged)
        PROVE  ListInv'
    <3>1. txs' \in Seq(Tx) /\ Len(txs') = Len(txs) + 1
      BY <2>3, TxAppended
    <3>2. Len(txs) < Len(groups)
      BY <2>1 DEF LocksInv
    <3>3. step' \in Late /\ step \in Late
      BY <2>1, <2>3 DEF BuiltWith, Late
    <3>4. Len(txs') <= Len(groups) /\ found' \in SUBSET Cell
      BY <1>1, <2>1, <3>1, <3>2
    <3> QED BY <2>1, <3>1, <3>3, <3>4, ListsKept
  <2> QED BY <2>1, <2>2, <2>3
<1>11. CASE Summarize
  <2>1. /\ UNCHANGED <<world, utxoIds, utxoMap, reading, groups, found, txs>>
        /\ (step \in Late /\ step' \in Late) \/ step' \in Failed
    BY <1>11 DEF Summarize, listing, building, Late, Failed
  <2> QED BY <1>1, <2>1, ListsKept
<1>12. CASE Rival
  BY <1>12, ListsUnderRival
<1> QED BY <1>2, <1>3, <1>4, <1>5, <1>6, <1>7, <1>8, <1>9, <1>10, <1>11, <1>12 DEF Next, Rival
-----------------------------------------------------------------------------
(* The transactions.                                                       *)

LEMMA CurrentIsGroup ==
    ASSUME ListInv, Len(txs) < Len(groups)
    PROVE  /\ Len(txs) + 1 \in DOMAIN groups /\ Current \in SUBSET Index /\ Current # {}
           /\ Load(Current) <= MaxCells /\ \A i \in Current : rgbppGroups[i] \in Utxo
<1>1. Len(txs) \in Nat /\ groups \in Seq(SUBSET Index)
  BY DEF ListInv, TypeInv, GroupInv, Grouped
<1>2. Len(txs) + 1 \in DOMAIN groups
  BY <1>1
<1>3. \A k \in DOMAIN groups : groups[k] \in SUBSET Index
  BY <1>1
<1>4. \A i \in Index : rgbppGroups[i] \in Utxo
  BY DEF ListInv, TypeInv, Index
<1> QED BY <1>2, <1>3, <1>4 DEF ListInv, GroupInv, Grouped, Current

\* The cells found are those that the group's summary lists.
LEMMA FoundIsSummary ==
    ASSUME ListInv, LocksInv, step = "locks", toRead = {}, found \subseteq KnownCells
    PROVE  found = Summarized(Current)
<1>1. Current \in SUBSET Index /\ \A i \in Current : rgbppGroups[i] \in Utxo
  BY CurrentIsGroup DEF LocksInv
<1>2. ASSUME NEW c \in found PROVE c \in Summarized(Current)
  <2>1. PICK i \in Current : Bound[c] = rgbppGroups[i]
    BY DEF LocksInv
  <2>2. PICK j \in Index : c \in cellsMap[rgbppGroups[j]]
    BY DEF KnownCells, GroupUtxos
  <2>3. Bound[c] = rgbppGroups[j]
    <3>1. rgbppGroups[j] \in Utxo
      BY DEF ListInv, TypeInv, Index
    <3> QED BY <2>2, <3>1 DEF ListInv, ReadInv
  <2> QED BY <2>1, <2>2, <2>3 DEF Summarized, GroupUtxos
<1>3. ASSUME NEW c \in Summarized(Current) PROVE c \in found
  <2>1. PICK i \in Current : c \in cellsMap[rgbppGroups[i]]
    BY DEF Summarized, GroupUtxos
  <2> QED BY <2>1 DEF LocksInv
<1> QED BY <1>2, <1>3

\* The builder's inputs from the number of the group's UTXOs on hold all that pay the fee.
LEMMA FeesAreUsed ==
    ASSUME ListInv, LocksInv, step = "locks", toRead = {}, NEW fees \in SUBSET Utxo
    PROVE  /\ fees \subseteq UsedFrom(fees) /\ BtcInputs \subseteq GroupUtxos(Current)
           /\ BtcInputs \cap FeeUtxo = {}
<1> DEFINE s == InOrder(BtcInputs)
           t == InOrder(fees)
           b == Cardinality(BtcInputs)
           g == Cardinality(Current)
           m == Cardinality(fees)
<1>1. NumUtxo \in Nat /\ Utxo = 1..NumUtxo
  BY WorldAssumption DEF Utxo
<1>2. Current \in SUBSET Index /\ \A i \in Current : rgbppGroups[i] \in Utxo
  BY CurrentIsGroup DEF LocksInv
<1>3. BtcInputs \in SUBSET Utxo /\ BtcInputs \cap FeeUtxo = {}
  BY WorldAssumption DEF BtcInputs, FeeUtxo, ListInv, TypeInv
<1>4. BtcInputs \subseteq GroupUtxos(Current)
  BY DEF BtcInputs, LocksInv, GroupUtxos
<1>5. IsFiniteSet(BtcInputs) /\ b \in Nat
  <2>1. IsFiniteSet(Utxo)
    BY <1>1, FS_Interval
  <2> QED BY <1>3, <2>1, FS_Subset, FS_CardinalityType
<1>6. g \in Nat /\ g <= b
  <2> DEFINE f == [i \in Current |-> rgbppGroups[i]]
  <2>1. \A i \in Current : rgbppGroups[i] \in BtcInputs
    BY DEF LocksInv, BtcInputs
  <2>2. \A i, j \in Current : rgbppGroups[i] = rgbppGroups[j] => i = j
    BY <1>2 DEF ListInv, ReadInv
  <2>3. f \in Injection(Current, BtcInputs)
    BY <2>1, <2>2 DEF Injection, IsInjective
  <2> HIDE DEF f
  <2>4. IsFiniteSet(Current) /\ g <= b
    BY <1>5, <2>3, FS_Injection
  <2>5. g \in Nat
    BY <2>4, FS_CardinalityType
  <2> QED BY <2>4, <2>5
<1>7. s \in Seq(BtcInputs) /\ Len(s) = b
  BY <1>1, <1>3, ListedInOrder
<1>8. t \in Seq(fees) /\ Len(t) = m /\ m \in Nat /\ \A x \in fees : \E i \in 1..m : t[i] = x
  BY <1>1, ListedInOrder
<1>9. UsedFrom(fees) = {(s \o t)[i] : i \in (g + 1)..Len(s \o t)}
  BY DEF UsedFrom
<1> HIDE DEF s, t, b, g, m
<1>10. s \in Seq(Utxo) /\ t \in Seq(Utxo)
  BY <1>3, <1>7, <1>8
<1>11. ASSUME NEW x \in fees PROVE x \in UsedFrom(fees)
  <2>1. PICK i \in 1..m : t[i] = x
    BY <1>8
  <2>2. b + i \in (g + 1)..Len(s \o t)
    BY <1>5, <1>6, <1>7, <1>8, <1>10
  <2>3. (s \o t)[b + i] = x
    BY <1>5, <1>7, <1>8, <1>10, <2>1
  <2> QED BY <1>9, <2>2, <2>3
<1> QED BY <1>3, <1>4, <1>11

\* A step that builds no transaction keeps what is known of those built.
LEMMA TxsKept ==
    ASSUME ListInv, SummaryTrue, OthersReturned, SpentInv, SharedOnlyIfEnlarged,
           UNCHANGED <<txs, usedBtcUtxos>>,
           groups = <<>> \/ UNCHANGED <<groups, rgbppGroups, cellsMap>>
    PROVE  (SummaryTrue /\ OthersReturned /\ SpentInv /\ SharedOnlyIfEnlarged)'
<1>1. OthersReturned' /\ SharedOnlyIfEnlarged'
  BY DEF OthersReturned, SharedOnlyIfEnlarged
<1>2. CASE groups = <<>>
  <2>1. txs \in Seq(Tx) /\ Len(txs) = 0
    BY <1>2 DEF ListInv, TypeInv, GroupInv
  <2>2. DOMAIN txs = {}
    BY <2>1
  <2> QED BY <1>1, <2>2 DEF SummaryTrue, SpentInv
<1>3. CASE UNCHANGED <<groups, rgbppGroups, cellsMap>>
  <2>1. SummaryTrue'
    BY <1>3, SameGrouped
  <2>2. SpentInv'
    BY <1>3 DEF SpentInv, GroupUtxos
  <2> QED BY <1>1, <2>1, <2>2
<1> QED BY <1>2, <1>3

LEMMA BuiltIsSound ==
    ASSUME ListInv, BuildInv, step = "locks", toRead = {}, UNCHANGED <<reading, groups>>,
           NEW n, NEW enlarged \in BOOLEAN, BuiltWith(n, enlarged)
    PROVE  (SummaryTrue /\ OthersReturned /\ SpentInv /\ SharedOnlyIfEnlarged)'
<1> DEFINE fees == FeeInputs(n, enlarged)
           N == Len(txs)
<1>1. /\ N \in Nat /\ DOMAIN txs = 1..N /\ DOMAIN txs' = 1..(N + 1)
      /\ \A k \in DOMAIN txs : txs'[k] = txs[k]
      /\ txs'[N + 1].cells = found /\ txs'[N + 1].inputs = BtcInputs \cup fees
      /\ txs'[N + 1].amount = XudtAmount(Current) /\ txs'[N + 1].enlarged = enlarged
      /\ txs'[N + 1].outputs = CkbOutputs /\ txs'[N + 1].tos = Tos
  BY TxAppended DEF ListInv
<1>2. fees \subseteq FeeUtxo /\ FeeUtxo \subseteq Utxo /\ (~ enlarged => fees \cap usedBtcUtxos = {})
  BY FeesAreFree
<1>3. usedBtcUtxos' = usedBtcUtxos \cup UsedFrom(fees) /\ ~ CkbRefused
  BY DEF BuiltWith
<1> HIDE DEF fees, N
<1>4. /\ fees \subseteq UsedFrom(fees) /\ BtcInputs \subseteq GroupUtxos(Current)
      /\ BtcInputs \cap FeeUtxo = {}
  BY <1>2, FeesAreUsed DEF BuildInv
<1>5. UNCHANGED <<rgbppGroups, cellsMap, groups>>
  BY DEF reading
<1>6. \A k \in DOMAIN txs' : k \in DOMAIN txs \/ k = N + 1
  BY <1>1
<1>7. Current = groups[N + 1] /\ N + 1 \in DOMAIN groups
  BY CurrentIsGroup DEF Current, BuildInv, LocksInv, N
<1>8. \A k : GroupUtxos(groups[k])' = GroupUtxos(groups[k]) /\ Summarized(groups[k])' = Summarized(groups[k])
  BY <1>5 DEF GroupUtxos, Summarized
<1>9. found \in SUBSET Cell /\ found \subseteq KnownCells
  BY <1>3 DEF ListInv, TypeInv, CkbRefused, Unexpected
<1>10. SummaryTrue'
  <2>1. found = Summarized(Current)
    BY <1>9, FoundIsSummary DEF BuildInv
  <2>2. XudtAmount(Current) = Total(Targets(found))
    <3>1. XudtAmount(Current) = Total(SameArgs(found))
      BY <2>1 DEF XudtAmount
    <3>2. Targets(found) \subseteq SameArgs(found)
      BY DEF Targets, SameArgs
    <3>3. Total(Targets(found)) <= Total(SameArgs(found))
      BY <3>2, TotalMonotone
    <3>4. ~ (Total(Targets(found)) < XudtAmount(Current))
      BY <1>3 DEF CkbRefused
    <3>5. Total(Targets(found)) \in Nat /\ Total(SameArgs(found)) \in Nat
      BY TotalNat
    <3> QED BY <3>1, <3>3, <3>4, <3>5
  <2> SUFFICES ASSUME NEW k \in DOMAIN txs'
               PROVE  /\ txs'[k].cells = Summarized(groups[k])'
                      /\ txs'[k].amount = Total(Targets(txs'[k].cells))
    BY DEF SummaryTrue, Total, Targets
  <2>3. CASE k \in DOMAIN txs
    BY <1>1, <1>8, <2>3 DEF BuildInv, SummaryTrue
  <2>4. CASE k = N + 1
    BY <1>1, <1>7, <1>8, <2>1, <2>2, <2>4
  <2> QED BY <1>6, <2>3, <2>4
<1>11. OthersReturned'
  <2>1. \A i \in DOMAIN CkbOutputs : CkbOutputs[i] \in Cell => Tos[i] = Owner[Bound[CkbOutputs[i]]]
    BY <1>3, <1>9, OutputsReturned DEF CkbRefused
  <2> SUFFICES ASSUME NEW k \in DOMAIN txs', NEW i \in DOMAIN txs'[k].outputs,
                      txs'[k].outputs[i] \in Cell
               PROVE  txs'[k].tos[i] = Owner[Bound[txs'[k].outputs[i]]]
    BY DEF OthersReturned
  <2>2. CASE k \in DOMAIN txs
    BY <1>1, <2>2 DEF BuildInv, OthersReturned
  <2>3. CASE k = N + 1
    BY <1>1, <2>1, <2>3
  <2> QED BY <1>6, <2>2, <2>3
<1>12. SpentInv'
  <2> SUFFICES ASSUME NEW k \in DOMAIN txs'
               PROVE  /\ txs'[k].inputs \ FeeUtxo \subseteq GroupUtxos(groups[k])'
                      /\ txs'[k].inputs \cap FeeUtxo \subseteq usedBtcUtxos'
    BY DEF SpentInv, FeeUtxo
  <2>1. CASE k \in DOMAIN txs
    BY <1>1, <1>3, <1>8, <2>1 DEF BuildInv, SpentInv
  <2>2. CASE k = N + 1
    BY <1>1, <1>2, <1>3, <1>4, <1>7, <1>8, <2>2
  <2> QED BY <1>6, <2>1, <2>2
<1>13. SharedOnlyIfEnlarged'
  <2> SUFFICES ASSUME NEW k \in DOMAIN txs', NEW m \in DOMAIN txs', k < m,
                      txs'[k].inputs \cap txs'[m].inputs # {}
               PROVE  txs'[m].enlarged
    BY DEF SharedOnlyIfEnlarged
  <2>1. k \in DOMAIN txs
    BY <1>1
  <2>2. CASE m \in DOMAIN txs
    BY <1>1, <2>1, <2>2 DEF BuildInv, SharedOnlyIfEnlarged
  <2>3. CASE m = N + 1
    <3>1. SUFFICES ASSUME ~ enlarged PROVE FALSE
      BY <1>1, <2>3
    <3>2. PICK x : x \in txs[k].inputs /\ x \in BtcInputs \cup fees
      BY <1>1, <2>1, <2>3
    <3>3. /\ txs[k].inputs \ FeeUtxo \subseteq GroupUtxos(groups[k])
          /\ txs[k].inputs \cap FeeUtxo \subseteq usedBtcUtxos
      BY <2>1 DEF BuildInv, SpentInv
    <3>4. CASE x \in fees
      BY <1>2, <3>1, <3>2, <3>3, <3>4
    <3>5. CASE x \in BtcInputs
      <4>1. x \in GroupUtxos(groups[k]) /\ x \in GroupUtxos(groups[N + 1])
        BY <1>4, <1>7, <3>2, <3>3, <3>5
      <4>2. PICK i \in groups[k], j \in groups[N + 1] : rgbppGroups[i] = x /\ rgbppGroups[j] = x
        BY <4>1 DEF GroupUtxos
      <4>3. /\ Len(groups) \in Nat /\ Len(txs) < Len(groups) /\ DOMAIN groups = 1..Len(groups)
            /\ \A h \in DOMAIN groups : groups[h] \in SUBSET Index
        BY DEF ListInv, GroupInv, Grouped, BuildInv, LocksInv
      <4>4. k \in DOMAIN groups /\ k # N + 1
        BY <1>1, <2>1, <4>3 DEF N
      <4>5. i = j
        BY <1>7, <4>2, <4>3, <4>4 DEF ListInv, ReadInv
      <4> QED BY <1>7, <4>2, <4>4, <4>5 DEF ListInv, GroupInv, Grouped
    <3> QED BY <3>2, <3>4, <3>5
  <2> QED BY <1>6, <2>2, <2>3
<1> QED BY <1>10, <1>11, <1>12, <1>13

LEMMA BuildNext ==
    ASSUME ListInv, BuildInv, [Next]_vars
    PROVE  BuildInv'
<1> DEFINE Kept == UNCHANGED <<txs, usedBtcUtxos>> /\ (groups = <<>> \/ UNCHANGED <<groups, rgbppGroups, cellsMap>>)
<1>1. ASSUME Kept, step' # "locks" PROVE BuildInv'
  BY <1>1, TxsKept DEF BuildInv, LocksInv
<1>2. ASSUME UNCHANGED <<step, toRead, found, txs, groups, rgbppGroups, cellsMap, usedBtcUtxos>>
      PROVE  BuildInv'
  <2>1. LocksInv'
    BY <1>2, SameGrouped DEF LocksInv, BuildInv
  <2> QED BY <1>2, <2>1, TxsKept DEF BuildInv
<1>3. CASE UNCHANGED vars
  BY <1>2, <1>3 DEF vars, world, listing, reading, building
<1>4. CASE ServiceFails
  BY <1>1, <1>4 DEF ServiceFails, reading, building
<1>5. ASSUME NEW a \in AssetAddress, ListAssets(a) \/ ListUtxos(a) PROVE BuildInv'
  BY <1>1, <1>5 DEF ListAssets, ListUtxos, Answered, reading, building, ListInv, GroupInv
<1>6. ASSUME NEW u \in Utxo, ReadCells(u) PROVE BuildInv'
  BY <1>1, <1>6 DEF ReadCells, building, ListInv, GroupInv
<1>7. CASE Relocate
  BY <1>1, <1>7 DEF Relocate, building, ListInv, GroupInv
<1>8. CASE StartGroup
  <2>1. step = "groups" /\ Len(txs) < Len(groups) /\ UNCHANGED <<reading, groups, usedBtcUtxos, txs>>
    BY <1>8 DEF StartGroup, Fails, building
  <2>2. CASE step' = "failed"
    BY <1>1, <2>1, <2>2 DEF reading
  <2>3. CASE step' # "failed"
    <3>1. toRead' = Current /\ found' = {} /\ UNCHANGED <<txs, groups, rgbppGroups, cellsMap>>
      BY <1>8, <2>1, <2>3 DEF StartGroup, Fails, reading
    <3>2. Current' = Current
      BY <3>1 DEF Current
    <3>3. LocksInv'
      BY <2>1, <3>1, <3>2 DEF LocksInv
    <3> QED BY <2>1, <3>1, <3>3, TxsKept DEF BuildInv
  <2> QED BY <2>2, <2>3
<1>9. CASE ReadLock
  <2>1. step = "locks" /\ toRead # {} /\ UNCHANGED <<world, reading, groups, usedBtcUtxos, txs>>
    BY <1>9 DEF ReadLock, Fails, building
  <2>2. CASE step' = "failed"
    BY <1>1, <2>1, <2>2 DEF reading
  <2>3. CASE step' # "failed"
    <3> DEFINE i == CHOOSE i \in toRead : \A j \in toRead : i <= j
               here == CellsOf(rgbppGroups[i])
    <3>1. toRead' = toRead \ {i} /\ found' = found \cup here /\ Targets(here) # {} /\ step' = step
      BY <1>9, <2>3 DEF ReadLock, Fails
    <3>2. Current \in SUBSET Index /\ toRead \subseteq Current /\ \A j \in Current : rgbppGroups[j] \in Utxo
      BY <2>1, CurrentIsGroup DEF BuildInv, LocksInv
    <3>3. i \in toRead
      <4>1. toRead \in SUBSET Nat
        BY <3>2 DEF ListInv, TypeInv, Index
      <4>2. \E x \in toRead : \A y \in toRead : x <= y
        BY <2>1, <4>1, LeastExists
      <4> QED BY <4>2
    <3> HIDE DEF i
    <3>4. UNCHANGED <<txs, groups, rgbppGroups, cellsMap, Current>>
      BY <2>1 DEF reading, Current
    <3>5. cellsMap[rgbppGroups[i]] \subseteq here
      <4>1. CellsOf(rgbppGroups[i]) # {} /\ rgbppGroups[i] \in Utxo
        BY <3>1, <3>2, <3>3 DEF Targets
      <4> QED BY <4>1 DEF ListInv, ReadInv, CellsOf
    <3>6. \A c \in here : Bound[c] = rgbppGroups[i]
      BY DEF CellsOf
    <3>7. \E c \in here : Bound[c] = rgbppGroups[i]
      BY <3>1, <3>6 DEF Targets
    <3> HIDE DEF here
    <3>8. LocksInv'
      <4>1. Len(txs) < Len(groups)
        BY <2>1 DEF BuildInv, LocksInv
      <4>2. \A j \in Current \ toRead' : j \in Current \ toRead \/ j = i
        BY <3>1
      <4>3. \A j \in Current \ toRead' : /\ cellsMap[rgbppGroups[j]] \subseteq found'
                                         /\ \E c \in found' : Bound[c] = rgbppGroups[j]
        BY <2>1, <3>1, <3>5, <3>7, <4>2 DEF BuildInv, LocksInv
      <4>4. \A c \in found' : \E j \in Current \ toRead' : Bound[c] = rgbppGroups[j]
        <5> TAKE c \in found'
        <5>1. CASE c \in found
          <6>1. PICK j \in Current \ toRead : Bound[c] = rgbppGroups[j]
            BY <2>1, <5>1 DEF BuildInv, LocksInv
          <6> QED BY <3>1, <6>1
        <5>2. CASE c \in here
          BY <3>1, <3>2, <3>3, <3>6, <5>2
        <5> QED BY <3>1, <5>1, <5>2
      <4> QED BY <3>1, <3>2, <3>4, <4>1, <4>3, <4>4 DEF LocksInv
    <3> QED BY <2>1, <3>4, <3>8, TxsKept DEF BuildInv
  <2> QED BY <2>2, <2>3
<1>10. CASE BuildGroup
  <2>1. /\ step = "locks" /\ toRead = {} /\ step' # "locks" /\ UNCHANGED <<reading, groups>>
        /\ \/ UNCHANGED building
           \/ \E n \in 0..MaxFeeInputs, enlarged \in BOOLEAN : BuiltWith(n, enlarged)
    BY <1>10, BuildCases DEF BuiltWith
  <2>2. CASE UNCHANGED building
    BY <1>1, <2>1, <2>2 DEF building, reading
  <2>3. ASSUME NEW n \in 0..MaxFeeInputs, NEW enlarged \in BOOLEAN, BuiltWith(n, enlarged)
        PROVE  BuildInv'
    <3>1. (SummaryTrue /\ OthersReturned /\ SpentInv /\ SharedOnlyIfEnlarged)'
      BY <2>1, <2>3, BuiltIsSound
    <3>2. LocksInv'
      BY <2>1 DEF LocksInv
    <3> QED BY <3>1, <3>2 DEF BuildInv
  <2> QED BY <2>1, <2>2, <2>3
<1>11. CASE Summarize
  BY <1>1, <1>11 DEF Summarize, reading, building
<1>12. CASE Rival
  BY <1>2, <1>12, RivalFacts DEF reading, building, ListInv
<1> QED BY <1>3, <1>4, <1>5, <1>6, <1>7, <1>8, <1>9, <1>10, <1>11, <1>12 DEF Next, Rival
-----------------------------------------------------------------------------
(* Why the call fails.                                                     *)

LEMMA QuietNext ==
    ASSUME ListInv, LocksInv, QuietInv, [Next]_vars
    PROVE  QuietInv'
<1>1. CASE Rival
  BY <1>1, RivalFacts DEF QuietInv, ListInv
<1>2. CASE UNCHANGED world /\ moves # 0
  BY <1>2 DEF QuietInv, world
<1>3. CASE moves = 0
  <2>1. /\ unspent = Utxo
        /\ \A u \in utxoIds : Owner[u] \in AssetAddress /\ Targets(CellsOf(u)) # {}
        /\ step = "utxos" => \A u \in utxoIds : Owner[u] \in pending \/ u \in utxoMap
        /\ step \in {"cells", "groups", "locks"} => utxoIds \subseteq utxoMap
        /\ \A i \in Index : cellsMap[rgbppGroups[i]] = CellsOf(rgbppGroups[i])
        /\ step = "locks" => found \subseteq cells /\ found \subseteq KnownCells
    BY <1>3 DEF QuietInv
  <2>2. ASSUME UNCHANGED <<world, utxoIds, utxoMap, rgbppGroups, cellsMap>>,
               step' \notin {"assets", "utxos"},
               step' \in {"cells", "groups", "locks"} => step \in {"cells", "groups", "locks"},
               step' = "locks" => found' \subseteq cells /\ found' \subseteq KnownCells
        PROVE  QuietInv'
    <3>1. UNCHANGED <<unspent, cells, moves>> /\ \A u : UNCHANGED CellsOf(u)
      BY <2>2 DEF world, CellsOf
    <3>2. UNCHANGED <<Index, KnownCells>>
      BY <2>2, SameGrouped
    <3>3. \A u : UNCHANGED Targets(CellsOf(u))
      BY <3>1 DEF Targets, CellsOf
    <3> QED BY <2>1, <2>2, <3>1, <3>2, <3>3 DEF QuietInv
  <2>3. CASE UNCHANGED vars
    BY <2>3 DEF QuietInv, vars, world, listing, reading, building, CellsOf, Targets, Index,
                KnownCells, GroupUtxos
  <2>4. CASE ServiceFails
    BY <2>2, <2>4 DEF ServiceFails, listing, reading
  <2>5. ASSUME NEW a \in AssetAddress, ListAssets(a) PROVE QuietInv'
    <3>1. /\ step = "assets" /\ UNCHANGED <<unspent, cells, moves, utxoMap, cellsMap, rgbppGroups>>
          /\ \/ step' = "utxos" /\ pending' = AssetAddress
             \/ step' = "assets"
          /\ utxoIds' = utxoIds \cup {u \in unspent : Owner[u] = a
                                          /\ \E c \in CellsOf(u) : Type[c] = "target"}
      BY <2>5 DEF ListAssets, Answered, world, reading
    <3>2. rgbppGroups = <<>>
      BY <3>1 DEF ListInv, ReadInv
    <3>3. Index' = {}
      BY <3>1, <3>2 DEF Index
    <3>4. \A u \in utxoIds' : Owner[u] \in AssetAddress /\ Targets(CellsOf(u))' # {}
      BY <2>1, <3>1 DEF Targets, CellsOf
    <3>5. step' = "utxos" => \A u \in utxoIds' : Owner[u] \in pending'
      BY <3>1, <3>4
    <3> QED BY <2>1, <3>1, <3>3, <3>4, <3>5 DEF QuietInv
  <2>6. ASSUME NEW a \in AssetAddress, ListUtxos(a) PROVE QuietInv'
    <3>1. /\ step = "utxos" /\ UNCHANGED <<unspent, cells, moves, utxoIds, cellsMap, rgbppGroups>>
          /\ \/ step' = "cells" /\ pending = {a}
             \/ step' = "utxos" /\ pending' = pending \ {a}
          /\ utxoMap' = utxoMap \cup {u \in utxoIds \cap unspent : Owner[u] = a}
      BY <2>6 DEF ListUtxos, Answered, world
    <3>2. rgbppGroups = <<>> /\ utxoIds \subseteq Utxo
      BY <3>1 DEF ListInv, ReadInv, TypeInv
    <3>3. Index' = {}
      BY <3>1, <3>2 DEF Index
    <3>4. \A u \in utxoIds' : Owner[u] \in AssetAddress /\ Targets(CellsOf(u))' # {}
      BY <2>1, <3>1 DEF Targets, CellsOf
    <3>5. \A u \in utxoIds : Owner[u] = a \/ u \in utxoMap => u \in utxoMap'
      BY <2>1, <3>1, <3>2
    <3>6. step' = "utxos" => \A u \in utxoIds' : Owner[u] \in pending' \/ u \in utxoMap'
      BY <2>1, <3>1, <3>5
    <3>7. step' = "cells" => utxoIds' \subseteq utxoMap'
      BY <2>1, <3>1, <3>5
    <3> QED BY <2>1, <3>1, <3>3, <3>4, <3>6, <3>7 DEF QuietInv
  <2>7. ASSUME NEW u \in Utxo, ReadCells(u) PROVE QuietInv'
    <3>1. /\ step = "cells" /\ step' = "cells" /\ u \in unread
          /\ UNCHANGED <<unspent, cells, moves, utxoIds, utxoMap>>
          /\ cellsMap' = [cellsMap EXCEPT ![u] = CellsOf(u)]
          /\ rgbppGroups' = rgbppGroups \/ rgbppGroups' = Append(rgbppGroups, u)
      BY <2>7 DEF ReadCells, world, listing
    <3>2. /\ rgbppGroups \in Seq(Utxo) /\ Index = 1..Len(rgbppGroups) /\ Len(rgbppGroups) \in Nat
          /\ \A i \in Index : rgbppGroups[i] \in Utxo
      BY DEF ListInv, TypeInv, Index
    <3>3. \A i \in Index : rgbppGroups[i] # u
      BY <3>1 DEF ListInv, ReadInv, GroupUtxos
    <3>4. \A w : UNCHANGED CellsOf(w)
      BY <3>1 DEF CellsOf
    <3>5. /\ cellsMap'[u] = CellsOf(u) /\ \A w \in Utxo : w # u => cellsMap'[w] = cellsMap[w]
      BY <3>1 DEF ListInv, TypeInv
    <3>6. \A i \in Index' : (i \in Index /\ rgbppGroups'[i] = rgbppGroups[i]) \/ rgbppGroups'[i] = u
      BY <3>1, <3>2 DEF Index
    <3>7. \A i \in Index' : cellsMap'[rgbppGroups'[i]] = CellsOf(rgbppGroups'[i])
      BY <2>1, <3>2, <3>3, <3>5, <3>6
    <3>8. \A i \in Index' : cellsMap'[rgbppGroups'[i]] = CellsOf(rgbppGroups[i])'
      BY <3>1, <3>7 DEF CellsOf
    <3>9. \A w : UNCHANGED Targets(CellsOf(w))
      BY <3>1 DEF Targets, CellsOf
    <3> QED BY <2>1, <3>1, <3>8, <3>9 DEF QuietInv
  <2>8. CASE Relocate
    BY <2>2, <2>8 DEF Relocate, listing, reading
  <2>9. CASE StartGroup
    <3>1. /\ UNCHANGED <<world, utxoIds, utxoMap, rgbppGroups, cellsMap>> /\ step = "groups"
          /\ step' = "failed" \/ (step' = "locks" /\ found' = {})
      BY <2>9 DEF StartGroup, Fails, listing, reading
    <3> QED BY <2>2, <3>1
  <2>10. CASE ReadLock
    <3>1. /\ UNCHANGED <<world, utxoIds, utxoMap, rgbppGroups, cellsMap>>
          /\ step = "locks" /\ step' \in {"failed", "locks"}
      BY <2>10 DEF ReadLock, Fails, listing, reading
    <3>2. CASE step' = "failed"
      BY <2>2, <3>1, <3>2
    <3>3. CASE step' = "locks"
      <4> DEFINE i == CHOOSE i \in toRead : \A j \in toRead : i <= j
                 here == CellsOf(rgbppGroups[i])
      <4>1. toRead # {} /\ found' = found \cup here
        BY <2>10, <3>3 DEF ReadLock, Fails
      <4>2. i \in toRead
        <5>1. toRead \in SUBSET Nat
          BY <3>1, CurrentIsGroup DEF LocksInv, ListInv, TypeInv, Index
        <5>2. \E x \in toRead : \A y \in toRead : x <= y
          BY <4>1, <5>1, LeastExists
        <5> QED BY <5>2
      <4>3. i \in Index
        BY <3>1, <4>2, CurrentIsGroup DEF LocksInv
      <4> HIDE DEF i
      <4>4. here \subseteq cells /\ here \subseteq KnownCells
        BY <2>1, <4>3 DEF KnownCells, GroupUtxos, CellsOf
      <4> QED BY <2>1, <2>2, <3>1, <3>3, <4>1, <4>4
    <3> QED BY <3>1, <3>2, <3>3
  <2>11. CASE BuildGroup
    <3>1. UNCHANGED <<world, utxoIds, utxoMap, rgbppGroups, cellsMap>>
      BY <2>11, BuildCases DEF listing, reading
    <3>2. step = "locks" /\ step' \in {"failed", "insufficient", "groups"}
      BY <2>11, BuildCases DEF BuiltWith
    <3> QED BY <2>2, <3>1, <3>2
  <2>12. CASE Summarize
    BY <2>2, <2>12 DEF Summarize, listing, reading
  <2> QED BY <1>1, <2>3, <2>4, <2>5, <2>6, <2>7, <2>8, <2>9, <2>10, <2>11, <2>12 DEF Next, Rival
<1>4. CASE Next /\ ~ Rival
  <2>1. UNCHANGED world
    BY <1>4, BuildCases DEF Next, Rival, ServiceFails, ListAssets, ListUtxos, ReadCells, Relocate, StartGroup,
            ReadLock, Summarize
  <2> QED BY <1>2, <1>3, <2>1
<1>5. CASE UNCHANGED vars
  BY <1>2, <1>3, <1>5 DEF vars
<1> QED BY <1>1, <1>4, <1>5

LEMMA FailsNext ==
    ASSUME IInv, [Next]_vars
    PROVE  FailsForAReason'
<1> USE DEF IInv
<1>1. moves' \in Nat
  BY ListNext DEF BuildInv, ListInv, TypeInv
<1>2. SUFFICES ASSUME step' \in {"failed", "unsummarized"}, moves' = 0,
                      \A c \in KnownCells' : Type[c] # "twin"
               PROVE  FALSE
  BY <1>1 DEF FailsForAReason
<1>3. CASE UNCHANGED vars
  <2>1. UNCHANGED KnownCells /\ UNCHANGED <<step, moves>>
    BY <1>3, SameGrouped DEF vars, reading, world
  <2> QED BY <1>2, <2>1 DEF FailsForAReason
<1>4. ~ Rival
  BY <1>2, RivalFacts DEF ListInv
<1>5. CASE \/ ServiceFails \/ Relocate \/ \E u \in Utxo : ReadCells(u)
           \/ \E a \in AssetAddress : ListAssets(a) \/ ListUtxos(a)
  BY <1>2, <1>5 DEF ServiceFails, Relocate, ReadCells, ListAssets, ListUtxos, Answered
<1>6. CASE StartGroup \/ ReadLock \/ BuildGroup \/ Summarize
  <2>1. step \in {"groups", "locks"} /\ UNCHANGED <<world, rgbppGroups, cellsMap>>
    BY <1>6, BuildCases DEF StartGroup, Fails, ReadLock, Summarize, reading
  <2>2. /\ moves = 0 /\ \A c \in KnownCells : Type[c] # "twin"
    <3>1. UNCHANGED KnownCells
      BY <2>1, SameGrouped
    <3> QED BY <1>2, <2>1, <3>1 DEF world
  <2>3. /\ unspent = Utxo /\ utxoIds \subseteq utxoMap
        /\ \A u \in utxoIds : Targets(CellsOf(u)) # {}
        /\ \A i \in Index : cellsMap[rgbppGroups[i]] = CellsOf(rgbppGroups[i])
        /\ step = "locks" => found \subseteq cells /\ found \subseteq KnownCells
    BY <2>1, <2>2 DEF QuietInv
  <2>4. \A i \in Index : rgbppGroups[i] \in utxoIds /\ Targets(cellsMap[rgbppGroups[i]]) # {}
    <3> TAKE i \in Index
    <3>1. rgbppGroups[i] \in GroupUtxos(Index)
      BY DEF GroupUtxos
    <3>2. rgbppGroups[i] \in utxoIds
      BY <2>1, <3>1 DEF ListInv, ReadInv
    <3> QED BY <2>3, <3>2
  <2>5. CASE StartGroup
    <3>1. SameArgs(Summarized(Current)) = {} /\ Len(txs) < Len(groups)
      BY <1>2, <2>5 DEF StartGroup
    <3>2. PICK i \in Current : i \in Index
      BY <3>1, CurrentIsGroup
    <3>3. PICK c \in cellsMap[rgbppGroups[i]] : Type[c] = "target"
      BY <2>4, <3>2 DEF Targets
    <3>4. c \in SameArgs(Summarized(Current))
      BY <3>2, <3>3 DEF SameArgs, Summarized, GroupUtxos
    <3> QED BY <3>1, <3>4
  <2>6. CASE ReadLock
    <3> DEFINE i == CHOOSE i \in toRead : \A j \in toRead : i <= j
               here == CellsOf(rgbppGroups[i])
    <3>1. /\ step = "locks" /\ toRead # {}
          /\ Targets(here) = {} \/ \E c \in here : Type[c] = "unsupported"
      BY <1>2, <2>6 DEF ReadLock
    <3>2. toRead \subseteq Index /\ Index \subseteq Nat
      BY <3>1, CurrentIsGroup DEF LocksInv, BuildInv, ListInv, TypeInv, Index
    <3>3. i \in Index
      <4>1. \E x \in toRead : \A y \in toRead : x <= y
        BY <3>1, <3>2, LeastExists
      <4> QED BY <3>2, <4>1
    <3> HIDE DEF i
    <3>4. here = cellsMap[rgbppGroups[i]]
      BY <2>3, <3>3
    <3> HIDE DEF here
    <3>5. \A c \in here : Type[c] # "unsupported"
      BY <3>3, <3>4 DEF ListInv, ReadInv
    <3> QED BY <2>4, <3>1, <3>3, <3>4, <3>5
  <2>7. CASE BuildGroup
    <3>1. step = "locks" /\ toRead = {} /\ (CkbRefused \/ ~ (found \subseteq cells))
      BY <1>2, <2>7, BuildCases DEF BuiltWith
    <3>2. found \subseteq cells /\ found \subseteq KnownCells /\ found \in SUBSET Cell
      BY <2>3, <3>1 DEF ListInv, TypeInv
    <3>3. found = Summarized(Current)
      BY <3>1, <3>2, FoundIsSummary DEF BuildInv
    <3>4. SameArgs(found) = Targets(found)
      BY <2>2, <3>2 DEF SameArgs, Targets
    <3>5. XudtAmount(Current) = Total(Targets(found)) /\ Total(Targets(found)) \in Nat
      BY <3>3, <3>4, TotalNat DEF XudtAmount
    <3>6. Cardinality(Targets(found)) <= MaxCells
      <4>1. Current \in SUBSET Index /\ Load(Current) <= MaxCells
        BY <3>1, CurrentIsGroup DEF BuildInv, LocksInv
      <4>2. Readable
        BY DEF Readable, ListInv, TypeInv, ReadInv, CellCount
      <4>3. Cardinality(found) <= Load(Current) /\ Load(Current) \in Nat
        BY <3>3, <4>1, <4>2, SummarizedFits, LoadNat
      <4>4. Targets(found) \in SUBSET found
        BY DEF Targets
      <4>5. IsFiniteSet(found) /\ Cardinality(found) \in Nat
        BY <3>2, CellsFinite
      <4>6. Cardinality(Targets(found)) <= Cardinality(found) /\ Cardinality(Targets(found)) \in Nat
        BY <4>4, <4>5, FS_Subset, FS_CardinalityType
      <4> QED BY <4>1, <4>3, <4>5, <4>6, LimitAssumption
    <3>7. Len(CkbOutputs) = Len(NonTargetTos) + 1
      <4> DEFINE o == InOrder(Others)
      <4>1. o \in Seq(Cell) /\ Len(o) = Len(NonTargetTos) /\ Len(o) \in Nat
        BY <3>2, TosPerCell
      <4>2. CkbOutputs = <<Receiver>> \o o
        BY <3>5 DEF CkbOutputs, Others
      <4> HIDE DEF o
      <4> QED BY <4>1, <4>2
    <3>8. ~ Unexpected
      BY <3>2, <3>7 DEF Unexpected
    <3>9. MaxCells \in Nat /\ Cardinality(Targets(found)) \in Nat
      <4>1. Targets(found) \in SUBSET Cell
        BY <3>2 DEF Targets
      <4> QED BY <4>1, CellsFinite, LimitAssumption
    <3> QED BY <3>1, <3>2, <3>5, <3>6, <3>8, <3>9 DEF CkbRefused
  <2>8. CASE Summarize
    BY <1>2, <2>3, <2>8 DEF Summarize, ListInv, TypeInv
  <2> QED BY <1>6, <2>5, <2>6, <2>7, <2>8
<1> QED BY <1>3, <1>4, <1>5, <1>6 DEF Next, Rival
-----------------------------------------------------------------------------
(* The theorems.                                                           *)

LEMMA IInvNext == IInv /\ [Next]_vars => IInv'
<1> SUFFICES ASSUME IInv, [Next]_vars PROVE IInv'
  OBVIOUS
<1>1. ListInv'
  BY ListNext DEF IInv, BuildInv
<1>2. BuildInv'
  BY BuildNext DEF IInv
<1>3. QuietInv'
  BY QuietNext DEF IInv, BuildInv
<1>4. FailsForAReason'
  BY FailsNext
<1> QED BY <1>1, <1>2, <1>3, <1>4 DEF IInv

\* The invariant of this module holds in every state that a call of
\* buildRgbppTransferAllTxs and the others' steps can reach.
THEOREM InvariantHolds == Spec => []IInv
<1> QED BY InitIInv, IInvNext, PTL DEF Spec

LEMMA IInvPartitions == IInv => GroupsPartition
<1> SUFFICES ASSUME IInv, step \in {"groups", "locks", "done"}
             PROVE  /\ utxoIds \ invalidUtxoIds = GroupUtxos(Index)
                    /\ \A i \in Index : Cardinality({k \in DOMAIN groups : i \in groups[k]}) = 1
                    /\ \A k \in DOMAIN groups : Load(groups[k]) <= MaxCells
  BY DEF GroupsPartition
<1>1. unread = {} /\ \A i \in Index : \E k \in DOMAIN groups : i \in groups[k]
  BY DEF IInv, ListInv, GroupInv
<1>2. utxoIds \ invalidUtxoIds = GroupUtxos(Index)
  BY <1>1 DEF IInv, ListInv, ReadInv
<1>3. ASSUME NEW i \in Index PROVE Cardinality({k \in DOMAIN groups : i \in groups[k]}) = 1
  <2>1. PICK k \in DOMAIN groups : i \in groups[k]
    BY <1>1
  <2>2. {h \in DOMAIN groups : i \in groups[h]} = {k}
    BY <2>1 DEF IInv, ListInv, GroupInv, Grouped
  <2> QED BY <2>2, FS_Singleton
<1> QED BY <1>2, <1>3 DEF IInv, ListInv, GroupInv, Grouped

\* Every UTXO that was listed is excluded or in exactly one group, and every group fits
\* into a transaction, in whatever order the answers arrive (groupNumbersBySum).
THEOREM EveryUtxoHasItsGroup == Spec => []GroupsPartition
<1> QED BY InvariantHolds, IInvPartitions, PTL

\* A transaction takes all the cells that its summary lists and no other, and gives the
\* receiver all of the target's amount, although the summary's cells were read earlier.
THEOREM SummariesHold == Spec => []SummaryTrue
<1>1. IInv => SummaryTrue
  BY DEF IInv, BuildInv
<1> QED BY <1>1, InvariantHolds, PTL

\* Every other cell goes back to the address that owned its UTXO (nonTargetTos).
THEOREM OtherCellsReturn == Spec => []OthersReturned
<1>1. IInv => OthersReturned
  BY DEF IInv, BuildInv
<1> QED BY <1>1, InvariantHolds, PTL

\* Two transactions of one call spend a UTXO twice only if the later enlarged its change.
THEOREM SpentOnce == Spec => []SharedOnlyIfEnlarged
<1>1. IInv => SharedOnlyIfEnlarged
  BY DEF IInv, BuildInv
<1> QED BY <1>1, InvariantHolds, PTL

\* If nobody else moves and no known cell is a twin, the call does not fail.
THEOREM FailureHasAReason == Spec => []FailsForAReason
<1>1. IInv => FailsForAReason
  BY DEF IInv
<1> QED BY <1>1, InvariantHolds, PTL
=============================================================================
