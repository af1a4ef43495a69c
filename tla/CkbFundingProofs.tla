-------------------------- MODULE CkbFundingProofs --------------------------
(***************************************************************************)
(* Proofs about CkbFunding, for any cells and any page size: the types,    *)
(* that a listing misses no cell that stays, that a call is refused only   *)
(* if the cells that stay do not suffice, that transactions balance, that  *)
(* no amount is lost, and that the outputs of prepared callers are viable. *)
(***************************************************************************)
EXTENDS CkbFunding, FiniteSetTheorems

LEMMA CellsAreNumbers ==
    /\ NumCell \in Nat /\ NumFirst \in 0..NumCell /\ PageSize \in Nat \ {0}
    /\ Cell = 1..NumCell /\ Cell \subseteq Nat /\ IsFiniteSet(Cell)
BY CellsAssumption, FS_Interval DEF Cell

\* A nonempty set of cells has a last cell.
LEMMA LastExists ==
    ASSUME NEW S \in SUBSET Cell, S # {}
    PROVE  \E c \in S : \A d \in S : d <= c
<1> DEFINE T == {n \in Nat : \A d \in S : d <= n}
<1>1. NumCell \in T
  BY CellsAreNumbers
<1>2. PICK m \in T : \A n \in T : m <= n
  <2> HIDE DEF T
  <2>1. T \in SUBSET Nat
    BY DEF T
  <2> QED BY <1>1, <2>1, LeastExists
<1>3. m \in S
  <2>1. SUFFICES ASSUME m \notin S PROVE FALSE
    OBVIOUS
  <2>2. \A d \in S : d \in Nat /\ d >= 1 /\ d <= m - 1
    BY <1>2, <2>1, CellsAreNumbers
  <2>3. m - 1 \in T
    BY <1>2, <2>2
  <2> QED BY <1>2, <2>3
<1> QED BY <1>2, <1>3

-----------------------------------------------------------------------------
(* Pages.                                                                  *)

LEMMA PageInBehind ==
    /\ Page \subseteq Behind /\ Behind \subseteq live /\ Behind \subseteq Searched
    /\ \A c \in Behind : c > cursor
    /\ \A c \in live \cap Searched : c > cursor => c \in Behind
BY DEF Page, Behind

\* A page holds every cell behind the cursor up to its last cell, ...
LEMMA PageIsDense ==
    ASSUME live \subseteq Cell, NEW c \in Page, NEW b \in Behind, b <= c
    PROVE  b \in Page
<1> DEFINE Before(e) == {d \in Behind : d < e}
<1>1. Behind \in SUBSET Cell /\ c \in Behind /\ b \in Nat /\ c \in Nat
  BY PageInBehind, CellsAreNumbers
<1>2. IsFiniteSet(Behind)
  BY <1>1, CellsAreNumbers, FS_Subset
<1>3. Before(c) \in SUBSET Behind /\ Before(b) \in SUBSET Before(c)
  <2>1. ASSUME NEW d \in Behind, d < b PROVE d < c
    BY <1>1, <2>1, CellsAreNumbers
  <2> QED BY <2>1
<1>4. IsFiniteSet(Before(c)) /\ Cardinality(Before(c)) \in Nat
  BY <1>2, <1>3, FS_Subset, FS_CardinalityType
<1>5. Cardinality(Before(b)) \in Nat /\ Cardinality(Before(b)) <= Cardinality(Before(c))
  BY <1>3, <1>4, FS_Subset, FS_CardinalityType
<1>6. Cardinality(Before(c)) < PageSize
  BY DEF Page
<1>7. Cardinality(Before(b)) < PageSize
  BY <1>4, <1>5, <1>6, CellsAreNumbers
<1> QED BY <1>7 DEF Page

\* ... and a page that is not full holds all of them.
LEMMA LastPageHoldsAll ==
    ASSUME live \subseteq Cell, LastPage
    PROVE  Behind \subseteq Page
<1>1. SUFFICES ASSUME Behind \ Page # {} PROVE FALSE
  OBVIOUS
<1>2. Behind \in SUBSET Cell /\ Page \in SUBSET Behind
  BY PageInBehind
<1>3. PICK c \in Behind \ Page : \A d \in Behind \ Page : c <= d
  <2>1. Behind \ Page \in SUBSET Nat
    BY <1>2, CellsAreNumbers
  <2> QED BY <1>1, <2>1, LeastExists
<1> DEFINE Before == {d \in Behind : d < c}
<1>4. Before \in SUBSET Page
  <2>1. ASSUME NEW d \in Before PROVE d \in Page
    <3>1. d \in Behind /\ d < c /\ d \in Nat /\ c \in Nat
      BY <1>2, CellsAreNumbers
    <3>2. ~ (c <= d)
      BY <3>1
    <3> QED BY <1>3, <3>1, <3>2
  <2> QED BY <2>1
<1>5. IsFiniteSet(Page)
  BY <1>2, CellsAreNumbers, FS_Subset
<1>6. /\ Cardinality(Page) \in Nat /\ Cardinality(Before) \in Nat
      /\ Cardinality(Before) <= Cardinality(Page)
  BY <1>4, <1>5, FS_Subset, FS_CardinalityType
<1>7. Cardinality(Before) < PageSize
  BY <1>6, CellsAreNumbers DEF LastPage
<1> QED BY <1>3, <1>7 DEF Page

-----------------------------------------------------------------------------
(* Sums.                                                                   *)

LEMMA TotalNat ==
    ASSUME NEW f \in [Cell -> Nat], NEW S
    PROVE  Total(f, S) \in Nat
<1> DEFINE g == [c \in Cell |-> IF c \in S THEN f[c] ELSE 0]
<1>1. \A k \in 1..NumCell : g[k] \in Nat
  BY CellsAreNumbers
<1> HIDE DEF g
<1>2. SumTo(g, NumCell) \in Nat
  BY <1>1, CellsAreNumbers, SumNat
<1> QED BY <1>2 DEF Total, g

LEMMA TotalMonotone ==
    ASSUME NEW f \in [Cell -> Nat], NEW S, NEW T, S \subseteq T
    PROVE  Total(f, S) <= Total(f, T)
<1> DEFINE g == [c \in Cell |-> IF c \in S THEN f[c] ELSE 0]
           h == [c \in Cell |-> IF c \in T THEN f[c] ELSE 0]
<1>1. \A k \in 1..NumCell : g[k] \in Int /\ h[k] \in Int /\ g[k] <= h[k]
  BY CellsAreNumbers
<1> HIDE DEF g, h
<1>2. SumTo(g, NumCell) <= SumTo(h, NumCell)
  BY <1>1, CellsAreNumbers, SumMonotone
<1> QED BY <1>2 DEF Total, g, h

\* The sum over a field of a sequence.
LEMMA SumOverSequence ==
    ASSUME NEW n \in Nat, NEW f \in [1..n -> Int]
    PROVE  Sum(f) = SumTo(f, n)
<1>1. f \in Seq(Int) /\ Len(f) = n
  OBVIOUS
<1> QED BY <1>1 DEF Sum

-----------------------------------------------------------------------------
(* What every step keeps.                                                  *)

\* The state before a transaction is built; a cell at or before the cursor that still
\* exists has been read.
Listing ==
    /\ tip \in NumFirst..NumCell /\ live \subseteq 1..tip
    /\ request \in Requests /\ step \in Steps
    /\ cursor \in 0..tip /\ answer \subseteq 1..tip /\ complete \in BOOLEAN
    /\ assets \subseteq 1..tip
    /\ step = "assets" => request.kind \in Moves
    /\ step = "funds" /\ request.kind \in Moves => assets # {} \/ request.amounts = <<>>
    /\ step \in {"assets", "funds"} =>
           \A c \in live \cap Searched : c <= cursor => c \in answer

ListInv == Listing /\ NothingMissed

LEMMA ListInit == Init => ListInv
<1> SUFFICES ASSUME Init PROVE ListInv
  OBVIOUS
<1>1. NumFirst \in NumFirst..NumCell /\ NumFirst \in Nat
  BY CellsAreNumbers
<1>2. \A c \in live \cap Searched : ~ (c <= cursor)
  BY <1>1 DEF Init
<1>3. /\ step \in Steps /\ complete = FALSE
      /\ step = "assets" => request.kind \in Moves
      /\ ~ (step = "funds" /\ request.kind \in Moves)
  BY DEF Init, Steps
<1>4. /\ live \subseteq 1..tip /\ request \in Requests /\ answer \subseteq 1..tip
      /\ cursor \in 0..tip /\ assets \subseteq 1..tip /\ tip \in NumFirst..NumCell
  BY <1>1 DEF Init
<1> QED BY <1>2, <1>3, <1>4 DEF ListInv, Listing, NothingMissed

LEMMA PageStep == ListInv /\ ReadPage => ListInv'
<1> SUFFICES ASSUME ListInv, ReadPage PROVE ListInv'
  OBVIOUS
<1>1. /\ live \subseteq Cell /\ tip \in Nat /\ cursor \in Nat /\ live \subseteq Nat
      /\ NumFirst \in Nat /\ 1..tip \subseteq Cell
  BY CellsAreNumbers DEF ListInv, Listing
<1>2. UNCHANGED <<live, tip, request, step, assets>> /\ Searched' = Searched
  BY DEF ReadPage, chain, Searched
<1>3. /\ cursor' \in 0..tip
      /\ \A c \in Page : c <= cursor'
      /\ Page # {} => cursor' \in Page
      /\ Page = {} => cursor' = cursor
  <2>1. CASE Page = {}
    BY <2>1, <1>1 DEF ReadPage, ListInv, Listing
  <2>2. CASE Page # {}
    <3>1. Page \in SUBSET Cell /\ Page \subseteq 1..tip
      BY <1>1, PageInBehind DEF ListInv, Listing
    <3>2. \E c \in Page : \A d \in Page : d <= c
      BY <2>2, <3>1, LastExists
    <3>3. cursor' = CHOOSE c \in Page : \A d \in Page : d <= c
      BY <2>2 DEF ReadPage
    <3>4. cursor' \in Page /\ \A d \in Page : d <= cursor'
      BY <3>2, <3>3
    <3> QED BY <2>2, <3>1, <3>4, <1>1
  <2> QED BY <2>1, <2>2
<1>4. answer' = answer \cup Page /\ answer' \subseteq 1..tip
  BY <1>1, PageInBehind DEF ReadPage, ListInv, Listing
<1>5. ASSUME NEW c \in live \cap Searched, c <= cursor' PROVE c \in answer'
  <2>1. CASE c <= cursor
    BY <2>1, <1>4 DEF ListInv, Listing, ReadPage
  <2>2. CASE ~ (c <= cursor)
    <3>1. c \in Behind
      BY <2>2, <1>1, PageInBehind
    <3>2. cursor' \in Page
      BY <2>2, <1>3, <1>5
    <3>3. c \in Page
      BY <3>1, <3>2, <1>1, <1>5, PageIsDense
    <3> QED BY <3>3, <1>4
  <2> QED BY <2>1, <2>2
<1>6. ASSUME complete', NEW c \in live \cap Searched PROVE c \in answer'
  <2>1. LastPage
    BY <1>6 DEF ReadPage
  <2>2. CASE c <= cursor
    BY <2>2, <1>4 DEF ListInv, Listing, ReadPage
  <2>3. CASE ~ (c <= cursor)
    <3>1. c \in Behind
      BY <2>3, <1>1, PageInBehind
    <3> QED BY <3>1, <2>1, <1>1, <1>4, LastPageHoldsAll
  <2> QED BY <2>2, <2>3
<1>7. complete' \in BOOLEAN
  BY DEF ReadPage, LastPage
<1>8. Listing'
  BY <1>2, <1>3, <1>4, <1>5, <1>7 DEF ListInv, Listing
<1>9. NothingMissed'
  BY <1>2, <1>6 DEF NothingMissed
<1> QED BY <1>8, <1>9 DEF ListInv

\* The end of a call changes nothing that the listing is about.
LEMMA EndStep ==
    ASSUME ListInv, UNCHANGED <<live, tip, request, cursor, answer, complete>>,
           assets' \subseteq 1..tip, step' \in {"built", "poor", "failed"}
    PROVE  ListInv'
BY DEF ListInv, Listing, NothingMissed, Steps

\* A move with receivers asks for something, ...
LEMMA AskedPositive ==
    ASSUME request \in Requests, request.amounts # <<>>
    PROVE  Asked \in Nat /\ Asked > 0
<1> DEFINE f == request.amounts
           n == Len(f) - 1
<1>1. n \in Nat /\ n + 1 = Len(f) /\ \A k \in 1..(n + 1) : f[k] \in Nat \ {0}
  <2>1. f \in Seq(Nat \ {0}) /\ f # <<>>
    BY RequestsAssumption
  <2> QED BY <2>1
<1>2. f[n + 1] \in Nat \ {0} /\ \A k \in 1..(n + 1) : f[k] \in Int
  BY <1>1
<1>3. SumTo(f, n) \in Nat
  <2>1. \A k \in 1..n : f[k] \in Nat
    BY <1>1
  <2> HIDE DEF f, n
  <2> QED BY <1>1, <2>1, SumNat
<1>4. SumTo(f, n + 1) = SumTo(f, n) + f[n + 1]
  <2> HIDE DEF f, n
  <2> QED BY <1>1, <1>2, SumOneMore
<1>5. Asked = SumTo(f, n + 1)
  BY <1>1 DEF Asked, Sum
<1> QED BY <1>2, <1>3, <1>4, <1>5

\* ... and then takes the first cell of the answer.
LEMMA ShortestNonempty ==
    ASSUME NEW f \in [Cell -> Nat], NEW S \in SUBSET Cell, S # {},
           NEW target \in Nat, target > 0
    PROVE  Shortest(f, S, target) # {}
<1>1. PICK c \in S : \A d \in S : c <= d
  <2>1. S \in SUBSET Nat
    BY CellsAreNumbers
  <2> QED BY <2>1, LeastExists
<1>2. {d \in S : d < c} = {}
  <2>1. ASSUME NEW d \in S, d < c PROVE FALSE
    BY <1>1, <2>1, CellsAreNumbers
  <2> QED BY <2>1
<1>3. Total(f, {}) = 0
  <2> DEFINE g == [k \in Cell |-> IF k \in {} THEN f[k] ELSE 0]
  <2>1. \A k \in 1..NumCell : g[k] = 0
    BY CellsAreNumbers
  <2> HIDE DEF g
  <2>2. SumTo(g, NumCell) = NumCell * 0
    BY <2>1, CellsAreNumbers, SumConstant
  <2> QED BY <2>2, CellsAreNumbers DEF Total, g
<1>4. Total(f, {d \in S : d < c}) < target
  BY <1>2, <1>3
<1> QED BY <1>1, <1>4 DEF Shortest

LEMMA AssetsStep == ListInv /\ CollectAssets => ListInv'
<1> SUFFICES ASSUME ListInv, CollectAssets PROVE ListInv'
  OBVIOUS
<1>1. UNCHANGED <<live, tip, request>> /\ step = "assets"
  BY DEF CollectAssets, Listed, chain
<1>2. CASE answer = {} \/ Total(Amount, answer) < Asked
  BY <1>1, <1>2, EndStep DEF CollectAssets, EndsPoor, ListInv, Listing
<1>3. CASE ~ (answer = {} \/ Total(Amount, answer) < Asked)
  <2>1. assets' \subseteq 1..tip
    BY <1>3 DEF CollectAssets, Shortest, ListInv, Listing
  <2>2. CASE AssetsPay(assets')
    BY <1>1, <1>3, <2>1, <2>2, EndStep DEF CollectAssets, EndsBuilt
  <2>3. CASE ~ AssetsPay(assets')
    <3>1. step' = "funds" /\ cursor' = 0 /\ answer' = {} /\ complete' = FALSE
      BY <1>3, <2>3 DEF CollectAssets
    <3>2. \A c \in live : ~ (c <= 0)
      BY CellsAreNumbers DEF ListInv, Listing
    <3>3. tip' \in Nat
      BY <1>1, CellsAreNumbers DEF ListInv, Listing
    <3>4. NothingMissed'
      BY <3>1 DEF NothingMissed
    <3>5. cursor' \in 0..tip' /\ answer' \subseteq 1..tip' /\ complete' \in BOOLEAN
      <4>1. cursor' \in 0..tip'
        BY <3>1, <3>3
      <4> QED BY <3>1, <4>1
    <3>6. \A c \in live' \cap Searched' : c <= cursor' => c \in answer'
      BY <1>1, <3>1, <3>2
    <3>7. /\ tip' \in NumFirst..NumCell /\ live' \subseteq 1..tip' /\ request' \in Requests
          /\ step' \in Steps /\ assets' \subseteq 1..tip' /\ step' # "assets"
      BY <1>1, <2>1, <3>1 DEF ListInv, Listing, Steps
    <3>8. assets' # {} \/ request'.amounts = <<>>
      <4>1. SUFFICES ASSUME request.amounts # <<>> PROVE assets' # {}
        BY <1>1
      <4>2. answer # {} /\ answer \in SUBSET Cell /\ assets' = Shortest(Amount, answer, Asked)
        BY <1>3, CellsAreNumbers DEF CollectAssets, ListInv, Listing
      <4>3. Asked \in Nat /\ Asked > 0
        BY <4>1, AskedPositive DEF ListInv, Listing
      <4> QED BY <4>2, <4>3, CellsAssumption, ShortestNonempty
    <3> QED BY <3>4, <3>5, <3>6, <3>7, <3>8 DEF ListInv, Listing
  <2> QED BY <2>2, <2>3
<1> QED BY <1>2, <1>3

LEMMA ListNext == ListInv /\ [Next]_vars => ListInv'
<1> SUFFICES ASSUME ListInv, [Next]_vars PROVE ListInv'
  OBVIOUS
<1>1. CASE ReadPage
  BY <1>1, PageStep
<1>2. CASE ReadFails
  BY <1>2, EndStep DEF ReadFails, chain, ListInv, Listing
<1>3. CASE CollectAssets
  BY <1>3, AssetsStep
<1>4. CASE CollectFunds
  BY <1>4, EndStep DEF CollectFunds, Listed, chain, EndsPoor, EndsBuilt, ListInv, Listing
<1>12. CASE BuildIssue
  BY <1>12, EndStep DEF BuildIssue, Listed, chain, EndsPoor, EndsBuilt, ListInv, Listing
<1>5. CASE BuildLaunch
  BY <1>5, EndStep DEF BuildLaunch, Listed, chain, EndsPoor, EndsBuilt, ListInv, Listing
<1>6. CASE BuildSplit
  BY <1>6, EndStep DEF BuildSplit, Listed, chain, EndsPoor, EndsBuilt, ListInv, Listing
<1>7. CASE AppendIssuer
  BY <1>7, EndStep DEF AppendIssuer, Listed, chain, EndsPoor, EndsBuilt, ListInv, Listing
<1>8. CASE PayUnlock
  BY <1>8, EndStep DEF PayUnlock, Listed, chain, EndsPoor, EndsBuilt, ListInv, Listing
<1>9. ASSUME NEW c \in Cell, Spend(c) PROVE ListInv'
  BY <1>9 DEF Spend, call, ListInv, Listing, NothingMissed, Searched
<1>10. CASE Appear
  <2>1. /\ tip \in Nat /\ tip + 1 <= NumCell /\ tip' = tip + 1
        /\ live' = live \cup {tip + 1} /\ UNCHANGED call
    BY <1>10, CellsAreNumbers DEF Appear, ListInv, Listing
  <2>2. tip' \in NumFirst..NumCell /\ 1..tip \subseteq 1..tip' /\ live' \subseteq 1..tip'
    BY <2>1, CellsAreNumbers DEF ListInv, Listing
  <2>3. cursor \in Nat /\ cursor <= tip /\ NumFirst <= tip /\ NumFirst \in Nat
    BY <2>1, CellsAreNumbers DEF ListInv, Listing
  <2>4. ~ (tip + 1 <= cursor) /\ ~ (tip + 1 <= NumFirst) /\ cursor \in 0..tip'
    BY <2>1, <2>3
  <2>5. Searched' = Searched
    BY <2>1 DEF call, Searched
  <2>6. Listing'
    BY <2>1, <2>2, <2>4, <2>5 DEF ListInv, Listing, call
  <2>7. NothingMissed'
    BY <2>1, <2>4, <2>5 DEF ListInv, NothingMissed, call
  <2> QED BY <2>6, <2>7 DEF ListInv
<1>11. CASE UNCHANGED vars
  BY <1>11 DEF vars, chain, call, ListInv, Listing, NothingMissed, Searched
<1> QED BY <1>1, <1>2, <1>3, <1>4, <1>5, <1>6, <1>7, <1>8, <1>9, <1>10, <1>11, <1>12 DEF Next

LEMMA ListInvariant == Spec => []ListInv
BY ListInit, ListNext, PTL DEF Spec

\* getCells pages through the indexer while cells are spent and appear; a complete answer
\* holds every matching cell that was there all the time (NothingMissed), for every page
\* size.
THEOREM ListingComplete == Spec => []NothingMissed
<1>1. ListInv => NothingMissed
  BY DEF ListInv
<1> QED BY <1>1, ListInvariant, PTL

-----------------------------------------------------------------------------
(* Refusals.                                                               *)

\* What lacks in some cells lacks in fewer.
LEMMA LackingMonotone ==
    ASSUME NEW A, NEW P, NEW T, NEW A2, NEW P2, NEW T2,
           A \subseteq A2, P \subseteq P2, T \subseteq T2, request \in Requests,
           Lacking(A2, P2, T2)
    PROVE  Lacking(A, P, T)
<1>1. /\ Total(Amount, A) <= Total(Amount, A2) /\ Total(Capacity, P) <= Total(Capacity, P2)
      /\ Total(Amount, A) \in Int /\ Total(Amount, A2) \in Int
      /\ Total(Capacity, P) \in Int /\ Total(Capacity, P2) \in Int
  BY CellsAssumption, TotalMonotone, TotalNat
<1>2. request.given \in Nat /\ request.asked \in Nat /\ Asked \in Nat
  <2>1. request.amounts \in Seq(Nat) /\ request.given \in Nat /\ request.asked \in Nat
    BY RequestsAssumption
  <2>2. Len(request.amounts) \in Nat /\ \A k \in 1..Len(request.amounts) : request.amounts[k] \in Nat
    BY <2>1
  <2>3. Asked \in Nat
    BY <2>2, SumNat DEF Asked, Sum
  <2> QED BY <2>1, <2>3
<1>3. /\ CollectTarget(FundsNeed) \in Int /\ CollectTarget(InfoCapacity) \in Int
      /\ CollectTarget(Asked) \in Int /\ CollectTarget(IssuerNeed) \in Int
      /\ CollectTarget(UdtCapacity + InfoCapacity) \in Int
  <2>1. FundsNeed \in Int
    <3>1. NumReceivers \in Nat
      BY RequestsAssumption DEF NumReceivers
    <3>2. ReceiverCapacity \in Nat /\ UdtCapacity \in Nat /\ RgbppCapacity \in Nat
      BY CapacityAssumption DEF ReceiverCapacity
    <3>3. NumReceivers * ReceiverCapacity \in Nat
      BY <3>1, <3>2
    <3>4. Taken(assets) \in Int
      BY <3>2, <3>3 DEF Taken
    <3>5. Total(Capacity, assets) \in Int
      BY CellsAssumption, TotalNat
    <3> QED BY <3>2, <3>4, <3>5 DEF FundsNeed
  <2> QED BY <1>2, <2>1, CapacityAssumption DEF CollectTarget, IssuerNeed
<1>4. \A n \in Int : Total(Capacity, P2) < n => Total(Capacity, P) < n
  BY <1>1
<1>5. Total(Amount, A2) < Asked => Total(Amount, A) < Asked
  BY <1>1, <1>2
<1> QED BY <1>3, <1>4, <1>5 DEF Lacking

\* At the end of a listing the cells that stayed are among those of the answer.
LEMMA LastingListed ==
    ASSUME ListInv, complete
    PROVE  /\ step = "assets" => Lasting("asset") \subseteq answer
           /\ step = "funds" => /\ Lasting("plain") \subseteq Plain
                                /\ Lasting("plain") \cup Lasting("typed") \subseteq answer
<1>1. live \subseteq Cell
  BY CellsAreNumbers DEF ListInv, Listing
<1>2. CASE step = "assets"
  BY <1>1, <1>2 DEF ListInv, NothingMissed, Lasting, Searched
<1>3. CASE step = "funds"
  BY <1>1, <1>3 DEF ListInv, NothingMissed, Lasting, Searched, Plain
<1> QED BY <1>2, <1>3

LEMMA PoorStep ==
    ASSUME ListInv, UNCHANGED <<live, request, assets>>, complete, step' = "poor",
           \/ /\ step = "assets" /\ request.kind \in Moves
              /\ answer = {} \/ Total(Amount, answer) < Asked
           \/ step = "funds" /\ Lacking(Lasting("asset"), Plain, answer)
    PROVE  PoorOnlyIfPoor'
<1>1. request \in Requests
  BY DEF ListInv, Listing
<1>2. Lacking(Lasting("asset"), Lasting("plain"), Lasting("typed"))
  <2>1. CASE /\ step = "assets" /\ request.kind \in Moves
             /\ answer = {} \/ Total(Amount, answer) < Asked
    <3>1. Lasting("asset") \subseteq answer
      BY <2>1, LastingListed
    <3>2. Lacking(answer, Lasting("plain"), Lasting("typed"))
      BY <2>1 DEF Lacking
    <3> QED BY <1>1, <3>1, <3>2, LackingMonotone
  <2>2. CASE step = "funds" /\ Lacking(Lasting("asset"), Plain, answer)
    <3>1. Lasting("plain") \subseteq Plain /\ Lasting("typed") \subseteq answer
      BY <2>2, LastingListed
    <3> QED BY <1>1, <2>2, <3>1, LackingMonotone
  <2> QED BY <2>1, <2>2
<1>3. /\ Lasting("asset")' = Lasting("asset") /\ Lasting("plain")' = Lasting("plain")
      /\ Lasting("typed")' = Lasting("typed")
  BY DEF Lasting
<1>4. Lacking(Lasting("asset"), Lasting("plain"), Lasting("typed"))'
  BY <1>2, <1>3 DEF Lacking, Asked, Sum, IssuerPays, IssuerNeed, CollectTarget,
              FundsNeed, Taken, Total, NumReceivers, ReceiverCapacity
<1> QED BY <1>4 DEF PoorOnlyIfPoor

\* Fewer cells last, and a call that was refused stays refused.
LEMMA FewerLast ==
    ASSUME ListInv, PoorOnlyIfPoor, UNCHANGED <<request, step, assets>>,
           \A c \in live' : c <= NumFirst => c \in live
    PROVE  PoorOnlyIfPoor'
<1>1. SUFFICES ASSUME step = "poor"
               PROVE  Lacking(Lasting("asset"), Lasting("plain"), Lasting("typed"))'
  BY DEF PoorOnlyIfPoor
<1>2. /\ Lasting("asset")' \subseteq Lasting("asset")
      /\ Lasting("plain")' \subseteq Lasting("plain")
      /\ Lasting("typed")' \subseteq Lasting("typed")
  BY DEF Lasting
<1>3. Lacking(Lasting("asset"), Lasting("plain"), Lasting("typed")) /\ request \in Requests
  BY <1>1 DEF PoorOnlyIfPoor, ListInv, Listing
<1>4. Lacking(Lasting("asset")', Lasting("plain")', Lasting("typed")')
  BY <1>2, <1>3, LackingMonotone
<1> QED BY <1>4 DEF Lacking, Asked, Sum, IssuerPays, IssuerNeed, CollectTarget,
              FundsNeed, Taken, Total, NumReceivers, ReceiverCapacity

LEMMA PoorNext == ListInv /\ PoorOnlyIfPoor /\ [Next]_vars => PoorOnlyIfPoor'
<1> SUFFICES ASSUME ListInv, PoorOnlyIfPoor, [Next]_vars PROVE PoorOnlyIfPoor'
  OBVIOUS
<1>1. CASE ReadPage
  BY <1>1 DEF ReadPage, PoorOnlyIfPoor
<1>2. CASE ReadFails
  BY <1>2 DEF ReadFails, PoorOnlyIfPoor
<1>3. CASE CollectAssets
  <2>1. /\ UNCHANGED <<live, request>> /\ complete /\ step = "assets"
        /\ request.kind \in Moves
    BY <1>3 DEF CollectAssets, Listed, chain, ListInv, Listing
  <2>2. CASE answer = {} \/ Total(Amount, answer) < Asked
    BY <1>3, <2>1, <2>2, PoorStep DEF CollectAssets, EndsPoor
  <2>3. CASE ~ (answer = {} \/ Total(Amount, answer) < Asked)
    BY <1>3, <2>3 DEF CollectAssets, EndsBuilt, PoorOnlyIfPoor
  <2> QED BY <2>2, <2>3
<1>4. CASE CollectFunds
  <2>1. /\ UNCHANGED <<live, request>> /\ complete /\ step = "funds"
        /\ request.kind \in Moves /\ (assets # {} \/ request.amounts = <<>>)
    BY <1>4 DEF CollectFunds, Listed, chain, ListInv, Listing
  <2>2. CASE Total(Capacity, Plain) < CollectTarget(FundsNeed)
    BY <1>4, <2>1, <2>2, PoorStep DEF CollectFunds, EndsPoor, Lacking
  <2>3. CASE ~ (Total(Capacity, Plain) < CollectTarget(FundsNeed))
    BY <1>4, <2>3 DEF CollectFunds, EndsBuilt, PoorOnlyIfPoor
  <2> QED BY <2>2, <2>3
<1>12. CASE BuildIssue
  <2>1. UNCHANGED <<live, request>> /\ complete /\ step = "funds"
    BY <1>12 DEF BuildIssue, Listed, chain
  <2>2. CASE Total(Capacity, Plain) < CollectTarget(UdtCapacity + InfoCapacity)
    BY <1>12, <2>1, <2>2, PoorStep DEF BuildIssue, EndsPoor, Lacking
  <2>3. CASE ~ (Total(Capacity, Plain) < CollectTarget(UdtCapacity + InfoCapacity))
    BY <1>12, <2>3 DEF BuildIssue, EndsBuilt, PoorOnlyIfPoor
  <2> QED BY <2>2, <2>3
<1>5. CASE BuildLaunch
  <2>1. UNCHANGED <<live, request>> /\ complete /\ step = "funds"
    BY <1>5 DEF BuildLaunch, Listed, chain
  <2>2. CASE Total(Capacity, Plain) < CollectTarget(InfoCapacity)
    BY <1>5, <2>1, <2>2, PoorStep DEF BuildLaunch, EndsPoor, Lacking
  <2>3. CASE ~ (Total(Capacity, Plain) < CollectTarget(InfoCapacity))
    BY <1>5, <2>3 DEF BuildLaunch, EndsBuilt, PoorOnlyIfPoor
  <2> QED BY <2>2, <2>3
<1>6. CASE BuildSplit
  <2>1. UNCHANGED <<live, request>> /\ complete /\ step = "funds"
    BY <1>6 DEF BuildSplit, Listed, chain
  <2>2. CASE Total(Capacity, Plain) < CollectTarget(Asked)
    BY <1>6, <2>1, <2>2, PoorStep DEF BuildSplit, EndsPoor, Lacking
  <2>3. CASE ~ (Total(Capacity, Plain) < CollectTarget(Asked))
    BY <1>6, <2>3 DEF BuildSplit, EndsBuilt, PoorOnlyIfPoor
  <2> QED BY <2>2, <2>3
<1>7. CASE AppendIssuer
  <2> DEFINE Refused == \/ answer = {}
                        \/ IssuerPays /\ Total(Capacity, Plain) < CollectTarget(IssuerNeed)
  <2>1. UNCHANGED <<live, request>> /\ complete /\ step = "funds"
    BY <1>7 DEF AppendIssuer, Listed, chain
  <2>2. CASE Refused
    <3>1. Plain \subseteq answer
      BY DEF Plain
    <3>2. Lacking(Lasting("asset"), Plain, answer)
      BY <1>7, <2>2, <3>1 DEF AppendIssuer, Lacking
    <3> QED BY <1>7, <2>1, <2>2, <3>2, PoorStep DEF AppendIssuer, EndsPoor
  <2>3. CASE ~ Refused
    BY <1>7, <2>3 DEF AppendIssuer, EndsBuilt, PoorOnlyIfPoor
  <2> QED BY <2>2, <2>3
<1>8. CASE PayUnlock
  <2>1. UNCHANGED <<live, request>> /\ complete /\ step = "funds"
    BY <1>8 DEF PayUnlock, Listed, chain
  <2>2. CASE Plain = {}
    BY <1>8, <2>1, <2>2, PoorStep DEF PayUnlock, EndsPoor, Lacking
  <2>3. CASE Plain # {}
    BY <1>8, <2>3 DEF PayUnlock, EndsBuilt, PoorOnlyIfPoor
  <2> QED BY <2>2, <2>3
<1>9. ASSUME NEW c \in Cell, Spend(c) PROVE PoorOnlyIfPoor'
  BY <1>9, FewerLast DEF Spend, call
<1>10. CASE Appear
  <2>1. live' = live \cup {tip + 1} /\ UNCHANGED <<request, step, assets>>
    BY <1>10 DEF Appear, call
  <2>2. ~ (tip + 1 <= NumFirst)
    BY CellsAreNumbers DEF ListInv, Listing
  <2> QED BY <2>1, <2>2, FewerLast
<1>11. CASE UNCHANGED vars
  BY <1>11, FewerLast DEF vars, chain, call
<1> QED BY <1>1, <1>2, <1>3, <1>4, <1>5, <1>6, <1>7, <1>8, <1>9, <1>10, <1>11, <1>12 DEF Next

\* A builder reports that cells, amount or capacity are not enough only if the cells that
\* were there all the time are not enough (PoorOnlyIfPoor).
THEOREM RefusedOnlyIfPoor == Spec => []PoorOnlyIfPoor
<1>1. Init => PoorOnlyIfPoor
  BY DEF Init, PoorOnlyIfPoor
<1> QED BY <1>1, PoorNext, ListInvariant, PTL DEF Spec

-----------------------------------------------------------------------------
(* Transactions.                                                           *)

Capacities(outputs) == [i \in DOMAIN outputs |-> outputs[i].capacity]

\* A transaction is well formed and leaves the fee.
Balanced(inputs, outputs, fee) ==
    /\ outputs \in Seq(CkbOutput) /\ outputs # <<>>
    /\ Total(Capacity, inputs) + request.given = Sum(Capacities(outputs)) + request.asked + fee

LEMMA RequestTypes ==
    ASSUME request \in Requests
    PROVE  /\ request.amounts \in Seq(Nat) /\ NumReceivers \in Nat
           /\ \A k \in 1..NumReceivers : request.amounts[k] \in Nat
           /\ Asked \in Nat /\ Asked = SumTo(request.amounts, NumReceivers)
           /\ request.given \in Nat /\ request.asked \in Nat
           /\ request.kind # "issuer" => request.given = request.asked
<1>1. /\ request.amounts \in Seq(Nat) /\ request.given \in Nat /\ request.asked \in Nat
      /\ request.kind # "issuer" => request.given = request.asked
  BY RequestsAssumption
<1>2. NumReceivers \in Nat /\ \A k \in 1..NumReceivers : request.amounts[k] \in Nat
  BY <1>1 DEF NumReceivers
<1>3. Asked = SumTo(request.amounts, NumReceivers)
  BY DEF Asked, Sum, NumReceivers
<1> QED BY <1>1, <1>2, <1>3, SumNat

\* The capacities of a sequence of outputs are a sequence of integers.
LEMMA SumOfCapacities ==
    ASSUME NEW n \in Nat, NEW outputs \in [1..n -> CkbOutput]
    PROVE  /\ outputs \in Seq(CkbOutput)
           /\ Sum(Capacities(outputs)) = SumTo(Capacities(outputs), n)
           /\ \A i \in 1..n : /\ Capacities(outputs)[i] = outputs[i].capacity
                              /\ Capacities(outputs)[i] \in Int
<1>1. Capacities(outputs) \in [1..n -> Int]
  BY DEF Capacities, CkbOutput
<1>2. Sum(Capacities(outputs)) = SumTo(Capacities(outputs), n)
  BY <1>1, SumOverSequence
<1>3. \A i \in 1..n : Capacities(outputs)[i] = outputs[i].capacity
  BY DEF Capacities
<1>4. outputs \in Seq(CkbOutput)
  OBVIOUS
<1> QED BY <1>1, <1>2, <1>3, <1>4

\* One more output adds its capacity.
LEMMA OneMoreOutput ==
    ASSUME NEW n \in Nat, NEW outputs \in [1..n -> CkbOutput], NEW o \in CkbOutput
    PROVE  /\ outputs \o <<o>> \in [1..(n + 1) -> CkbOutput]
           /\ outputs \o <<o>> # <<>> /\ outputs \o <<o>> \in Seq(CkbOutput)
           /\ Sum(Capacities(outputs)) \in Int
           /\ Sum(Capacities(outputs \o <<o>>)) = Sum(Capacities(outputs)) + o.capacity
<1> DEFINE more == outputs \o <<o>>
<1>1. outputs \in Seq(CkbOutput) /\ Len(outputs) = n /\ DOMAIN outputs = 1..n
  OBVIOUS
<1>2. Len(more) = n + 1 /\ DOMAIN more = 1..(n + 1) /\ more \in Seq(CkbOutput)
  BY <1>1
<1>3. (\A k \in 1..n : more[k] = outputs[k]) /\ more[n + 1] = o
  BY <1>1
<1> HIDE DEF more
<1>4. more \in [1..(n + 1) -> CkbOutput]
  BY <1>2
<1>5. more # <<>>
  BY <1>2
<1>6. /\ Sum(Capacities(outputs)) = SumTo(Capacities(outputs), n)
      /\ \A i \in 1..n : /\ Capacities(outputs)[i] = outputs[i].capacity
                         /\ Capacities(outputs)[i] \in Int
  BY SumOfCapacities
<1>7. /\ Sum(Capacities(more)) = SumTo(Capacities(more), n + 1)
      /\ \A i \in 1..(n + 1) : /\ Capacities(more)[i] = more[i].capacity
                               /\ Capacities(more)[i] \in Int
  <2>1. n + 1 \in Nat
    OBVIOUS
  <2> QED BY <1>4, <2>1, SumOfCapacities
<1>8. SumTo(Capacities(more), n + 1) = SumTo(Capacities(more), n) + Capacities(more)[n + 1]
  BY <1>7, SumOneMore
<1>9. \A k \in 1..n : Capacities(more)[k] = Capacities(outputs)[k]
  BY <1>3, <1>6, <1>7
<1>10. SumTo(Capacities(more), n) = SumTo(Capacities(outputs), n)
  BY <1>6, <1>9, SumSame
<1>11. Capacities(more)[n + 1] = o.capacity
  BY <1>3, <1>7, n + 1 \in 1..(n + 1)
<1>12. SumTo(Capacities(outputs), n) \in Int
  BY <1>6, SumInt
<1> QED BY <1>2, <1>4, <1>5, <1>6, <1>7, <1>8, <1>10, <1>11, <1>12 DEF more

LEMMA MoveBalanced ==
    ASSUME request \in Requests, request.kind \in Moves, NEW fee \in Fees, NEW inputs
    PROVE  Balanced(inputs, MoveOutputs(inputs, fee), fee)
<1> DEFINE n == NumReceivers
           total == Total(Capacity, inputs)
           udtCapacity == IF AssetChange > 0 THEN UdtCapacity ELSE 0
           first == [k \in 1..n |-> Output(ReceiverCapacity, ReceiverOccupied, request.amounts[k])]
           udt == Output(UdtCapacity, UdtOccupied, AssetChange)
           change == PlainCell(total - n * ReceiverCapacity - MaxFee - udtCapacity + (MaxFee - fee))
           outs == MoveOutputs(inputs, fee)
<1>1. /\ n \in Nat /\ Asked \in Nat /\ request.given \in Nat /\ request.given = request.asked
      /\ \A k \in 1..n : request.amounts[k] \in Nat
  BY RequestTypes DEF Moves
<1>2. /\ ReceiverCapacity \in Nat /\ ReceiverOccupied \in Nat /\ UdtCapacity \in Nat
      /\ UdtOccupied \in Nat /\ MaxFee \in Nat /\ fee \in Nat /\ MinCapacity \in Nat
  BY CapacityAssumption DEF ReceiverCapacity, ReceiverOccupied
<1>3. total \in Nat /\ AssetChange \in Int
  <2>1. Total(Amount, assets') \in Nat /\ total \in Nat
    BY CellsAssumption, TotalNat
  <2> QED BY <1>1, <2>1 DEF AssetChange
<1>4. n * ReceiverCapacity \in Int /\ udtCapacity \in Nat
  BY <1>1, <1>2
<1>5. first \in [1..n -> CkbOutput] /\ \A k \in 1..n : first[k].capacity = ReceiverCapacity
  BY <1>1, <1>2 DEF Output, CkbOutput
<1>6. /\ AssetChange > 0 => udt \in CkbOutput
      /\ udt.capacity = UdtCapacity
  BY <1>2, <1>3 DEF Output, CkbOutput
<1>7. /\ change \in CkbOutput
      /\ change.capacity = total - n * ReceiverCapacity - udtCapacity - fee
  <2> HIDE DEF n, total, udtCapacity
  <2> DEFINE spare == total - n * ReceiverCapacity - MaxFee - udtCapacity + (MaxFee - fee)
  <2>1. spare \in Int /\ spare = total - n * ReceiverCapacity - udtCapacity - fee
    BY <1>2, <1>3, <1>4
  <2> HIDE DEF spare
  <2>2. PlainCell(spare) \in CkbOutput /\ PlainCell(spare).capacity = spare
    BY <1>2, <2>1 DEF PlainCell, Output, CkbOutput
  <2> QED BY <2>1, <2>2 DEF spare
<1>8. outs = first \o (IF AssetChange > 0 THEN <<udt>> ELSE <<>>) \o <<change>>
  BY DEF MoveOutputs
<1>9. Sum(Capacities(first)) = n * ReceiverCapacity
  <2> HIDE DEF n, first
  <2>1. /\ Sum(Capacities(first)) = SumTo(Capacities(first), n)
        /\ \A k \in 1..n : Capacities(first)[k] = first[k].capacity
    BY <1>1, <1>5, SumOfCapacities
  <2>2. \A k \in 1..n : Capacities(first)[k] = ReceiverCapacity
    BY <1>5, <2>1
  <2>3. ReceiverCapacity \in Int /\ n \in Nat
    BY <1>1, <1>2
  <2>4. SumTo(Capacities(first), n) = n * ReceiverCapacity
    BY ONLY <2>2, <2>3, SumConstant
  <2> QED BY <2>1, <2>4
<1>10. CASE AssetChange > 0
  <2> HIDE DEF n, first, change, total, outs, udt
  <2>1. outs = (first \o <<udt>>) \o <<change>>
    BY <1>8, <1>10
  <2>2. /\ first \o <<udt>> \in [1..(n + 1) -> CkbOutput]
        /\ Sum(Capacities(first \o <<udt>>)) = n * ReceiverCapacity + UdtCapacity
    BY <1>1, <1>5, <1>6, <1>9, <1>10, OneMoreOutput
  <2>3. /\ outs \in [1..((n + 1) + 1) -> CkbOutput] /\ outs # <<>>
        /\ Sum(Capacities(outs)) = n * ReceiverCapacity + UdtCapacity + change.capacity
    <3> DEFINE m == n + 1
               more == first \o <<udt>>
    <3>1. m \in Nat /\ more \in [1..m -> CkbOutput]
      BY <1>1, <2>2
    <3> HIDE DEF m, more
    <3>2. /\ more \o <<change>> \in [1..(m + 1) -> CkbOutput] /\ more \o <<change>> # <<>>
          /\ Sum(Capacities(more \o <<change>>)) = Sum(Capacities(more)) + change.capacity
      BY <1>7, <3>1, OneMoreOutput
    <3> QED BY <2>1, <2>2, <3>2 DEF m, more
  <2>4. Sum(Capacities(outs)) + fee = total
    BY <1>2, <1>3, <1>4, <1>7, <1>10, <2>3
  <2>5. outs \in Seq(CkbOutput)
    BY <1>1, <2>3
  <2>6. total + request.given = Sum(Capacities(outs)) + request.asked + fee
    <3>1. Sum(Capacities(outs)) = total - fee
      BY <1>2, <1>3, <1>4, <1>7, <1>10, <2>3
    <3> QED BY <1>1, <1>2, <1>3, <3>1
  <2> QED BY <2>3, <2>5, <2>6 DEF Balanced, outs, total
<1>11. CASE ~ (AssetChange > 0)
  <2> HIDE DEF n, first, change, total, outs, udt
  <2>1. outs = first \o <<change>>
    <3>1. first \o <<>> = first
      BY <1>1, <1>5
    <3> QED BY <1>8, <1>11, <3>1
  <2>2. /\ outs \in [1..(n + 1) -> CkbOutput] /\ outs # <<>>
        /\ Sum(Capacities(outs)) = n * ReceiverCapacity + change.capacity
    BY <1>1, <1>5, <1>7, <1>9, <2>1, OneMoreOutput
  <2>3. outs \in Seq(CkbOutput)
    BY <1>1, <2>2
  <2>4. total + request.given = Sum(Capacities(outs)) + request.asked + fee
    <3>1. Sum(Capacities(outs)) = total - fee
      BY <1>2, <1>3, <1>4, <1>7, <1>11, <2>2
    <3> QED BY <1>1, <1>2, <1>3, <3>1
  <2> QED BY <2>2, <2>3, <2>4 DEF Balanced, outs, total
<1> QED BY <1>10, <1>11

LEMMA SplitBalanced ==
    ASSUME request \in Requests, request.kind = "split", NEW fee \in Fees, NEW inputs
    PROVE  Balanced(inputs, SplitOutputs(inputs, fee), fee)
<1> DEFINE n == NumReceivers
           total == Total(Capacity, inputs)
           first == [k \in 1..n |-> PlainCell(request.amounts[k])]
           change == PlainCell(total - Asked - MaxFee + (MaxFee - fee))
           outs == SplitOutputs(inputs, fee)
<1>1. /\ n \in Nat /\ Asked \in Nat /\ request.given \in Nat /\ request.given = request.asked
      /\ \A k \in 1..n : request.amounts[k] \in Nat
      /\ Asked = SumTo(request.amounts, n)
  BY RequestTypes
<1>2. total \in Nat /\ MaxFee \in Nat /\ fee \in Nat /\ MinCapacity \in Nat
  BY CellsAssumption, CapacityAssumption, TotalNat
<1>3. /\ first \in [1..n -> CkbOutput] /\ change \in CkbOutput
      /\ \A k \in 1..n : first[k].capacity = request.amounts[k]
      /\ change.capacity = total - Asked - fee
  BY <1>1, <1>2 DEF PlainCell, Output, CkbOutput
<1>4. outs = first \o <<change>>
  BY DEF SplitOutputs
<1> HIDE DEF n, first, change, total, outs
<1>5. Sum(Capacities(first)) = Asked
  <2>1. /\ Sum(Capacities(first)) = SumTo(Capacities(first), n)
        /\ \A k \in 1..n : Capacities(first)[k] = first[k].capacity
    BY <1>1, <1>3, SumOfCapacities
  <2>2. \A k \in 1..n : /\ request.amounts[k] \in Int
                        /\ Capacities(first)[k] = request.amounts[k]
    BY <1>1, <1>3, <2>1
  <2> QED BY <1>1, <2>1, <2>2, SumSame
<1>6. /\ outs \in [1..(n + 1) -> CkbOutput] /\ outs # <<>>
      /\ Sum(Capacities(outs)) = Asked + change.capacity
  BY <1>1, <1>3, <1>4, <1>5, OneMoreOutput
<1>7. outs \in Seq(CkbOutput)
  BY <1>1, <1>6
<1>8. total + request.given = Sum(Capacities(outs)) + request.asked + fee
  BY <1>1, <1>2, <1>3, <1>6
<1> QED BY <1>6, <1>7, <1>8 DEF Balanced, outs, total

\* The capacities of one and of two outputs.
LEMMA FirstOutput ==
    ASSUME NEW o \in CkbOutput
    PROVE  /\ <<o>> \in [1..1 -> CkbOutput] /\ <<o>> # <<>> /\ <<o>> \in Seq(CkbOutput)
           /\ Sum(Capacities(<<o>>)) = o.capacity
<1> DEFINE none == [k \in 1..0 |-> o]
<1>1. none \in [1..0 -> CkbOutput] /\ none \o <<o>> = <<o>>
  OBVIOUS
<1>2. Sum(Capacities(none)) = 0
  <2>1. Sum(Capacities(none)) = SumTo(Capacities(none), 0)
    BY <1>1, SumOfCapacities
  <2> QED BY <2>1, SumNone
<1>3. o.capacity \in Int
  BY DEF CkbOutput
<1> HIDE DEF none
<1>4. /\ none \o <<o>> \in [1..(0 + 1) -> CkbOutput]
      /\ Sum(Capacities(none \o <<o>>)) = Sum(Capacities(none)) + o.capacity
  BY <1>1, OneMoreOutput
<1>5. Sum(Capacities(<<o>>)) = o.capacity
  BY <1>1, <1>2, <1>3, <1>4
<1> QED BY <1>5

\* One output takes everything.
LEMMA SingleBalanced ==
    ASSUME request \in Requests, NEW fee \in Fees, NEW inputs
    PROVE  Balanced(inputs, <<PlainCell(request.given + Total(Capacity, inputs)
                                          - request.asked - fee)>>, fee)
<1> DEFINE total == Total(Capacity, inputs)
           rest == request.given + total - request.asked - fee
           o == PlainCell(rest)
<1>1. request.given \in Nat /\ request.asked \in Nat
  BY RequestTypes
<1>2. fee \in Nat /\ MinCapacity \in Nat /\ total \in Nat
  BY CellsAssumption, CapacityAssumption, TotalNat
<1>3. rest \in Int
  BY <1>1, <1>2
<1>4. o \in CkbOutput /\ o.capacity = rest
  <2> HIDE DEF rest
  <2> QED BY <1>2, <1>3 DEF PlainCell, Output, CkbOutput
<1>5. Sum(Capacities(<<o>>)) = rest /\ <<o>> \in Seq(CkbOutput) /\ <<o>> # <<>>
  <2> HIDE DEF o
  <2> QED BY <1>4, FirstOutput
<1>6. total + request.given = rest + request.asked + fee
  <2> HIDE DEF total
  <2> QED BY <1>1, <1>2
<1> QED BY <1>5, <1>6 DEF Balanced

LEMMA LaunchBalanced ==
    ASSUME request \in Requests, request.kind = "launch", NEW fee \in Fees, NEW inputs
    PROVE  Balanced(inputs, LaunchOutputs(inputs, fee), fee)
<1> DEFINE total == Total(Capacity, inputs)
           o == Output(total - InfoCapacity - fee, RgbppOccupied, 0)
           info == Output(InfoCapacity, InfoCapacity, 0)
<1>1. request.given \in Nat /\ request.asked = request.given
  BY RequestTypes
<1>2. fee \in Nat /\ total \in Nat /\ RgbppOccupied \in Nat /\ InfoCapacity \in Nat
  BY CellsAssumption, CapacityAssumption, TotalNat
<1>3. /\ o \in CkbOutput /\ o.capacity = total - InfoCapacity - fee
      /\ info \in CkbOutput /\ info.capacity = InfoCapacity
  <2> HIDE DEF total
  <2> QED BY <1>2 DEF Output, CkbOutput
<1>4. LaunchOutputs(inputs, fee) = <<o>> \o <<info>>
  BY DEF LaunchOutputs
<1> HIDE DEF o, info, total
<1>5. <<o>> \in [1..1 -> CkbOutput] /\ Sum(Capacities(<<o>>)) = o.capacity
  BY <1>3, FirstOutput
<1>6. /\ <<o>> \o <<info>> # <<>> /\ <<o>> \o <<info>> \in Seq(CkbOutput)
      /\ Sum(Capacities(<<o>> \o <<info>>)) = o.capacity + InfoCapacity
  <2> DEFINE one == <<o>>
  <2>1. 1 \in Nat /\ one \in [1..1 -> CkbOutput] /\ Sum(Capacities(one)) = o.capacity
    BY <1>5
  <2> HIDE DEF one
  <2>2. /\ one \o <<info>> # <<>> /\ one \o <<info>> \in Seq(CkbOutput)
        /\ Sum(Capacities(one \o <<info>>)) = Sum(Capacities(one)) + info.capacity
    <3> DEFINE m == 1
    <3>1. m \in Nat /\ one \in [1..m -> CkbOutput]
      BY <2>1
    <3> HIDE DEF m
    <3> QED BY <1>3, <3>1, OneMoreOutput
  <2> QED BY <1>3, <2>1, <2>2 DEF one
<1>8. total + request.given = o.capacity + InfoCapacity + request.asked + fee
  BY <1>1, <1>2, <1>3
<1> QED BY <1>4, <1>6, <1>8 DEF Balanced, total

LEMMA IssueBalanced ==
    ASSUME request \in Requests, request.kind = "issue", NEW fee \in Fees, NEW inputs
    PROVE  Balanced(inputs, IssueOutputs(inputs, fee), fee)
<1> DEFINE total == Total(Capacity, inputs)
           udt == Output(UdtCapacity, UdtOccupied, 0)
           info == Output(InfoCapacity, InfoCapacity, 0)
           change == PlainCell(total - UdtCapacity - InfoCapacity - fee)
           one == <<udt>>
           two == one \o <<info>>
           outs == two \o <<change>>
<1>1. request.given \in Nat /\ request.asked = request.given
  BY RequestTypes
<1>2. /\ fee \in Nat /\ total \in Nat /\ UdtCapacity \in Nat /\ UdtOccupied \in Nat
      /\ InfoCapacity \in Nat /\ MinCapacity \in Nat
  BY CellsAssumption, CapacityAssumption, TotalNat
<1>3. /\ udt \in CkbOutput /\ udt.capacity = UdtCapacity
      /\ info \in CkbOutput /\ info.capacity = InfoCapacity
      /\ change \in CkbOutput
      /\ change.capacity = total - UdtCapacity - InfoCapacity - fee
  <2> HIDE DEF total
  <2> QED BY <1>2 DEF PlainCell, Output, CkbOutput
<1>4. IssueOutputs(inputs, fee) = outs
  BY DEF IssueOutputs
<1> HIDE DEF udt, info, change, total
<1>5. one \in [1..1 -> CkbOutput] /\ Sum(Capacities(one)) = UdtCapacity
  BY <1>3, FirstOutput
<1> HIDE DEF one
<1>6. two \in [1..2 -> CkbOutput] /\ Sum(Capacities(two)) = UdtCapacity + InfoCapacity
  <2> DEFINE m == 1
  <2>1. m \in Nat /\ one \in [1..m -> CkbOutput] /\ m + 1 = 2
    BY <1>5
  <2> HIDE DEF m
  <2> QED BY <1>3, <1>5, <2>1, OneMoreOutput
<1> HIDE DEF two
<1>7. /\ outs # <<>> /\ outs \in Seq(CkbOutput)
      /\ Sum(Capacities(outs)) = UdtCapacity + InfoCapacity + change.capacity
  <2> DEFINE m == 2
  <2>1. m \in Nat /\ two \in [1..m -> CkbOutput]
    BY <1>6
  <2> HIDE DEF m
  <2> QED BY <1>3, <1>6, <2>1, OneMoreOutput
<1> HIDE DEF outs
<1>8. total + request.given = Sum(Capacities(outs)) + request.asked + fee
  BY <1>1, <1>2, <1>3, <1>7
<1> QED BY <1>4, <1>7, <1>8 DEF Balanced, total

-----------------------------------------------------------------------------
(* The invariant of the transactions.                                      *)

TxInv ==
    /\ tx \in [inputs: SUBSET (1..tip), outputs: Seq(CkbOutput)]
    /\ tx = NoTx <=> step # "built"
    /\ CapacityBalanced

\* A balanced transaction ends the call as the invariant says.
LEMMA BuiltStep ==
    ASSUME UNCHANGED <<tip, request>>, NEW inputs \in SUBSET (1..tip), NEW outputs,
           NEW fee \in Fees, Balanced(inputs, outputs, fee), EndsBuilt(inputs, outputs)
    PROVE  TxInv'
<1>1. /\ tx' = [inputs |-> inputs, outputs |-> outputs] /\ step' = "built"
      /\ outputs \in Seq(CkbOutput) /\ outputs # <<>>
  BY DEF EndsBuilt, Tx, Balanced
<1>2. tx' \in [inputs: SUBSET (1..tip'), outputs: Seq(CkbOutput)]
  BY <1>1
<1>3. tx' # NoTx
  BY <1>1 DEF NoTx, Tx
<1>4. CapacityBalanced'
  <2>1. Total(Capacity, inputs) + request.given
            = Sum(Capacities(outputs)) + request.asked + fee
    BY DEF Balanced
  <2>2. /\ Total(Capacity, tx.inputs)' = Total(Capacity, inputs)
        /\ Sum([i \in DOMAIN tx.outputs |-> tx.outputs[i].capacity])'
               = Sum(Capacities(outputs))
        /\ request' = request
    BY <1>1 DEF Total, Sum, Capacities
  <2> QED BY <2>1, <2>2 DEF CapacityBalanced
<1> QED BY <1>1, <1>2, <1>3, <1>4 DEF TxInv

\* A call that is not at its end has no transaction yet.
LEMMA OpenStep ==
    ASSUME TxInv, step # "built", step' # "built", tip' = tip, tx' = tx
    PROVE  TxInv'
BY DEF TxInv, CapacityBalanced, NoTx, Tx

\* CKB moves, the call does not.
LEMMA ChainStep ==
    ASSUME ListInv, TxInv, UNCHANGED call, tip' \in Nat, tip <= tip'
    PROVE  TxInv'
<1>1. UNCHANGED <<request, step, tx>>
  BY DEF call
<1>2. 1..tip \subseteq 1..tip'
  BY CellsAreNumbers DEF ListInv, Listing
<1>3. tx' \in [inputs: SUBSET (1..tip'), outputs: Seq(CkbOutput)]
  BY <1>1, <1>2 DEF TxInv
<1>4. CapacityBalanced'
  BY <1>1 DEF TxInv, CapacityBalanced
<1> QED BY <1>1, <1>3, <1>4 DEF TxInv, NoTx, Tx

\* What collectInputs takes is among the cells of the answer.
LEMMA InputsKnown ==
    ASSUME ListInv
    PROVE  /\ Plain \in SUBSET (1..tip) /\ FirstPlain \in SUBSET (1..tip)
           /\ \A need : Collected(need) \in SUBSET (1..tip)
           /\ \A target : Shortest(Amount, answer, target) \in SUBSET (1..tip)
BY DEF ListInv, Listing, Plain, FirstPlain, Collected, Shortest

LEMMA TxNext == ListInv /\ TxInv /\ [Next]_vars => TxInv'
<1> SUFFICES ASSUME ListInv, TxInv, [Next]_vars PROVE TxInv'
  OBVIOUS
<1>1. request \in Requests /\ (step = "assets" => request.kind \in Moves)
  BY DEF ListInv, Listing
<1>2. CASE ReadPage
  BY <1>2, OpenStep DEF ReadPage, chain
<1>3. CASE ReadFails
  BY <1>3, OpenStep DEF ReadFails, chain
<1>4. CASE CollectAssets
  <2>1. UNCHANGED <<tip, request>> /\ step = "assets"
    BY <1>4 DEF CollectAssets, Listed, chain
  <2>2. CASE EndsPoor
    BY <2>1, <2>2, OpenStep DEF EndsPoor
  <2>3. CASE step' = "funds" /\ UNCHANGED tx
    BY <2>1, <2>3, OpenStep
  <2>4. ASSUME NEW fee \in Fees, assets' = Shortest(Amount, answer, Asked),
               EndsBuilt(assets', MoveOutputs(assets', fee))
        PROVE  TxInv'
    <3>1. assets' \in SUBSET (1..tip)
      BY <2>4, InputsKnown
    <3>2. Balanced(assets', MoveOutputs(assets', fee), fee)
      BY <1>1, <2>1, MoveBalanced
    <3> QED BY <2>1, <2>4, <3>1, <3>2, BuiltStep
  <2> QED BY <1>4, <2>2, <2>3, <2>4 DEF CollectAssets
<1>5. CASE CollectFunds
  <2>1. UNCHANGED <<tip, request>> /\ step = "funds" /\ request.kind \in Moves
    BY <1>5 DEF CollectFunds, Listed, chain
  <2>2. CASE EndsPoor
    BY <2>1, <2>2, OpenStep DEF EndsPoor
  <2>3. CASE ~ EndsPoor
    <3> DEFINE inputs == assets \cup Collected(FundsNeed)
    <3>1. PICK fee \in Fees : EndsBuilt(inputs, MoveOutputs(inputs, fee))
      BY <1>5, <2>3 DEF CollectFunds
    <3>2. inputs \in SUBSET (1..tip)
      BY InputsKnown DEF ListInv, Listing
    <3> HIDE DEF inputs
    <3>3. Balanced(inputs, MoveOutputs(inputs, fee), fee)
      BY <1>1, <2>1, MoveBalanced
    <3> QED BY <2>1, <3>1, <3>2, <3>3, BuiltStep
  <2> QED BY <2>2, <2>3
<1>13. CASE BuildIssue
  <2>1. UNCHANGED <<tip, request>> /\ step = "funds" /\ request.kind = "issue"
    BY <1>13 DEF BuildIssue, Listed, chain
  <2>2. CASE EndsPoor
    BY <2>1, <2>2, OpenStep DEF EndsPoor
  <2>3. CASE ~ EndsPoor
    <3> DEFINE inputs == Collected(UdtCapacity + InfoCapacity)
    <3>1. PICK fee \in Fees : EndsBuilt(inputs, IssueOutputs(inputs, fee))
      BY <1>13, <2>3 DEF BuildIssue
    <3>2. inputs \in SUBSET (1..tip)
      BY InputsKnown
    <3> HIDE DEF inputs
    <3>3. Balanced(inputs, IssueOutputs(inputs, fee), fee)
      BY <1>1, <2>1, IssueBalanced
    <3> QED BY <2>1, <3>1, <3>2, <3>3, BuiltStep
  <2> QED BY <2>2, <2>3
<1>6. CASE BuildLaunch
  <2>1. UNCHANGED <<tip, request>> /\ step = "funds" /\ request.kind = "launch"
    BY <1>6 DEF BuildLaunch, Listed, chain
  <2>2. CASE EndsPoor
    BY <2>1, <2>2, OpenStep DEF EndsPoor
  <2>3. CASE ~ EndsPoor
    <3> DEFINE inputs == Collected(InfoCapacity)
    <3>1. PICK fee \in Fees : EndsBuilt(inputs, LaunchOutputs(inputs, fee))
      BY <1>6, <2>3 DEF BuildLaunch
    <3>2. inputs \in SUBSET (1..tip)
      BY InputsKnown
    <3> HIDE DEF inputs
    <3>3. Balanced(inputs, LaunchOutputs(inputs, fee), fee)
      BY <1>1, <2>1, LaunchBalanced
    <3> QED BY <2>1, <3>1, <3>2, <3>3, BuiltStep
  <2> QED BY <2>2, <2>3
<1>7. CASE BuildSplit
  <2>1. UNCHANGED <<tip, request>> /\ step = "funds" /\ request.kind = "split"
    BY <1>7 DEF BuildSplit, Listed, chain
  <2>2. CASE EndsPoor
    BY <2>1, <2>2, OpenStep DEF EndsPoor
  <2>3. CASE ~ EndsPoor
    <3> DEFINE inputs == Collected(Asked)
    <3>1. PICK fee \in Fees : EndsBuilt(inputs, SplitOutputs(inputs, fee))
      BY <1>7, <2>3 DEF BuildSplit
    <3>2. inputs \in SUBSET (1..tip)
      BY InputsKnown
    <3> HIDE DEF inputs
    <3>3. Balanced(inputs, SplitOutputs(inputs, fee), fee)
      BY <1>1, <2>1, SplitBalanced
    <3> QED BY <2>1, <3>1, <3>2, <3>3, BuiltStep
  <2> QED BY <2>2, <2>3
<1>8. CASE AppendIssuer
  <2>1. UNCHANGED <<tip, request>> /\ step = "funds" /\ request.kind = "issuer"
    BY <1>8 DEF AppendIssuer, Listed, chain
  <2>2. CASE EndsPoor
    BY <2>1, <2>2, OpenStep DEF EndsPoor
  <2>3. CASE ~ EndsPoor
    <3> DEFINE inputs == IF IssuerPays THEN Collected(IssuerNeed) ELSE {}
    <3>1. PICK fee \in Fees : EndsBuilt(inputs, IssuerOutputs(inputs, fee))
      BY <1>8, <2>3 DEF AppendIssuer
    <3>2. inputs \in SUBSET (1..tip)
      BY InputsKnown
    <3> HIDE DEF inputs
    <3>3. Balanced(inputs, IssuerOutputs(inputs, fee), fee)
      BY <1>1, SingleBalanced DEF IssuerOutputs
    <3> QED BY <2>1, <3>1, <3>2, <3>3, BuiltStep
  <2> QED BY <2>2, <2>3
<1>9. CASE PayUnlock
  <2>1. UNCHANGED <<tip, request>> /\ step = "funds" /\ request.kind = "unlock"
    BY <1>9 DEF PayUnlock, Listed, chain
  <2>2. CASE EndsPoor
    BY <2>1, <2>2, OpenStep DEF EndsPoor
  <2>3. CASE ~ EndsPoor
    <3>1. PICK fee \in Fees : EndsBuilt(FirstPlain, UnlockOutputs(FirstPlain, fee))
      BY <1>9, <2>3 DEF PayUnlock
    <3>2. UnlockOutputs(FirstPlain, fee)
              = <<PlainCell(request.given + Total(Capacity, FirstPlain)
                              - request.asked - fee)>>
      <4>1. /\ request.given \in Nat /\ request.asked = request.given
            /\ Total(Capacity, FirstPlain) \in Nat /\ fee \in Nat
        <5>1. request.given \in Nat /\ request.asked \in Nat /\ request.given = request.asked
          BY <1>1, <2>1, RequestTypes
        <5>2. Total(Capacity, FirstPlain) \in Nat /\ fee \in Nat
          BY TotalNat, CellsAssumption, CapacityAssumption
        <5> QED BY <5>1, <5>2
      <4>2. request.given + Total(Capacity, FirstPlain) - request.asked - fee
                = Total(Capacity, FirstPlain) - fee
        BY <4>1
      <4> QED BY <4>2 DEF UnlockOutputs
    <3>3. Balanced(FirstPlain, UnlockOutputs(FirstPlain, fee), fee)
      BY <1>1, <3>2, SingleBalanced
    <3> QED BY <2>1, <3>1, <3>3, InputsKnown, BuiltStep
  <2> QED BY <2>2, <2>3
<1>10. ASSUME NEW c \in Cell, Spend(c) PROVE TxInv'
  BY <1>10, ChainStep, CellsAreNumbers DEF Spend, ListInv, Listing
<1>11. CASE Appear
  BY <1>11, ChainStep, CellsAreNumbers DEF Appear, ListInv, Listing
<1>12. CASE UNCHANGED vars
  BY <1>12, ChainStep, CellsAreNumbers DEF vars, chain, ListInv, Listing
<1> QED BY <1>2, <1>3, <1>4, <1>5, <1>6, <1>7, <1>8, <1>9, <1>10, <1>11, <1>12, <1>13 DEF Next

LEMMA TxInvariant == Spec => []TxInv
<1>1. Init => TxInv
  BY DEF Init, TxInv, NoTx, Tx, CapacityBalanced
<1> QED BY <1>1, TxNext, ListInvariant, PTL DEF Spec

\* Every state of a call has the types that TypeOK gives, and a transaction exists exactly
\* when a builder has returned one.
THEOREM FundingTypeCorrect == Spec => []TypeOK
<1>1. ListInv /\ TxInv => TypeOK
  BY DEF ListInv, Listing, TxInv, TypeOK
<1> QED BY <1>1, ListInvariant, TxInvariant, PTL

\* The transaction of every builder balances: whatever part of MAX_FEE was put aside,
\* outputs and the estimated fee take exactly what the inputs give (CapacityBalanced).
THEOREM TransactionsBalance == Spec => []CapacityBalanced
<1>1. TxInv => CapacityBalanced
  BY DEF TxInv
<1> QED BY <1>1, TxInvariant, PTL

-----------------------------------------------------------------------------
(* Amounts and occupied capacity.                                          *)

Amounts(outputs) == [i \in DOMAIN outputs |-> outputs[i].amount]
Viable(outputs) == \A i \in DOMAIN outputs : outputs[i].capacity >= outputs[i].occupied

\* The cells that collectInputs takes reach its target if all of them together do.
LEMMA ShortestReaches ==
    ASSUME NEW f \in [Cell -> Nat], NEW S \in SUBSET Cell, NEW target \in Int,
           Total(f, S) >= target
    PROVE  Total(f, Shortest(f, S, target)) >= target
<1> DEFINE rest == S \ Shortest(f, S, target)
<1>1. CASE rest = {}
  <2>1. Shortest(f, S, target) = S
    BY <1>1 DEF Shortest
  <2> QED BY <2>1
<1>2. CASE rest # {}
  <2>1. PICK c \in rest : \A d \in rest : c <= d
    <3>1. rest \in SUBSET Nat
      BY CellsAreNumbers
    <3> QED BY <1>2, <3>1, LeastExists
  <2> DEFINE below == {d \in S : d < c}
  <2>2. below \subseteq Shortest(f, S, target)
    <3>1. ASSUME NEW d \in S, d < c PROVE d \notin rest
      BY <2>1, <3>1, CellsAreNumbers
    <3> QED BY <3>1
  <2>3. ~ (Total(f, below) < target)
    BY <2>1 DEF Shortest
  <2> HIDE DEF below, rest
  <2>4. Total(f, below) <= Total(f, Shortest(f, S, target))
    BY <2>2, TotalMonotone
  <2>5. Total(f, below) \in Nat /\ Total(f, Shortest(f, S, target)) \in Nat
    BY TotalNat
  <2> QED BY <2>3, <2>4, <2>5
<1> QED BY <1>1, <1>2

LEMMA TotalUnion ==
    ASSUME NEW f \in [Cell -> Nat], NEW S, NEW T, S \cap T = {}
    PROVE  Total(f, S \cup T) = Total(f, S) + Total(f, T)
<1> DEFINE F(U) == [c \in Cell |-> IF c \in U THEN f[c] ELSE 0]
<1>1. \A k \in 1..NumCell : /\ F(S)[k] \in Int /\ F(T)[k] \in Int
                            /\ F(S \cup T)[k] = F(S)[k] + F(T)[k]
  BY CellsAreNumbers
<1> DEFINE a == F(S)
           b == F(T)
           c == F(S \cup T)
<1>2. \A k \in 1..NumCell : a[k] \in Int /\ b[k] \in Int /\ c[k] = a[k] + b[k]
  BY <1>1
<1> HIDE DEF F, a, b, c
<1>3. SumTo(c, NumCell) = SumTo(a, NumCell) + SumTo(b, NumCell)
  BY <1>2, CellsAreNumbers, SumPlus
<1> QED BY <1>3 DEF Total, F, a, b, c

\* Plain cells hold no amount.
LEMMA PlainAmount ==
    ASSUME NEW S \in SUBSET Cell, \A c \in S : Kind[c] = "plain"
    PROVE  Total(Amount, S) = 0
<1> DEFINE F == [c \in Cell |-> IF c \in S THEN Amount[c] ELSE 0]
<1>1. \A k \in 1..NumCell : F[k] = 0
  BY CellsAssumption, CellsAreNumbers
<1> HIDE DEF F
<1>2. SumTo(F, NumCell) = NumCell * 0
  BY <1>1, CellsAreNumbers, SumConstant
<1> QED BY <1>2, CellsAreNumbers DEF Total, F

\* One more output adds its amount, and has to be viable as well.
LEMMA OneMoreCell ==
    ASSUME NEW n \in Nat, NEW outputs \in [1..n -> CkbOutput], NEW o \in CkbOutput
    PROVE  /\ outputs \o <<o>> \in [1..(n + 1) -> CkbOutput]
           /\ Sum(Amounts(outputs)) \in Int
           /\ Sum(Amounts(outputs \o <<o>>)) = Sum(Amounts(outputs)) + o.amount
           /\ Viable(outputs) /\ o.capacity >= o.occupied => Viable(outputs \o <<o>>)
<1> DEFINE more == outputs \o <<o>>
<1>1. outputs \in Seq(CkbOutput) /\ Len(outputs) = n /\ DOMAIN outputs = 1..n
  OBVIOUS
<1>2. Len(more) = n + 1 /\ DOMAIN more = 1..(n + 1) /\ more \in Seq(CkbOutput)
  BY <1>1
<1>3. (\A k \in 1..n : more[k] = outputs[k]) /\ more[n + 1] = o
  BY <1>1
<1> HIDE DEF more
<1>4. more \in [1..(n + 1) -> CkbOutput]
  BY <1>2
<1>5. /\ Amounts(outputs) \in [1..n -> Nat] /\ Amounts(more) \in [1..(n + 1) -> Nat]
      /\ \A k \in 1..n : Amounts(more)[k] = Amounts(outputs)[k]
      /\ Amounts(more)[n + 1] = o.amount
  <2>1. \A k \in 1..n : outputs[k].amount \in Nat
    BY DEF CkbOutput
  <2>2. \A k \in 1..(n + 1) : more[k].amount \in Nat
    BY <1>4 DEF CkbOutput
  <2>3. n + 1 \in 1..(n + 1) /\ \A k \in 1..n : k \in 1..(n + 1)
    OBVIOUS
  <2> QED BY <1>1, <1>2, <1>3, <2>1, <2>2, <2>3 DEF Amounts
<1> DEFINE a == Amounts(outputs)
           b == Amounts(more)
<1>6. /\ \A k \in 1..n : a[k] \in Int /\ b[k] = a[k]
      /\ \A k \in 1..(n + 1) : b[k] \in Int
  BY <1>5
<1>7. Sum(a) = SumTo(a, n) /\ Sum(b) = SumTo(b, n + 1)
  <2>1. a \in [1..n -> Int] /\ b \in [1..(n + 1) -> Int] /\ n + 1 \in Nat
    BY <1>5
  <2> HIDE DEF a, b
  <2> QED BY <2>1, SumOverSequence
<1>8. b[n + 1] = o.amount
  BY <1>5
<1> HIDE DEF a, b
<1>9. SumTo(b, n + 1) = SumTo(b, n) + b[n + 1] /\ SumTo(b, n) = SumTo(a, n) /\ SumTo(a, n) \in Int
  BY <1>6, SumOneMore, SumSame, SumInt
<1>10. Viable(outputs) /\ o.capacity >= o.occupied => Viable(more)
  BY <1>1, <1>2, <1>3 DEF Viable
<1> QED BY <1>4, <1>7, <1>8, <1>9, <1>10 DEF a, b, more

LEMMA OneCell ==
    ASSUME NEW o \in CkbOutput
    PROVE  /\ <<o>> \in [1..1 -> CkbOutput]
           /\ Sum(Amounts(<<o>>)) = o.amount
           /\ o.capacity >= o.occupied => Viable(<<o>>)
<1> DEFINE none == [k \in 1..0 |-> o]
<1>1. none \in [1..0 -> CkbOutput] /\ none \o <<o>> = <<o>> /\ Viable(none)
  BY DEF Viable
<1>2. Sum(Amounts(none)) = 0
  <2> DEFINE a == Amounts(none)
  <2>1. a \in [1..0 -> Int]
    BY DEF Amounts
  <2> HIDE DEF a
  <2>2. Sum(a) = SumTo(a, 0)
    BY <2>1, SumOverSequence
  <2> QED BY <2>2, SumNone DEF a
<1>3. o.amount \in Nat
  BY DEF CkbOutput
<1> HIDE DEF none
<1>4. /\ none \o <<o>> \in [1..(0 + 1) -> CkbOutput]
      /\ Sum(Amounts(none \o <<o>>)) = Sum(Amounts(none)) + o.amount
      /\ Viable(none) /\ o.capacity >= o.occupied => Viable(none \o <<o>>)
  BY <1>1, OneMoreCell
<1> QED BY <1>1, <1>2, <1>3, <1>4

\* The cells of a move: receivers and change hold the amounts of the assets, and all of
\* them are viable if the plain change is.
LEMMA MoveCells ==
    ASSUME request \in Requests, request.kind \in Moves, NEW fee \in Fees, NEW inputs
    PROVE  LET udtCapacity == IF AssetChange > 0 THEN UdtCapacity ELSE 0
               outs == MoveOutputs(inputs, fee)
           IN  /\ AssetChange >= 0 => Sum(Amounts(outs)) = Total(Amount, assets')
               /\ Total(Capacity, inputs) >=
                      NumReceivers * ReceiverCapacity + udtCapacity + MinCapacity + MaxFee
                  => Viable(outs)
<1> DEFINE n == NumReceivers
           total == Total(Capacity, inputs)
           udtCapacity == IF AssetChange > 0 THEN UdtCapacity ELSE 0
           first == [k \in 1..n |-> Output(ReceiverCapacity, ReceiverOccupied, request.amounts[k])]
           udt == Output(UdtCapacity, UdtOccupied, AssetChange)
           spare == total - n * ReceiverCapacity - MaxFee - udtCapacity + (MaxFee - fee)
           change == PlainCell(spare)
           outs == MoveOutputs(inputs, fee)
<1>1. /\ n \in Nat /\ Asked \in Nat /\ \A k \in 1..n : request.amounts[k] \in Nat
      /\ Asked = SumTo(request.amounts, n)
  BY RequestTypes
<1>2. /\ ReceiverCapacity \in Nat /\ ReceiverOccupied \in Nat /\ UdtCapacity \in Nat
      /\ UdtOccupied \in Nat /\ MaxFee \in Nat /\ fee \in Nat /\ MinCapacity \in Nat
      /\ fee <= MaxFee
  BY CapacityAssumption DEF ReceiverCapacity, ReceiverOccupied
<1>3. ReceiverOccupied <= ReceiverCapacity /\ UdtOccupied <= UdtCapacity
  <2>1. RgbppOccupied <= RgbppCapacity
    BY CapacityAssumption, OccupiedAssumption
  <2> QED BY <2>1, OccupiedAssumption DEF ReceiverCapacity, ReceiverOccupied
<1>4. total \in Nat /\ Total(Amount, assets') \in Nat /\ AssetChange = Total(Amount, assets') - Asked
  BY CellsAssumption, TotalNat DEF AssetChange
<1>5. /\ n * ReceiverCapacity \in Int /\ udtCapacity \in Nat /\ spare \in Int
      /\ spare = total - (n * ReceiverCapacity + udtCapacity) - fee
  <2>1. n * ReceiverCapacity \in Int /\ udtCapacity \in Nat
    BY <1>1, <1>2
  <2> HIDE DEF n, total, udtCapacity
  <2> QED BY <1>2, <1>4, <2>1
<1>6. /\ first \in [1..n -> CkbOutput] /\ Viable(first)
      /\ \A k \in 1..n : first[k].amount = request.amounts[k]
  BY <1>1, <1>2, <1>3 DEF Output, CkbOutput, Viable
<1>7. AssetChange > 0 => /\ udt \in CkbOutput /\ udt.amount = AssetChange
                         /\ udt.capacity >= udt.occupied
  BY <1>1, <1>2, <1>3, <1>4 DEF Output, CkbOutput
<1>8. /\ change \in CkbOutput /\ change.amount = 0
      /\ spare >= MinCapacity => change.capacity >= change.occupied
  <2> HIDE DEF spare
  <2> QED BY <1>2, <1>5 DEF PlainCell, Output, CkbOutput
<1>9. outs = first \o (IF AssetChange > 0 THEN <<udt>> ELSE <<>>) \o <<change>>
  BY DEF MoveOutputs
<1>10. Sum(Amounts(first)) = Asked
  <2> DEFINE a == Amounts(first)
  <2>1. a \in [1..n -> Int] /\ \A k \in 1..n : request.amounts[k] \in Int /\ a[k] = request.amounts[k]
    BY <1>1, <1>6 DEF Amounts
  <2> HIDE DEF a, n
  <2>2. Sum(a) = SumTo(a, n)
    BY <1>1, <2>1, SumOverSequence
  <2> QED BY <1>1, <2>1, <2>2, SumSame DEF a
<1>11. total >= n * ReceiverCapacity + udtCapacity + MinCapacity + MaxFee => spare >= MinCapacity
  <2> HIDE DEF n, total, udtCapacity, spare
  <2> QED BY <1>2, <1>4, <1>5
<1>12. /\ AssetChange >= 0 => Sum(Amounts(outs)) = Total(Amount, assets')
       /\ spare >= MinCapacity => Viable(outs)
  <2>1. CASE AssetChange > 0
    <3> HIDE DEF n, first, change, total, outs, udt, spare
    <3> DEFINE more == first \o <<udt>>
               m == n + 1
    <3>1. outs = more \o <<change>>
      BY <1>9, <2>1
    <3>2. /\ more \in [1..m -> CkbOutput] /\ m \in Nat /\ Viable(more)
          /\ Sum(Amounts(more)) = Asked + AssetChange
      BY <1>1, <1>6, <1>7, <1>10, <2>1, OneMoreCell
    <3> HIDE DEF more, m
    <3>3. /\ Sum(Amounts(outs)) = Sum(Amounts(more)) + 0
          /\ spare >= MinCapacity => Viable(outs)
      BY <1>8, <3>1, <3>2, OneMoreCell
    <3> QED BY <1>1, <1>4, <3>2, <3>3
  <2>2. CASE ~ (AssetChange > 0)
    <3> HIDE DEF n, first, change, total, outs, udt, spare
    <3>1. outs = first \o <<change>>
      <4>1. first \o <<>> = first
        BY <1>1, <1>6
      <4> QED BY <1>9, <2>2, <4>1
    <3>2. /\ Sum(Amounts(outs)) = Asked + 0
          /\ spare >= MinCapacity => Viable(outs)
      <4>1. /\ Sum(Amounts(first \o <<change>>)) = Sum(Amounts(first)) + change.amount
            /\ Viable(first) /\ change.capacity >= change.occupied
                 => Viable(first \o <<change>>)
        BY <1>1, <1>6, <1>8, OneMoreCell
      <4> QED BY <1>6, <1>8, <1>10, <3>1, <4>1
    <3>3. AssetChange >= 0 => Total(Amount, assets') = Asked + 0
      BY <1>1, <1>4, <2>2
    <3> QED BY <3>2, <3>3
  <2> QED BY <2>1, <2>2
<1> HIDE DEF spare
<1> QED BY <1>11, <1>12

\* The cells of the other builders hold no amount.
LEMMA SplitCells ==
    ASSUME request \in Requests, request.kind = "split", NEW fee \in Fees, NEW inputs
    PROVE  LET outs == SplitOutputs(inputs, fee)
           IN  /\ Sum(Amounts(outs)) = 0
               /\ /\ Total(Capacity, inputs) >= Asked + MinCapacity + MaxFee
                  /\ \A k \in 1..NumReceivers : request.amounts[k] >= MinCapacity
                  => Viable(outs)
<1> DEFINE n == NumReceivers
           total == Total(Capacity, inputs)
           first == [k \in 1..n |-> PlainCell(request.amounts[k])]
           spare == total - Asked - MaxFee + (MaxFee - fee)
           change == PlainCell(spare)
           outs == SplitOutputs(inputs, fee)
<1>1. n \in Nat /\ Asked \in Nat /\ \A k \in 1..n : request.amounts[k] \in Nat
  BY RequestTypes
<1>2. /\ total \in Nat /\ MaxFee \in Nat /\ fee \in Nat /\ MinCapacity \in Nat
      /\ fee <= MaxFee
  BY CellsAssumption, CapacityAssumption, TotalNat
<1>3. /\ first \in [1..n -> CkbOutput] /\ \A k \in 1..n : first[k].amount = 0
      /\ (\A k \in 1..n : request.amounts[k] >= MinCapacity) => Viable(first)
  BY <1>1, <1>2 DEF PlainCell, Output, CkbOutput, Viable
<1>4. /\ change \in CkbOutput /\ change.amount = 0
      /\ total >= Asked + MinCapacity + MaxFee => change.capacity >= change.occupied
  <2> HIDE DEF total
  <2>1. spare \in Int /\ spare = total - Asked - fee
    BY <1>1, <1>2
  <2>2. total >= Asked + MinCapacity + MaxFee => spare >= MinCapacity
    BY <1>1, <1>2, <2>1
  <2> HIDE DEF spare
  <2> QED BY <1>2, <2>1, <2>2 DEF PlainCell, Output, CkbOutput
<1>5. outs = first \o <<change>>
  BY DEF SplitOutputs
<1>6. Sum(Amounts(first)) = 0
  <2> DEFINE a == Amounts(first)
  <2>1. a \in [1..n -> Int] /\ \A k \in 1..n : a[k] = 0
    BY <1>3 DEF Amounts
  <2> HIDE DEF a, n
  <2>2. Sum(a) = SumTo(a, n) /\ SumTo(a, n) = n * 0
    BY <1>1, <2>1, SumOverSequence, SumConstant
  <2> QED BY <1>1, <2>2 DEF a
<1> HIDE DEF n, first, change, total, outs
<1>7. /\ Sum(Amounts(outs)) = Sum(Amounts(first)) + 0
      /\ Viable(first) /\ change.capacity >= change.occupied => Viable(outs)
  BY <1>1, <1>3, <1>4, <1>5, OneMoreCell
<1> QED BY <1>3, <1>4, <1>6, <1>7 DEF n, total, outs

LEMMA SingleCell ==
    ASSUME NEW rest \in Int
    PROVE  /\ Sum(Amounts(<<PlainCell(rest)>>)) = 0
           /\ rest >= MinCapacity => Viable(<<PlainCell(rest)>>)
<1> DEFINE o == PlainCell(rest)
<1>1. o \in CkbOutput /\ o.capacity = rest /\ o.occupied = MinCapacity /\ o.amount = 0
  BY CapacityAssumption DEF PlainCell, Output, CkbOutput
<1> HIDE DEF o
<1>2. Sum(Amounts(<<o>>)) = 0 /\ (rest >= MinCapacity => Viable(<<o>>))
  BY <1>1, OneCell
<1> QED BY <1>2 DEF o

LEMMA LaunchCells ==
    ASSUME NEW fee \in Fees, NEW inputs
    PROVE  LET outs == LaunchOutputs(inputs, fee)
           IN  /\ Sum(Amounts(outs)) = 0
               /\ Total(Capacity, inputs) >= RgbppCapacity + InfoCapacity => Viable(outs)
<1> DEFINE total == Total(Capacity, inputs)
           o == Output(total - InfoCapacity - fee, RgbppOccupied, 0)
           info == Output(InfoCapacity, InfoCapacity, 0)
           one == <<o>>
           outs == one \o <<info>>
           m == 1
<1>1. /\ fee \in Nat /\ total \in Nat /\ RgbppOccupied \in Nat /\ InfoCapacity \in Nat
      /\ RgbppCapacity \in Nat /\ MaxFee \in Nat /\ fee <= MaxFee
      /\ RgbppOccupied + MaxFee <= RgbppCapacity
  BY CellsAssumption, CapacityAssumption, OccupiedAssumption, TotalNat
<1>2. /\ o \in CkbOutput /\ o.amount = 0
      /\ total >= RgbppCapacity + InfoCapacity => o.capacity >= o.occupied
      /\ info \in CkbOutput /\ info.amount = 0 /\ info.capacity >= info.occupied
  <2> HIDE DEF total
  <2> QED BY <1>1 DEF Output, CkbOutput
<1>3. LaunchOutputs(inputs, fee) = outs
  BY DEF LaunchOutputs
<1> HIDE DEF o, info, total
<1>4. /\ one \in [1..m -> CkbOutput] /\ m \in Nat /\ Sum(Amounts(one)) = 0
      /\ o.capacity >= o.occupied => Viable(one)
  BY <1>2, OneCell
<1> HIDE DEF one, m
<1>5. /\ Sum(Amounts(outs)) = Sum(Amounts(one)) + 0
      /\ Viable(one) => Viable(outs)
  BY <1>2, <1>4, OneMoreCell
<1> QED BY <1>2, <1>3, <1>4, <1>5 DEF total

LEMMA IssueCells ==
    ASSUME NEW fee \in Fees, NEW inputs
    PROVE  LET outs == IssueOutputs(inputs, fee)
           IN  /\ Sum(Amounts(outs)) = 0
               /\ Total(Capacity, inputs) >= UdtCapacity + InfoCapacity + MinCapacity + MaxFee
                  => Viable(outs)
<1> DEFINE total == Total(Capacity, inputs)
           udt == Output(UdtCapacity, UdtOccupied, 0)
           info == Output(InfoCapacity, InfoCapacity, 0)
           change == PlainCell(total - UdtCapacity - InfoCapacity - fee)
           one == <<udt>>
           two == one \o <<info>>
           outs == two \o <<change>>
           m == 1
           n == 2
<1>1. /\ fee \in Nat /\ total \in Nat /\ UdtCapacity \in Nat /\ UdtOccupied \in Nat
      /\ InfoCapacity \in Nat /\ MinCapacity \in Nat /\ MaxFee \in Nat /\ fee <= MaxFee
      /\ UdtOccupied <= UdtCapacity
  BY CellsAssumption, CapacityAssumption, OccupiedAssumption, TotalNat
<1>2. /\ udt \in CkbOutput /\ udt.amount = 0 /\ udt.capacity >= udt.occupied
      /\ info \in CkbOutput /\ info.amount = 0 /\ info.capacity >= info.occupied
      /\ change \in CkbOutput /\ change.amount = 0
      /\ total >= UdtCapacity + InfoCapacity + MinCapacity + MaxFee
         => change.capacity >= change.occupied
  <2> HIDE DEF total
  <2> QED BY <1>1 DEF PlainCell, Output, CkbOutput
<1>3. IssueOutputs(inputs, fee) = outs
  BY DEF IssueOutputs
<1> HIDE DEF udt, info, change, total
<1>4. one \in [1..m -> CkbOutput] /\ m \in Nat /\ Sum(Amounts(one)) = 0 /\ Viable(one)
  BY <1>2, OneCell
<1>5. m + 1 = n
  OBVIOUS
<1> HIDE DEF one, m
<1>6. two \in [1..n -> CkbOutput] /\ n \in Nat /\ Sum(Amounts(two)) = 0 /\ Viable(two)
  BY <1>2, <1>4, <1>5, OneMoreCell
<1> HIDE DEF two, n
<1>7. /\ Sum(Amounts(outs)) = 0
      /\ change.capacity >= change.occupied => Viable(outs)
  BY <1>2, <1>6, OneMoreCell
<1> QED BY <1>2, <1>3, <1>7 DEF total

-----------------------------------------------------------------------------
(* What the builders are called with.                                      *)

\* The cells that hold the xUDT are told from the others, and those that were chosen hold
\* what is asked for: the listing of the second cells begins only then.
Chosen ==
    /\ \A c \in assets : Kind[c] = "asset"
    /\ step = "assets" => \A c \in answer : Kind[c] = "asset"
    /\ step = "funds" /\ request.kind \in Moves => Total(Amount, assets) >= Asked

CellsInv == Chosen /\ NothingBurned /\ OutputsViableIfPrepared

LEMMA CellsBuilt ==
    ASSUME UNCHANGED request, NEW inputs, NEW outputs, EndsBuilt(inputs, outputs),
           \A c \in assets' : Kind[c] = "asset",
           Total(Amount, inputs) = Sum(Amounts(outputs)),
           \A c \in inputs : Kind[c] = "plain" \/ (request.kind \in Moves /\ Kind[c] = "asset"),
           Prepared' => Viable(outputs)
    PROVE  CellsInv'
<1>1. tx' = [inputs |-> inputs, outputs |-> outputs] /\ step' = "built"
  BY DEF EndsBuilt, Tx
<1>2. Chosen'
  BY <1>1 DEF Chosen
<1>3. NothingBurned'
  <2>1. /\ Total(Amount, tx.inputs)' = Total(Amount, inputs)
        /\ Sum([i \in DOMAIN tx.outputs |-> tx.outputs[i].amount])' = Sum(Amounts(outputs))
    BY <1>1 DEF Total, Sum, Amounts
  <2> QED BY <1>1, <2>1 DEF NothingBurned
<1>4. OutputsViableIfPrepared'
  BY <1>1 DEF OutputsViableIfPrepared, OutputsViable, Viable
<1> QED BY <1>2, <1>3, <1>4 DEF CellsInv

\* As long as nothing is built, only the choice counts.
LEMMA CellsOpen ==
    ASSUME step' # "built", Chosen'
    PROVE  CellsInv'
BY DEF CellsInv, NothingBurned, OutputsViableIfPrepared, OutputsViable

LEMMA CellsStay ==
    ASSUME CellsInv, UNCHANGED call
    PROVE  CellsInv'
BY DEF CellsInv, Chosen, NothingBurned, OutputsViableIfPrepared, OutputsViable, Prepared,
       Taken, ReceiverCapacity, NumReceivers, Asked, Sum, Total, IssuerPays, call

\* The assets of a listing are of the asset, and reach what is asked for.
LEMMA AssetsChosen ==
    ASSUME ListInv, Chosen, step = "assets", assets' = Shortest(Amount, answer, Asked),
           ~ (Total(Amount, answer) < Asked)
    PROVE  /\ assets' \in SUBSET Cell /\ \A c \in assets' : Kind[c] = "asset"
           /\ Total(Amount, assets') >= Asked
<1>1. answer \in SUBSET Cell /\ request \in Requests
  BY CellsAreNumbers DEF ListInv, Listing
<1>2. Total(Amount, answer) \in Nat /\ Asked \in Nat
  BY <1>1, RequestTypes, CellsAssumption, TotalNat
<1>3. Total(Amount, answer) >= Asked
  BY <1>2
<1>4. Total(Amount, Shortest(Amount, answer, Asked)) >= Asked
  BY <1>1, <1>2, <1>3, CellsAssumption, ShortestReaches
<1> QED BY <1>1, <1>4 DEF Shortest, Chosen

\* Plain cells that collectInputs takes reach its target.
LEMMA CollectedReaches ==
    ASSUME ListInv, NEW need \in Int, ~ (Total(Capacity, Plain) < CollectTarget(need))
    PROVE  /\ Collected(need) \in SUBSET Cell /\ \A c \in Collected(need) : Kind[c] = "plain"
           /\ Total(Amount, Collected(need)) = 0
           /\ Total(Capacity, Collected(need)) >= need + MinCapacity + MaxFee
<1>1. Plain \in SUBSET Cell /\ \A c \in Plain : Kind[c] = "plain"
  <2>1. answer \in SUBSET Cell
    BY CellsAreNumbers DEF ListInv, Listing
  <2> QED BY <2>1 DEF Plain
<1>2. MinCapacity \in Nat /\ MaxFee \in Nat /\ Total(Capacity, Plain) \in Nat
  BY CapacityAssumption, CellsAssumption, TotalNat
<1>3. /\ CollectTarget(need) \in Int /\ CollectTarget(need) = need + MinCapacity + MaxFee
      /\ Total(Capacity, Plain) >= CollectTarget(need)
  BY <1>2 DEF CollectTarget
<1>4. Total(Capacity, Shortest(Capacity, Plain, CollectTarget(need))) >= CollectTarget(need)
  BY <1>1, <1>3, CellsAssumption, ShortestReaches
<1>5. Total(Capacity, Collected(need)) >= CollectTarget(need)
  BY <1>3, <1>4 DEF Collected
<1>6. Collected(need) \in SUBSET Cell /\ \A c \in Collected(need) : Kind[c] = "plain"
  BY <1>1 DEF Collected, Shortest
<1> QED BY <1>3, <1>5, <1>6, PlainAmount

\* The move that its assets pay for.
LEMMA AssetsMove ==
    ASSUME ListInv, Chosen, step = "assets", UNCHANGED request,
           assets' = Shortest(Amount, answer, Asked), ~ (Total(Amount, answer) < Asked),
           AssetsPay(assets'), NEW fee \in Fees, EndsBuilt(assets', MoveOutputs(assets', fee))
    PROVE  CellsInv'
<1> DEFINE outs == MoveOutputs(assets', fee)
           total == Total(Capacity, assets')
           udtCapacity == IF AssetChange > 0 THEN UdtCapacity ELSE 0
           held == NumReceivers * ReceiverCapacity
<1>1. request \in Requests /\ request.kind \in Moves
  BY DEF ListInv, Listing
<1>2. /\ assets' \in SUBSET Cell /\ \A c \in assets' : Kind[c] = "asset"
      /\ Total(Amount, assets') >= Asked
  BY AssetsChosen
<1>3. /\ Total(Amount, assets') \in Nat /\ Asked \in Nat /\ total \in Nat
      /\ AssetChange \in Int /\ AssetChange >= 0
      /\ AssetChange > 0 <=> Total(Amount, assets') > Asked
  <2>1. Total(Amount, assets') \in Nat /\ Asked \in Nat /\ total \in Nat
    BY <1>1, RequestTypes, CellsAssumption, TotalNat
  <2> QED BY <1>2, <2>1 DEF AssetChange
<1>4. /\ AssetChange >= 0 => Sum(Amounts(outs)) = Total(Amount, assets')
      /\ total >= held + udtCapacity + MinCapacity + MaxFee => Viable(outs)
  BY <1>1, MoveCells, SMTT(20)
<1>5. tx'.inputs = assets'
  BY DEF EndsBuilt, Tx
<1>6. /\ UdtCapacity \in Nat /\ RgbppCapacity \in Nat /\ MinCapacity \in Nat /\ MaxFee \in Nat
      /\ NumReceivers \in Nat /\ held \in Int
  BY <1>1, RequestTypes, CapacityAssumption DEF ReceiverCapacity
<1>7. Prepared' => total >= held + udtCapacity + MinCapacity + MaxFee
  <2>1. CASE request.kind = "jump"
    <3>1. held = NumReceivers * RgbppCapacity
      BY <2>1 DEF ReceiverCapacity
    <3>2. total >= UdtCapacity + held + MinCapacity + MaxFee
      BY <2>1, <3>1 DEF AssetsPay
    <3>3. udtCapacity \in Nat /\ udtCapacity <= UdtCapacity
      BY <1>6
    <3> HIDE DEF held, udtCapacity, total
    <3> QED BY <1>3, <1>6, <3>2, <3>3
  <2>2. CASE request.kind \in {"transfer", "timeCell"}
    <3>1. Taken(assets)' = held + udtCapacity
      BY <1>3 DEF Taken, NumReceivers, ReceiverCapacity, Asked, Sum, Total
    <3>2. Total(Capacity, assets)' = total
      BY DEF Total
    <3>3. Prepared' => Total(Capacity, assets)' >= Taken(assets)' + MinCapacity + MaxFee
      BY <1>5, <2>2 DEF Prepared
    <3> QED BY <3>1, <3>2, <3>3
  <2> QED BY <1>1, <2>1, <2>2 DEF Moves
<1> HIDE DEF outs, total, udtCapacity, held
<1> QED BY <1>1, <1>2, <1>3, <1>4, <1>7, CellsBuilt DEF outs

\* The move that plain cells pay for.
LEMMA FundsMove ==
    ASSUME ListInv, Chosen, step = "funds", UNCHANGED <<request, assets>>, request.kind \in Moves,
           ~ (Total(Capacity, Plain) < CollectTarget(FundsNeed)), NEW fee \in Fees,
           EndsBuilt(assets \cup Collected(FundsNeed),
                     MoveOutputs(assets \cup Collected(FundsNeed), fee))
    PROVE  CellsInv'
<1> DEFINE funds == Collected(FundsNeed)
           inputs == assets \cup funds
           outs == MoveOutputs(inputs, fee)
           total == Total(Capacity, inputs)
           udtCapacity == IF AssetChange > 0 THEN UdtCapacity ELSE 0
           held == NumReceivers * ReceiverCapacity
<1>1. request \in Requests /\ assets \in SUBSET Cell
  BY CellsAreNumbers DEF ListInv, Listing
<1>2. /\ \A c \in assets : Kind[c] = "asset"
      /\ Total(Amount, assets) >= Asked
  BY DEF Chosen
<1>3. /\ Total(Amount, assets) \in Nat /\ Asked \in Nat /\ Total(Capacity, assets) \in Nat
      /\ Total(Amount, funds) \in Nat /\ Total(Capacity, funds) \in Nat
      /\ AssetChange = Total(Amount, assets) - Asked
  <2>1. Total(Amount, assets') = Total(Amount, assets)
    OBVIOUS
  <2> QED BY <1>1, <2>1, RequestTypes, CellsAssumption, TotalNat DEF AssetChange
<1>4. /\ UdtCapacity \in Nat /\ RgbppCapacity \in Nat /\ MinCapacity \in Nat /\ MaxFee \in Nat
      /\ NumReceivers \in Nat /\ held \in Int /\ udtCapacity \in Nat /\ fee \in 1..MaxFee
  BY <1>1, RequestTypes, CapacityAssumption DEF ReceiverCapacity
<1>5. Taken(assets) = held + udtCapacity
  <2>1. AssetChange > 0 <=> Total(Amount, assets) > Asked
    BY <1>3
  <2>2. udtCapacity = IF Total(Amount, assets) > Asked THEN UdtCapacity ELSE 0
    BY <2>1
  <2> HIDE DEF udtCapacity
  <2> QED BY <2>2 DEF Taken
<1>6. FundsNeed \in Int
  BY <1>3, <1>4, <1>5 DEF FundsNeed
<1>7. /\ funds \in SUBSET Cell /\ \A c \in funds : Kind[c] = "plain"
      /\ Total(Amount, funds) = 0
      /\ Total(Capacity, funds) >= FundsNeed + MinCapacity + MaxFee
  BY <1>6, CollectedReaches
<1>8. assets \cap funds = {}
  BY <1>2, <1>7
<1>9. total = Total(Capacity, assets) + Total(Capacity, funds)
  <2> HIDE DEF funds
  <2> QED BY <1>8, CellsAssumption, TotalUnion
<1>10. Total(Amount, inputs) = Total(Amount, assets)
  <2> HIDE DEF funds
  <2>1. Total(Amount, inputs) = Total(Amount, assets) + Total(Amount, funds)
    BY <1>8, CellsAssumption, TotalUnion
  <2> QED BY <1>3, <1>7, <2>1
<1>11. /\ AssetChange >= 0 => Sum(Amounts(outs)) = Total(Amount, assets')
       /\ total >= held + udtCapacity + MinCapacity + MaxFee => Viable(outs)
  BY <1>1, MoveCells
<1>12. Prepared' => total >= held + udtCapacity + MinCapacity + MaxFee
  <2>1. CASE request.kind = "jump"
    <3>1. FundsNeed = RgbppCapacity
      BY <2>1 DEF FundsNeed
    <3>2. funds # {}
      <4>1. SUFFICES ASSUME funds = {} PROVE FALSE
        OBVIOUS
      <4>2. Total(Capacity, funds) = Total(Capacity, assets) - Total(Capacity, assets)
        <5>1. inputs = assets
          BY <4>1
        <5>2. total = Total(Capacity, assets)
          BY <5>1
        <5> HIDE DEF funds, total
        <5> QED BY <1>3, <1>9, <5>2
      <4> HIDE DEF funds
      <4> QED BY <1>3, <1>4, <1>7, <3>1, <4>2
    <3>3. inputs # assets
      BY <1>8, <3>2
    <3>4. Prepared' => NumReceivers = 1 /\ Total(Capacity, assets) >= UdtCapacity
      <4>1. tx'.inputs = inputs /\ assets' = assets /\ NumReceivers' = NumReceivers
        BY DEF EndsBuilt, Tx, NumReceivers
      <4>2. Total(Capacity, assets)' = Total(Capacity, assets)
        BY DEF Total
      <4> HIDE DEF inputs
      <4> QED BY <2>1, <3>3, <4>1, <4>2 DEF Prepared
    <3>5. ReceiverCapacity = RgbppCapacity
      BY <2>1 DEF ReceiverCapacity
    <3>6. NumReceivers = 1 => held = RgbppCapacity
      BY <1>4, <3>5
    <3>7. udtCapacity <= UdtCapacity
      BY <1>4
    <3> HIDE DEF held, udtCapacity, total, funds
    <3> QED BY <1>3, <1>4, <1>7, <1>9, <3>1, <3>4, <3>6, <3>7
  <2>2. CASE request.kind # "jump"
    <3>1. FundsNeed = held + udtCapacity - Total(Capacity, assets)
      <4>1. FundsNeed = Taken(assets) - Total(Capacity, assets)
        BY <2>2 DEF FundsNeed
      <4> HIDE DEF held, udtCapacity
      <4> QED BY <1>3, <1>4, <1>5, <4>1
    <3> HIDE DEF held, udtCapacity, total, funds
    <3> QED BY <1>3, <1>4, <1>7, <1>9, <3>1
  <2> QED BY <2>1, <2>2
<1>13. AssetChange >= 0
  BY <1>2, <1>3
<1>14. /\ Total(Amount, inputs) = Sum(Amounts(outs))
       /\ \A c \in inputs : Kind[c] = "plain" \/ (request.kind \in Moves /\ Kind[c] = "asset")
       /\ \A c \in assets' : Kind[c] = "asset"
  <2>1. Total(Amount, assets') = Total(Amount, assets)
    OBVIOUS
  <2> QED BY <1>2, <1>7, <1>10, <1>11, <1>13, <2>1
<1> HIDE DEF outs, total, udtCapacity, held, funds
<1> QED BY <1>11, <1>12, <1>14, CellsBuilt DEF outs, funds

\* A builder of plain cells alone.
LEMMA PlainMove ==
    ASSUME ListInv, Chosen, UNCHANGED <<request, assets>>, NEW inputs \in SUBSET Cell,
           \A c \in inputs : Kind[c] = "plain", NEW outputs, EndsBuilt(inputs, outputs),
           Sum(Amounts(outputs)) = 0, Prepared' => Viable(outputs)
    PROVE  CellsInv'
<1>1. Total(Amount, inputs) = 0
  BY PlainAmount
<1>2. \A c \in assets' : Kind[c] = "asset"
  BY DEF Chosen
<1> QED BY <1>1, <1>2, CellsBuilt

LEMMA CellsNext == ListInv /\ CellsInv /\ [Next]_vars => CellsInv'
<1> SUFFICES ASSUME ListInv, CellsInv, [Next]_vars PROVE CellsInv'
  OBVIOUS
<1>0. /\ request \in Requests /\ Chosen
      /\ step = "assets" => request.kind \in Moves
      /\ MinCapacity \in Nat /\ MaxFee \in Nat /\ UdtCapacity \in Nat /\ InfoCapacity \in Nat
      /\ RgbppCapacity \in Nat
      /\ Asked \in Nat /\ request.given \in Nat /\ request.asked \in Nat
      /\ \A fee \in Fees : fee \in Nat /\ fee <= MaxFee
  BY RequestTypes, CapacityAssumption DEF ListInv, Listing, CellsInv
<1>1. CASE ReadPage
  <2>1. UNCHANGED <<request, step, assets>> /\ answer' = answer \cup Page
        /\ step \in {"assets", "funds"}
    BY <1>1 DEF ReadPage
  <2>2. step = "assets" => \A c \in Page : Kind[c] = "asset"
    BY PageInBehind DEF Searched
  <2>3. Total(Amount, assets)' = Total(Amount, assets) /\ Asked' = Asked
    BY <2>1 DEF Total, Asked, Sum
  <2>4. Chosen'
    BY <1>0, <2>1, <2>2, <2>3 DEF Chosen
  <2> QED BY <2>1, <2>4, CellsOpen
<1>2. CASE ReadFails
  <2>1. UNCHANGED <<request, assets, answer>> /\ step' = "failed"
    BY <1>2 DEF ReadFails
  <2> QED BY <1>0, <2>1, CellsOpen DEF Chosen
<1>3. CASE CollectAssets
  <2>1. UNCHANGED request /\ step = "assets"
    BY <1>3 DEF CollectAssets, Listed
  <2>2. CASE EndsPoor
    BY <1>0, <2>2, CellsOpen DEF EndsPoor, Chosen
  <2>3. CASE ~ EndsPoor
    <3>1. /\ ~ (Total(Amount, answer) < Asked)
          /\ assets' = Shortest(Amount, answer, Asked)
      BY <1>3, <2>3 DEF CollectAssets
    <3>2. CASE AssetsPay(assets')
      <4>1. PICK fee \in Fees : EndsBuilt(assets', MoveOutputs(assets', fee))
        BY <1>3, <2>3, <3>2 DEF CollectAssets
      <4> QED BY <1>0, <2>1, <3>1, <3>2, <4>1, AssetsMove
    <3>3. CASE ~ AssetsPay(assets')
      <4>1. step' = "funds"
        BY <1>3, <2>3, <3>3 DEF CollectAssets
      <4>2. (\A c \in assets' : Kind[c] = "asset") /\ Total(Amount, assets') >= Asked
        BY <1>0, <2>1, <3>1, AssetsChosen
      <4>3. Total(Amount, assets)' = Total(Amount, assets') /\ Asked' = Asked
        BY <2>1 DEF Total, Asked, Sum
      <4>4. Chosen'
        BY <4>1, <4>2, <4>3 DEF Chosen
      <4> QED BY <4>1, <4>4, CellsOpen
    <3> QED BY <3>2, <3>3
  <2> QED BY <2>2, <2>3
<1>4. CASE CollectFunds
  <2>1. UNCHANGED request /\ step = "funds" /\ request.kind \in Moves
    BY <1>4 DEF CollectFunds, Listed
  <2>2. CASE EndsPoor
    BY <1>0, <2>2, CellsOpen DEF EndsPoor, Chosen
  <2>3. CASE ~ EndsPoor
    <3>1. /\ ~ (Total(Capacity, Plain) < CollectTarget(FundsNeed)) /\ UNCHANGED assets
          /\ \E fee \in Fees : EndsBuilt(assets \cup Collected(FundsNeed),
                                         MoveOutputs(assets \cup Collected(FundsNeed), fee))
      BY <1>4, <2>3 DEF CollectFunds
    <3> QED BY <1>0, <2>1, <3>1, FundsMove
  <2> QED BY <2>2, <2>3
<1>5. CASE BuildIssue
  <2>1. UNCHANGED request /\ step = "funds" /\ request.kind = "issue"
    BY <1>5 DEF BuildIssue, Listed
  <2>2. CASE EndsPoor
    BY <1>0, <2>2, CellsOpen DEF EndsPoor, Chosen
  <2>3. CASE ~ EndsPoor
    <3> DEFINE need == UdtCapacity + InfoCapacity
               inputs == Collected(need)
    <3>1. /\ ~ (Total(Capacity, Plain) < CollectTarget(need)) /\ UNCHANGED assets
          /\ \E fee \in Fees : EndsBuilt(inputs, IssueOutputs(inputs, fee))
      BY <1>5, <2>3 DEF BuildIssue
    <3>2. PICK fee \in Fees : EndsBuilt(inputs, IssueOutputs(inputs, fee))
      BY <3>1
    <3>3. need \in Int
      BY <1>0
    <3> HIDE DEF need
    <3>4. /\ inputs \in SUBSET Cell /\ \A c \in inputs : Kind[c] = "plain"
          /\ Total(Capacity, inputs) >= need + MinCapacity + MaxFee
      BY <3>1, <3>3, CollectedReaches
    <3> HIDE DEF inputs
    <3>5. Sum(Amounts(IssueOutputs(inputs, fee))) = 0 /\ Viable(IssueOutputs(inputs, fee))
      BY <3>4, IssueCells DEF need
    <3> QED BY <1>0, <2>1, <3>1, <3>2, <3>4, <3>5, PlainMove
  <2> QED BY <2>2, <2>3
<1>6. CASE BuildLaunch
  <2>1. UNCHANGED request /\ step = "funds" /\ request.kind = "launch"
    BY <1>6 DEF BuildLaunch, Listed
  <2>2. CASE EndsPoor
    BY <1>0, <2>2, CellsOpen DEF EndsPoor, Chosen
  <2>3. CASE ~ EndsPoor
    <3> DEFINE inputs == Collected(InfoCapacity)
    <3>1. /\ ~ (Total(Capacity, Plain) < CollectTarget(InfoCapacity)) /\ UNCHANGED assets
          /\ \E fee \in Fees : EndsBuilt(inputs, LaunchOutputs(inputs, fee))
      BY <1>6, <2>3 DEF BuildLaunch
    <3>2. PICK fee \in Fees : EndsBuilt(inputs, LaunchOutputs(inputs, fee))
      BY <3>1
    <3>3. inputs \in SUBSET Cell /\ \A c \in inputs : Kind[c] = "plain"
      BY <1>0, <3>1, CollectedReaches
    <3> HIDE DEF inputs
    <3>4. Prepared' => Total(Capacity, inputs) >= RgbppCapacity + InfoCapacity
      <4>1. tx'.inputs = inputs
        BY <3>2 DEF EndsBuilt, Tx
      <4>2. Total(Capacity, tx.inputs)' = Total(Capacity, inputs)
        BY <4>1 DEF Total
      <4> QED BY <2>1, <4>2 DEF Prepared
    <3>5. /\ Sum(Amounts(LaunchOutputs(inputs, fee))) = 0
          /\ Prepared' => Viable(LaunchOutputs(inputs, fee))
      BY <3>4, LaunchCells
    <3> QED BY <1>0, <2>1, <3>1, <3>2, <3>3, <3>5, PlainMove
  <2> QED BY <2>2, <2>3
<1>7. CASE BuildSplit
  <2>1. UNCHANGED request /\ step = "funds" /\ request.kind = "split"
    BY <1>7 DEF BuildSplit, Listed
  <2>2. CASE EndsPoor
    BY <1>0, <2>2, CellsOpen DEF EndsPoor, Chosen
  <2>3. CASE ~ EndsPoor
    <3> DEFINE inputs == Collected(Asked)
    <3>1. /\ ~ (Total(Capacity, Plain) < CollectTarget(Asked)) /\ UNCHANGED assets
          /\ \E fee \in Fees : EndsBuilt(inputs, SplitOutputs(inputs, fee))
      BY <1>7, <2>3 DEF BuildSplit
    <3>2. PICK fee \in Fees : EndsBuilt(inputs, SplitOutputs(inputs, fee))
      BY <3>1
    <3>3. /\ inputs \in SUBSET Cell /\ \A c \in inputs : Kind[c] = "plain"
          /\ Total(Capacity, inputs) >= Asked + MinCapacity + MaxFee
      BY <1>0, <3>1, CollectedReaches
    <3> HIDE DEF inputs
    <3>4. Prepared' => \A k \in 1..NumReceivers : request.amounts[k] >= MinCapacity
      BY <2>1 DEF Prepared, NumReceivers
    <3>5. /\ Sum(Amounts(SplitOutputs(inputs, fee))) = 0
          /\ Prepared' => Viable(SplitOutputs(inputs, fee))
      BY <1>0, <2>1, <3>3, <3>4, SplitCells
    <3> QED BY <1>0, <2>1, <3>1, <3>2, <3>3, <3>5, PlainMove
  <2> QED BY <2>2, <2>3
<1>8. CASE AppendIssuer
  <2>1. UNCHANGED request /\ step = "funds" /\ request.kind = "issuer"
    BY <1>8 DEF AppendIssuer, Listed
  <2>2. CASE EndsPoor
    BY <1>0, <2>2, CellsOpen DEF EndsPoor, Chosen
  <2>3. CASE ~ EndsPoor
    <3> DEFINE inputs == IF IssuerPays THEN Collected(IssuerNeed) ELSE {}
    <3>1. /\ IssuerPays => ~ (Total(Capacity, Plain) < CollectTarget(IssuerNeed))
          /\ UNCHANGED assets
          /\ \E fee \in Fees : EndsBuilt(inputs, IssuerOutputs(inputs, fee))
      BY <1>8, <2>3 DEF AppendIssuer
    <3>2. PICK fee \in Fees : EndsBuilt(inputs, IssuerOutputs(inputs, fee))
      BY <3>1
    <3>3. IssuerNeed \in Int /\ IssuerNeed = request.asked - request.given + MinCapacity
      BY <1>0 DEF IssuerNeed
    <3>4. /\ inputs \in SUBSET Cell /\ \A c \in inputs : Kind[c] = "plain"
          /\ IssuerPays => Total(Capacity, inputs) >= IssuerNeed + MinCapacity + MaxFee
      BY <3>1, <3>3, CollectedReaches
    <3> HIDE DEF inputs
    <3> DEFINE rest == request.given + Total(Capacity, inputs) - request.asked - fee
    <3>5. Total(Capacity, inputs) \in Nat
      BY CellsAssumption, TotalNat
    <3>6. rest \in Int /\ (IssuerPays => rest >= MinCapacity)
      <4>1. rest \in Int
        BY <1>0, <3>5
      <4>2. ASSUME IssuerPays PROVE rest >= MinCapacity
        BY <1>0, <3>3, <3>4, <3>5, <4>2
      <4> QED BY <4>1, <4>2
    <3>7. Prepared' => IssuerPays
      BY <2>1 DEF Prepared, IssuerPays
    <3>8. IssuerOutputs(inputs, fee) = <<PlainCell(rest)>>
      BY DEF IssuerOutputs
    <3> HIDE DEF rest
    <3>9. /\ Sum(Amounts(IssuerOutputs(inputs, fee))) = 0
          /\ Prepared' => Viable(IssuerOutputs(inputs, fee))
      BY <3>6, <3>7, <3>8, SingleCell
    <3> QED BY <1>0, <2>1, <3>1, <3>2, <3>4, <3>9, PlainMove
  <2> QED BY <2>2, <2>3
<1>9. CASE PayUnlock
  <2>1. UNCHANGED request /\ step = "funds" /\ request.kind = "unlock"
    BY <1>9 DEF PayUnlock, Listed
  <2>2. CASE EndsPoor
    BY <1>0, <2>2, CellsOpen DEF EndsPoor, Chosen
  <2>3. CASE ~ EndsPoor
    <3> DEFINE total == Total(Capacity, FirstPlain)
    <3>1. UNCHANGED assets /\ \E fee \in Fees : EndsBuilt(FirstPlain, UnlockOutputs(FirstPlain, fee))
      BY <1>9, <2>3 DEF PayUnlock
    <3>2. PICK fee \in Fees : EndsBuilt(FirstPlain, UnlockOutputs(FirstPlain, fee))
      BY <3>1
    <3>3. FirstPlain \in SUBSET Cell /\ \A c \in FirstPlain : Kind[c] = "plain"
      <4>1. answer \in SUBSET Cell
        BY CellsAreNumbers DEF ListInv, Listing
      <4> QED BY <4>1 DEF FirstPlain, Plain
    <3>4. Prepared' => total >= MinCapacity + MaxFee
      <4>1. tx'.inputs = FirstPlain
        BY <3>2 DEF EndsBuilt, Tx
      <4>2. Total(Capacity, tx.inputs)' = total
        BY <4>1 DEF Total
      <4> QED BY <2>1, <4>2 DEF Prepared
    <3>5. total \in Nat
      BY CellsAssumption, TotalNat
    <3>6. UnlockOutputs(FirstPlain, fee) = <<PlainCell(total - fee)>>
      BY DEF UnlockOutputs
    <3> HIDE DEF total
    <3>7. total - fee \in Int /\ (Prepared' => total - fee >= MinCapacity)
      BY <1>0, <3>4, <3>5
    <3>8. /\ Sum(Amounts(UnlockOutputs(FirstPlain, fee))) = 0
          /\ Prepared' => Viable(UnlockOutputs(FirstPlain, fee))
      BY <3>6, <3>7, SingleCell
    <3> QED BY <1>0, <2>1, <3>1, <3>2, <3>3, <3>8, PlainMove
  <2> QED BY <2>2, <2>3
<1>10. ASSUME NEW c \in Cell, Spend(c) PROVE CellsInv'
  BY <1>10, CellsStay DEF Spend
<1>11. CASE Appear
  BY <1>11, CellsStay DEF Appear
<1>12. CASE UNCHANGED vars
  BY <1>12, CellsStay DEF vars
<1> QED BY <1>1, <1>2, <1>3, <1>4, <1>5, <1>6, <1>7, <1>8, <1>9, <1>10, <1>11, <1>12 DEF Next

LEMMA CellsInvariant == Spec => []CellsInv
<1>1. Init => CellsInv
  <2> SUFFICES ASSUME Init PROVE CellsInv
    OBVIOUS
  <2>1. step # "built" /\ assets = {} /\ answer = {} /\ ~ (step = "funds" /\ request.kind \in Moves)
    BY DEF Init
  <2> QED BY <2>1 DEF CellsInv, Chosen, NothingBurned, OutputsViableIfPrepared, OutputsViable
<1> QED BY <1>1, CellsNext, ListInvariant, PTL DEF Spec

\* A move neither creates nor burns an amount, and no builder takes a cell of another kind
\* as money: what collectUdtInputs chose reaches what is asked for, and all of it is in the
\* receivers' cells and the xUDT change (NothingBurned).
THEOREM AmountsMoved == Spec => []NothingBurned
<1>1. CellsInv => NothingBurned
  BY DEF CellsInv
<1> QED BY <1>1, CellsInvariant, PTL

\* Prepared callers get transactions whose outputs all hold what they occupy: the targets
\* that the builders give to collectInputs are large enough (OutputsViableIfPrepared).
THEOREM PreparedAreViable == Spec => []OutputsViableIfPrepared
<1>1. CellsInv => OutputsViableIfPrepared
  BY DEF CellsInv
<1> QED BY <1>1, CellsInvariant, PTL
=============================================================================
