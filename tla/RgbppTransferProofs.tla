------------------------- MODULE RgbppTransferProofs ------------------------
(***************************************************************************)
(* No asset is lost between the two chains: for every set of cells, every  *)
(* request and every interleaving with other wallets and with leaps, the   *)
(* cells of the UTXOs that a transaction spends are its inputs, and they   *)
(* stay live until its CKB transaction moves them.  What is built for them *)
(* keeps amounts, pays for its capacity, and names in each new cell the    *)
(* Bitcoin output that was made for it.                                    *)
(***************************************************************************)
EXTENDS RgbppTransfer, FiniteSetTheorems

\* The list holds exactly the elements of the set.
LEMMA InOrderLists ==
    ASSUME NEW S \in SUBSET Nat, IsFiniteSet(S)
    PROVE  InOrder(S) \in Seq(S) /\ ToSet(InOrder(S)) = S
<1>1. InOrder(S) \in Seq(S) /\ Len(InOrder(S)) = Cardinality(S)
  BY InOrderPlaces
<1>2. ASSUME NEW c \in S PROVE \E k \in DOMAIN InOrder(S) : InOrder(S)[k] = c
  BY <1>1, InOrderPlaces, RankRange
<1>3. \A k \in DOMAIN InOrder(S) : InOrder(S)[k] \in S
  BY <1>1, InOrderPlaces
<1> DEFINE s == InOrder(S)
<1> HIDE DEF s
<1>4. ToSet(s) = S
  BY <1>2, <1>3 DEF ToSet, s
<1> QED BY <1>1, <1>4 DEF s

-----------------------------------------------------------------------------
(* Sums over cells.                                                        *)

LEMMA CellsAreFinite == Cell \subseteq Nat /\ IsFiniteSet(Cell)
BY CellsAssumption, FS_Interval DEF Cell

\* Adding up along the list is adding up over the set.
LEMMA SumInOrder ==
    ASSUME NEW S \in SUBSET Cell, NEW f, \A c \in S : f[c] \in Int,
           NEW g, \A k \in 1..Cardinality(S) : g[k] = f[InOrder(S)[k]]
    PROVE  SumTo(g, Cardinality(S)) = Total(f, S)
<1> DEFINE Below(n) == {c \in S : c < n + 1}
           F == [c \in Cell |-> IF c \in S THEN f[c] ELSE 0]
           P == {n \in Nat : n <= NumCell => SumTo(g, Cardinality(Below(n))) = SumTo(F, n)}
<1>0. \A c \in S : c \in 1..NumCell
  BY DEF Cell
<1>1. S \in SUBSET Nat /\ IsFiniteSet(S) /\ NumCell \in Nat /\ Cardinality(S) \in Nat
  BY CellsAreFinite, FS_Subset, FS_CardinalityType, CellsAssumption
<1>2. ASSUME NEW n \in Nat
      PROVE  IsFiniteSet(Below(n)) /\ Cardinality(Below(n)) \in 0..Cardinality(S)
  <2>1. Below(n) \in SUBSET S
    OBVIOUS
  <2> HIDE DEF Below
  <2> QED BY <1>1, <2>1, FS_Subset, FS_CardinalityType
<1>3. \A k \in 1..NumCell : F[k] \in Int
  BY DEF Cell
<1>4. \A k \in 1..Cardinality(S) : g[k] \in Int
  <2>1. \A k \in 1..Cardinality(S) : InOrder(S)[k] \in S
    BY <1>1, InOrderPlaces
  <2> QED BY <2>1
<1>5. 0 \in P
  <2>1. Below(0) = {}
    <3>1. \A c \in S : ~(c < 0 + 1)
      BY <1>0, <1>1
    <3> QED BY <3>1
  <2> QED BY <2>1, FS_EmptySet, SumNone
<1>6. ASSUME NEW n \in Nat, n \in P PROVE n + 1 \in P
  <2>1. SUFFICES ASSUME n + 1 <= NumCell
                 PROVE  SumTo(g, Cardinality(Below(n + 1))) = SumTo(F, n + 1)
    OBVIOUS
  <2>2. SumTo(F, n + 1) = SumTo(F, n) + F[n + 1] /\ SumTo(F, n) \in Int
    <3> HIDE DEF F
    <3> QED BY <1>3, <2>1, SumOneMore, <1>1
  <2>3. SumTo(g, Cardinality(Below(n))) = SumTo(F, n)
    BY <1>6, <2>1, <1>1
  <2>4. CASE n + 1 \in S
    <3>1. Below(n + 1) = Below(n) \cup {n + 1} /\ n + 1 \notin Below(n)
      <4>1. \A c \in S : c < (n + 1) + 1 <=> c < n + 1 \/ c = n + 1
        BY <1>0, <1>1
      <4> QED BY <4>1, <2>4
    <3>2. Cardinality(Below(n + 1)) = Cardinality(Below(n)) + 1
      <4> HIDE DEF Below
      <4> QED BY <3>1, <1>2, FS_AddElement
    <3>3. Rank(n + 1, S) = Cardinality(Below(n)) + 1
      BY DEF Rank
    <3>4. g[Cardinality(Below(n)) + 1] = f[n + 1]
      BY <3>3, <2>4, <1>1, InOrderPlaces, RankRange
    <3>5. Cardinality(Below(n)) \in Nat /\ Cardinality(Below(n)) + 1 <= Cardinality(S)
      <4>1. Cardinality(Below(n + 1)) \in 0..Cardinality(S)
        BY <1>2, n + 1 \in Nat
      <4> HIDE DEF Below
      <4> QED BY <4>1, <3>2, <1>2, <1>1
    <3>6. SumTo(g, Cardinality(Below(n)) + 1)
            = SumTo(g, Cardinality(Below(n))) + g[Cardinality(Below(n)) + 1]
      <4> HIDE DEF Below
      <4> QED BY <3>5, <1>4, <1>1, SumOneMore
    <3>7. F[n + 1] = f[n + 1]
      BY <2>4
    <3> QED BY <2>2, <2>3, <3>2, <3>4, <3>6, <3>7
  <2>5. CASE n + 1 \notin S
    <3>1. Below(n + 1) = Below(n)
      <4>1. \A c \in S : c < (n + 1) + 1 <=> c < n + 1
        BY <1>0, <1>1, <2>5
      <4> QED BY <4>1
    <3>2. F[n + 1] = 0
      BY <2>1, <2>5 DEF Cell
    <3> QED BY <2>2, <2>3, <3>1, <3>2
  <2> QED BY <2>4, <2>5
<1>7. Nat \subseteq P
  <2> HIDE DEF P
  <2> QED BY <1>5, <1>6, NatSetInduction
<1>8. Below(NumCell) = S
  <2>1. \A c \in S : c < NumCell + 1
    BY <1>0, <1>1
  <2> QED BY <2>1
<1> QED BY <1>1, <1>7, <1>8 DEF Total

LEMMA TotalNat ==
    ASSUME NEW f, NEW S \in SUBSET Cell, \A c \in S : f[c] \in Nat
    PROVE  Total(f, S) \in Nat
<1> DEFINE F == [c \in Cell |-> IF c \in S THEN f[c] ELSE 0]
<1>1. \A k \in 1..NumCell : F[k] \in Nat
  BY DEF Cell
<1>2. NumCell \in Nat
  BY CellsAssumption
<1> HIDE DEF F
<1>3. SumTo(F, NumCell) \in Nat
  BY <1>1, <1>2, SumNat
<1> QED BY <1>3 DEF Total, F

\* The total over two disjoint sets, and over a set with a cell of the first.
LEMMA TotalUnion ==
    ASSUME NEW f, NEW S \in SUBSET Cell, NEW T \in SUBSET Cell, S \cap T = {},
           \A c \in S \cup T : f[c] \in Nat
    PROVE  Total(f, S \cup T) = Total(f, S) + Total(f, T)
<1> DEFINE F(U) == [c \in Cell |-> IF c \in U THEN f[c] ELSE 0]
<1>1. \A k \in 1..NumCell : /\ F(S)[k] \in Int /\ F(T)[k] \in Int
                            /\ F(S \cup T)[k] = F(S)[k] + F(T)[k]
  BY DEF Cell
<1>2. NumCell \in Nat
  BY CellsAssumption
<1> HIDE DEF F
<1>3. SumTo(F(S \cup T), NumCell) = SumTo(F(S), NumCell) + SumTo(F(T), NumCell)
  BY <1>1, <1>2, SumPlus
<1> QED BY <1>3 DEF Total, F

LEMMA TotalOfNone == ASSUME NEW f PROVE Total(f, {}) = 0
<1> DEFINE F == [c \in Cell |-> IF c \in {} THEN f[c] ELSE 0]
<1>1. \A k \in 1..NumCell : F[k] = 0
  BY DEF Cell
<1>2. NumCell \in Nat
  BY CellsAssumption
<1> HIDE DEF F
<1>3. SumTo(F, NumCell) = NumCell * 0
  BY <1>1, <1>2, SumConstant
<1> QED BY <1>2, <1>3 DEF Total, F

LEMMA TotalSame ==
    ASSUME NEW f, NEW g, NEW S, NEW T,
           \A c \in Cell : (IF c \in S THEN f[c] ELSE 0) = (IF c \in T THEN g[c] ELSE 0)
    PROVE  Total(f, S) = Total(g, T)
BY DEF Total

LEMMA TotalBound ==
    ASSUME NEW f, NEW S \in SUBSET Cell, \A c \in S : f[c] \in Nat, NEW d \in S
    PROVE  f[d] <= Total(f, S)
<1> DEFINE F == [c \in Cell |-> IF c \in S THEN f[c] ELSE 0]
           G == [c \in Cell |-> IF c = d THEN f[d] ELSE 0]
<1>1. /\ \A k \in 1..NumCell : F[k] \in Int /\ G[k] \in Int /\ G[k] <= F[k]
      /\ \A k \in 1..NumCell : k # d => G[k] = 0
      /\ d \in 1..NumCell /\ G[d] = f[d]
  BY DEF Cell
<1>2. NumCell \in Nat
  BY CellsAssumption
<1> HIDE DEF F, G
<1>3. SumTo(G, NumCell) <= SumTo(F, NumCell)
  BY <1>1, <1>2, SumMonotone
<1>4. SumTo(G, NumCell) = f[d]
  BY <1>1, <1>2, SumSingle
<1> QED BY <1>3, <1>4 DEF Total, F

-----------------------------------------------------------------------------
(* The inductive invariant.                                                *)

\* What the client has read accounts for everything that is bound to the locks it read.
Reading ==
    /\ request \in Requests
    /\ read \in 0..Len(request.locks)
    /\ found \subseteq Cell
    /\ \A c \in found : \E k \in 1..read : UtxoOf[c] = request.locks[k]
    /\ \A k \in 1..read, c \in live :
           UtxoOf[c] = request.locks[k] => c \in found \cup Forgotten

\* A cell that was found dies only after its UTXO was spent, and after Bitcoin accepted
\* the transaction its UTXOs belong to no rival.
Chains ==
    /\ live \subseteq Cell
    /\ unspent \cap rivals = {}
    /\ \A c \in found : c \in live \/ UtxoOf[c] \notin unspent
    /\ step \in {"accepted", "queued", "unposted"} =>
           \A c \in found : c \in live /\ UtxoOf[c] \notin unspent \cup rivals

CellsInv == Reading /\ Chains /\ (Started => ToSet(tx.inputs) = found)

\* The inputs of the virtual transaction are the cells that were found.
LEMMA VirtualInputs ==
    ASSUME CellsInv, NEW outs
    PROVE  ToSet(Virtual(outs).inputs) = found
<1>1. Target \in SUBSET Nat /\ Others \in SUBSET Nat /\ Target \cup Others = found
  BY CellsAreFinite DEF CellsInv, Reading, Target, Others, Collected
<1>2. IsFiniteSet(Target) /\ IsFiniteSet(Others)
  BY CellsAreFinite, FS_Subset DEF CellsInv, Reading, Target, Others, Collected
<1> DEFINE a == InOrder(Target)
           b == InOrder(Others)
<1>3. a \in Seq(Target) /\ b \in Seq(Others) /\ ToSet(a) = Target /\ ToSet(b) = Others
  BY <1>1, <1>2, InOrderLists
<1>4. ToSet(a \o b) = ToSet(a) \cup ToSet(b)
  <2> HIDE DEF a, b
  <2>1. /\ Len(a \o b) = Len(a) + Len(b) /\ Len(a) \in Nat /\ Len(b) \in Nat
        /\ DOMAIN a = 1..Len(a) /\ DOMAIN b = 1..Len(b)
        /\ DOMAIN (a \o b) = 1..(Len(a) + Len(b))
        /\ \A k \in DOMAIN a : (a \o b)[k] = a[k]
        /\ \A k \in DOMAIN b : (a \o b)[Len(a) + k] = b[k]
    BY <1>3
  <2>2. ASSUME NEW x \in ToSet(a) PROVE x \in ToSet(a \o b)
    <3>1. PICK k \in DOMAIN a : a[k] = x
      BY DEF ToSet
    <3>2. k \in DOMAIN (a \o b) /\ (a \o b)[k] = x
      BY <3>1, <2>1
    <3> QED BY <3>2 DEF ToSet
  <2>3. ASSUME NEW x \in ToSet(b) PROVE x \in ToSet(a \o b)
    <3>1. PICK k \in DOMAIN b : b[k] = x
      BY DEF ToSet
    <3>2. Len(a) + k \in DOMAIN (a \o b) /\ (a \o b)[Len(a) + k] = x
      BY <3>1, <2>1
    <3> QED BY <3>2 DEF ToSet
  <2>4. ASSUME NEW x \in ToSet(a \o b) PROVE x \in ToSet(a) \cup ToSet(b)
    <3>1. PICK k \in 1..Len(a \o b) : (a \o b)[k] = x
      BY <1>3 DEF ToSet
    <3>2. CASE k <= Len(a)
      BY <3>1, <3>2, <2>1, <1>3 DEF ToSet
    <3>3. CASE k > Len(a)
      <4>1. k - Len(a) \in 1..Len(b) /\ b[k - Len(a)] = x
        BY <3>1, <3>3, <2>1, <1>3
      <4> QED BY <4>1, <1>3 DEF ToSet
    <3> QED BY <3>1, <3>2, <3>3, <2>1
  <2> QED BY <2>2, <2>3, <2>4
<1> QED BY <1>1, <1>3, <1>4 DEF Virtual

LEMMA CellsInit == Init => CellsInv
<1> SUFFICES ASSUME Init PROVE CellsInv
  OBVIOUS
<1>1. request.locks \in Seq(Utxo)
  BY RequestsAssumption DEF Init
<1> QED BY <1>1 DEF Init, CellsInv, Reading, Chains, Started

LEMMA LocksAreUtxos ==
    ASSUME CellsInv
    PROVE  Len(request.locks) \in Nat
BY RequestsAssumption DEF CellsInv, Reading

\* A step of the client before the broadcast that leaves cells and locks alone.
LEMMA BuildStep ==
    ASSUME CellsInv, NEW outs, NEW need, AllRead, Built(outs, need)
    PROVE  CellsInv'
<1>1. /\ UNCHANGED <<live, unspent, rivals, leapt, request, read, found>>
      /\ step = "collect" /\ step' = "lookup"
      /\ \E o : tx' = Virtual(o)
  BY DEF AllRead, Built, world
<1>2. ToSet(tx'.inputs) = found
  BY <1>1, VirtualInputs
<1>3. Reading'
  BY <1>1 DEF CellsInv, Reading, Forgotten
<1>4. Chains'
  BY <1>1 DEF CellsInv, Chains
<1> QED BY <1>1, <1>2, <1>3, <1>4 DEF CellsInv

LEMMA CellsNext == CellsInv /\ [Next]_vars => CellsInv'
<1> SUFFICES ASSUME CellsInv, [Next]_vars PROVE CellsInv'
  OBVIOUS
<1>0. Len(request.locks) \in Nat
  BY LocksAreUtxos
<1>1. CASE Reject
  BY <1>1 DEF Reject, world, CellsInv, Reading, Chains, Started, Forgotten
<1>2. CASE ReadLock
  <2> DEFINE cells == {c \in live :
                          /\ UtxoOf[c] = request.locks[read + 1]
                          /\ request.kind = "batch" => TypeOf[c] = request.type}
  <2>1. /\ step = "collect" /\ read < Len(request.locks)
        /\ UNCHANGED <<live, unspent, rivals, leapt, request, step, tx>>
        /\ found' = found \cup cells /\ read' = read + 1
    BY <1>2 DEF ReadLock, world
  <2>2. read' \in 0..Len(request.locks) /\ read \in Nat /\ read' \in 1..read'
    BY <1>0, <2>1 DEF CellsInv, Reading
  <2>3. ASSUME NEW c \in found' PROVE \E k \in 1..read' : UtxoOf[c] = request.locks[k]
    <3>1. CASE c \in found
      <4>1. PICK k \in 1..read : UtxoOf[c] = request.locks[k]
        BY <3>1 DEF CellsInv, Reading
      <4> QED BY <4>1, <2>1, <2>2
    <3>2. CASE c \in cells
      BY <3>2, <2>1, <2>2
    <3> QED BY <2>1, <3>1, <3>2
  <2>4. ASSUME NEW k \in 1..read', NEW c \in live, UtxoOf[c] = request.locks[k]
        PROVE  c \in found' \cup Forgotten'
    <3>1. CASE k = read'
      BY <2>1, <2>4, <3>1 DEF Forgotten, CellsInv, Chains
    <3>2. CASE k # read'
      <4>1. k \in 1..read
        BY <2>1, <2>2, <3>2
      <4> QED BY <2>1, <2>4, <4>1 DEF Forgotten, CellsInv, Reading
    <3> QED BY <3>1, <3>2
  <2>5. Reading'
    BY <2>1, <2>2, <2>3, <2>4 DEF CellsInv, Reading, Chains
  <2>6. Chains'
    BY <2>1 DEF CellsInv, Chains
  <2> QED BY <2>1, <2>5, <2>6 DEF CellsInv, Started
<1>3. CASE BuildTransfer \/ BuildSplit \/ BuildBatch \/ BuildJump
  BY <1>3, BuildStep DEF BuildTransfer, BuildSplit, BuildBatch, BuildJump
<1>4. CASE LookUpInputs \/ CompleteBtcTx \/ PostToQueue
  BY <1>4 DEF LookUpInputs, CompleteBtcTx, PostToQueue, world,
              CellsInv, Reading, Chains, Started, Forgotten
<1>5. CASE Broadcast
  BY <1>5 DEF Broadcast, BtcInputs, CellsInv, Reading, Chains, Started, Forgotten
<1>6. CASE SendCkbTx
  BY <1>6 DEF SendCkbTx, CellsInv, Reading, Chains, Started, Forgotten
<1>7. ASSUME NEW u \in Utxo, RivalSpends(u) PROVE CellsInv'
  BY <1>7 DEF RivalSpends, CellsInv, Reading, Chains, Started, Forgotten
<1>8. ASSUME NEW u \in Utxo, RivalMovesCells(u) PROVE CellsInv'
  BY <1>8 DEF RivalMovesCells, CellsInv, Reading, Chains, Started, Forgotten
<1>9. ASSUME NEW c \in Late, LeapToBtc(c) PROVE CellsInv'
  BY <1>9, CellsAssumption DEF LeapToBtc, CellsInv, Reading, Chains, Started, Forgotten
<1>10. CASE UNCHANGED vars
  BY <1>10 DEF vars, world, CellsInv, Reading, Chains, Started, Forgotten
<1> QED BY <1>1, <1>2, <1>3, <1>4, <1>5, <1>6, <1>7, <1>8, <1>9, <1>10 DEF Next

-----------------------------------------------------------------------------
(* The outputs of the four kinds of calls have one shape: those of the     *)
(* target asset, then the cells of other types.                            *)

\* What a call has collected once all its locks are read.
Collection ==
    /\ request \in Requests
    /\ Target \in SUBSET Cell /\ Others \in SUBSET Cell
    /\ Target \cap Others = {} /\ Target # {}
    /\ \A c \in Target : TypeOf[c] = request.type
    /\ \A c \in Others : TypeOf[c] # request.type
    /\ request.kind # "split" => Change >= 0
    /\ request.kind = "batch" => Others = {}
    /\ request.kind = "split" => Len(request.locks) <= Cardinality(Target)

Types == {request.type} \cup {TypeOf[c] : c \in Cell}
Output == [lock : {"rgbpp", "btcTime"}, vout : Nat, type : Types, amount : Nat, capacity : Int]

WithChange(receivers, change) ==
    receivers \o (IF NeedRgbppChange THEN <<change>> ELSE <<>>)
TargetOutputs ==
    CASE request.kind = "transfer" ->
            WithChange(<<Rgbpp(1, Wanted, ReceiverCapacity(MinCapacity))>>,
                       Rgbpp(2, Change, ChangeCapacity(MinCapacity)))
      [] request.kind = "split" ->
            [k \in 1..Cardinality(Target) |->
                LET c == InOrder(Target)[k] IN Rgbpp(k, Amount[c], Capacity[c])]
      [] request.kind = "batch" ->
            WithChange([k \in 1..Len(request.amounts) |->
                           Rgbpp(k, request.amounts[k], CellCapacity)],
                       Rgbpp(Len(request.amounts) + 1, Change, CellCapacity))
      [] request.kind = "jump" ->
            WithChange(<<BtcTime(Wanted, ReceiverCapacity(MinTimeCapacity))>>,
                       Rgbpp(1, Change, ChangeCapacity(MinTimeCapacity)))
AllOutputs == TargetOutputs \o NonTarget(Len(TargetOutputs))

LEMMA AppendedAt ==
    ASSUME NEW S, NEW s \in Seq(S), NEW u \in Seq(S)
    PROVE  /\ s \o u \in Seq(S) /\ Len(s \o u) = Len(s) + Len(u)
           /\ Len(s) \in Nat /\ Len(u) \in Nat
           /\ \A k \in 1..Len(s) : (s \o u)[k] = s[k]
           /\ \A k \in 1..Len(u) : (s \o u)[Len(s) + k] = u[k]
OBVIOUS

AmountOf(w) == SumTo([k \in DOMAIN w |-> w[k].amount], Len(w))
CapacityOf(w) == SumTo([k \in DOMAIN w |-> w[k].capacity], Len(w))

\* A list with an optional last element, and what it sums up to.
Extended(w, s, change) ==
    /\ w \in Seq(Output) /\ Len(w) = Len(s) + (IF NeedRgbppChange THEN 1 ELSE 0)
    /\ \A k \in 1..Len(s) : w[k] = s[k]
    /\ NeedRgbppChange => w[Len(s) + 1] = change
    /\ AmountOf(w) = AmountOf(s) + (IF NeedRgbppChange THEN change.amount ELSE 0)
    /\ CapacityOf(w) = CapacityOf(s) + (IF NeedRgbppChange THEN change.capacity ELSE 0)

LEMMA ChangeAppended ==
    ASSUME NEW s \in Seq(Output), NEW change \in Output, NEW w, w = WithChange(s, change)
    PROVE  Extended(w, s, change)
<1> DEFINE n == Len(s)
           sa == [k \in DOMAIN s |-> s[k].amount]
           wa == [k \in DOMAIN w |-> w[k].amount]
           sc == [k \in DOMAIN s |-> s[k].capacity]
           wc == [k \in DOMAIN w |-> w[k].capacity]
<1>1. n \in Nat /\ DOMAIN s = 1..n /\ \A k \in 1..n : s[k] \in Output
  OBVIOUS
<1>2. \A k \in 1..n : sa[k] \in Int /\ sc[k] \in Int
  BY <1>1 DEF Output
<1>3. SumTo(sa, n) \in Int /\ SumTo(sc, n) \in Int
  <2> HIDE DEF sa, sc, n
  <2> QED BY <1>1, <1>2, SumInt
<1>4. CASE NeedRgbppChange
  <2>1. w = s \o <<change>>
    BY <1>4 DEF WithChange
  <2>2. <<change>> \in Seq(Output) /\ Len(<<change>>) = 1 /\ <<change>>[1] = change
    OBVIOUS
  <2>3. /\ w \in Seq(Output) /\ Len(w) = n + 1 /\ DOMAIN w = 1..(n + 1)
        /\ \A k \in 1..n : w[k] = s[k]
        /\ w[n + 1] = change
    <3>1. w \in Seq(Output) /\ Len(w) = n + 1 /\ \A k \in 1..n : w[k] = s[k]
      BY <2>1, <2>2, AppendedAt
    <3>2. w[n + 1] = change
      BY <2>1, <2>2, AppendedAt
    <3> QED BY <3>1, <3>2, <1>1
  <2>4. /\ \A k \in 1..n : wa[k] = sa[k] /\ wc[k] = sc[k]
        /\ wa[n + 1] = change.amount /\ wc[n + 1] = change.capacity
    BY <2>3, <1>1
  <2>5. change.amount \in Int /\ change.capacity \in Int
    BY DEF Output
  <2>6. \A k \in 1..(n + 1) : wa[k] \in Int /\ wc[k] \in Int
    <3> HIDE DEF wa, wc, sa, sc, n
    <3>1. \A k \in 1..(n + 1) : k \in 1..n \/ k = n + 1
      BY <1>1
    <3> QED BY <3>1, <2>4, <2>5, <1>2
  <2>7. /\ SumTo(wa, n + 1) = SumTo(wa, n) + wa[n + 1]
        /\ SumTo(wc, n + 1) = SumTo(wc, n) + wc[n + 1]
    <3> HIDE DEF wa, wc, n
    <3> QED BY <2>6, <1>1, SumOneMore
  <2>8. SumTo(wa, n) = SumTo(sa, n) /\ SumTo(wc, n) = SumTo(sc, n)
    <3> HIDE DEF wa, wc, sa, sc, n
    <3> QED BY <1>1, <1>2, <2>4, SumSame
  <2> QED BY <1>4, <2>3, <2>4, <2>7, <2>8 DEF Extended, AmountOf, CapacityOf
<1>5. CASE ~NeedRgbppChange
  <2>1. w = s
    BY <1>5 DEF WithChange
  <2> QED BY <1>5, <2>1, <1>3, <1>1 DEF Extended, AmountOf, CapacityOf
<1> QED BY <1>4, <1>5

LEMMA CollectionFacts ==
    ASSUME Collection
    PROVE  /\ Wanted \in Nat /\ Total(Amount, Target) \in Nat /\ Change \in Int
           /\ Wanted + (IF NeedRgbppChange THEN Change ELSE 0) =
                  (IF request.kind = "split" /\ Change < 0 THEN Wanted ELSE Total(Amount, Target))
           /\ InputCapacity \in Nat /\ FirstCapacity \in Nat /\ FirstCapacity <= InputCapacity
           /\ InOrder(Target) \in Seq(Target) /\ Len(InOrder(Target)) = Cardinality(Target)
           /\ Cardinality(Target) \in Nat /\ Cardinality(Target) > 0
<1>1. Wanted \in Nat
  <2>1. request.amounts \in Seq(Nat \ {0})
    BY RequestsAssumption DEF Collection
  <2>2. Len(request.amounts) \in Nat /\ \A k \in 1..Len(request.amounts) : request.amounts[k] \in Nat
    BY <2>1
  <2> QED BY <2>2, SumNat DEF Wanted
<1>2. Total(Amount, Target) \in Nat /\ InputCapacity \in Nat
  BY TotalNat, CellsAssumption DEF Collection, InputCapacity
<1>3. /\ Change \in Int
      /\ Wanted + (IF NeedRgbppChange THEN Change ELSE 0) =
            (IF request.kind = "split" /\ Change < 0 THEN Wanted ELSE Total(Amount, Target))
  BY <1>1, <1>2 DEF Collection, Change, NeedRgbppChange
<1>4. Target \in SUBSET Nat /\ IsFiniteSet(Target) /\ Target # {}
  BY CellsAreFinite, FS_Subset DEF Collection
<1>5. Cardinality(Target) \in Nat /\ Cardinality(Target) > 0
  BY <1>4, FS_CardinalityType, FS_EmptySet
<1>6. InOrder(Target) \in Seq(Target) /\ Len(InOrder(Target)) = Cardinality(Target)
  BY <1>4, InOrderPlaces
<1>7. InOrder(Target)[1] \in Target
  BY <1>5, <1>6
<1>8. FirstCapacity \in Nat /\ FirstCapacity <= InputCapacity
  <2>1. \A c \in Target : Capacity[c] \in Nat
    BY CellsAssumption DEF Collection
  <2>2. Target \in SUBSET Cell
    BY DEF Collection
  <2> QED BY <1>7, <2>1, <2>2, TotalBound DEF FirstCapacity, InputCapacity
<1> QED BY <1>1, <1>2, <1>3, <1>5, <1>6, <1>8

\* What the outputs of the target asset hold, when the receiver's is the first and a
\* change output may follow.
LEMMA ReceiverAndChange ==
    ASSUME Collection, NEW least \in Nat, least <= CellCapacity
    PROVE  LET held == ReceiverCapacity(least) +
                           (IF NeedRgbppChange THEN ChangeCapacity(least) ELSE 0)
           IN  /\ ReceiverCapacity(least) \in Nat /\ ChangeCapacity(least) \in Nat
               /\ InputCapacity <= held
               /\ ~NeedPaymaster(least) => held = InputCapacity
               /\ FirstCapacity > least => held <= InputCapacity + CellCapacity
<1>1. /\ InputCapacity \in Nat /\ FirstCapacity \in Nat /\ FirstCapacity <= InputCapacity
      /\ CellCapacity \in Nat /\ DefaultCellCapacity \in Nat
      /\ DefaultCellCapacity <= CellCapacity
  BY CollectionFacts, CellsAssumption, PaymasterAssumption
<1>2. CASE NeedRgbppChange
  BY <1>1, <1>2 DEF ReceiverCapacity, ChangeCapacity, NeedPaymaster, SufficientForChange
<1>3. CASE ~NeedRgbppChange
  BY <1>1, <1>3 DEF ReceiverCapacity, ChangeCapacity, NeedPaymaster, SufficientForChange
<1> QED BY <1>2, <1>3

LEMMA SumOfOne ==
    ASSUME NEW f, f[1] \in Int
    PROVE  SumTo(f, 1) = f[1]
<1>1. \A k \in 1..(0 + 1) : f[k] \in Int
  OBVIOUS
<1>2. SumTo(f, 0 + 1) = SumTo(f, 0) + f[0 + 1]
  BY <1>1, SumOneMore
<1> QED BY <1>2, SumNone

NeedFor == \/ request.kind = "transfer" /\ NeedPaymaster(MinCapacity)
           \/ request.kind = "jump" /\ NeedPaymaster(MinTimeCapacity)

CapacityShape(w) ==
    /\ InputCapacity <= CapacityOf(w)
    /\ ~NeedFor => CapacityOf(w) = InputCapacity
    /\ FirstCapacity > Occupied(w[1]) => CapacityOf(w) <= InputCapacity + CellCapacity

TargetShape(w) ==
    /\ w \in Seq(Output) /\ (request.kind # "batch" => Len(w) > 0)
    /\ \A k \in 1..Len(w) : w[k].type = request.type
    /\ request.kind # "jump" => \A k \in 1..Len(w) : w[k].lock = "rgbpp" /\ w[k].vout = k
    /\ request.kind = "jump" =>
           /\ Len(w) <= 2 /\ w[1].lock = "btcTime"
           /\ Len(w) = 2 => w[2].lock = "rgbpp" /\ w[2].vout = 1
    /\ AmountOf(w) = Total(Amount, Target)
    /\ request.kind # "batch" => CapacityShape(w)

\* One receiver and the sender's change.
LEMMA ReceiverShape ==
    ASSUME Collection, request.kind \in {"transfer", "jump"},
           NEW least \in Nat, least <= CellCapacity, NeedFor <=> NeedPaymaster(least),
           NEW first \in Output, NEW change \in Output,
           first.type = request.type, first.amount = Wanted,
           first.capacity = ReceiverCapacity(least), Occupied(first) = least,
           change.type = request.type, change.lock = "rgbpp", change.amount = Change,
           change.capacity = ChangeCapacity(least),
           request.kind = "transfer" => first.lock = "rgbpp" /\ first.vout = 1 /\ change.vout = 2,
           request.kind = "jump" => first.lock = "btcTime" /\ change.vout = 1
    PROVE  TargetShape(WithChange(<<first>>, change))
<1> DEFINE s == <<first>>
           w == WithChange(s, change)
<1>1. s \in Seq(Output) /\ Len(s) = 1 /\ s[1] = first /\ DOMAIN s = 1..1
  OBVIOUS
<1>2. first.amount \in Int /\ first.capacity \in Int
  BY DEF Output
<1>3. /\ AmountOf(s) = Wanted
      /\ CapacityOf(s) = ReceiverCapacity(least)
  <2> HIDE DEF s
  <2>1. SumTo([k \in 1..1 |-> s[k].amount], 1) = s[1].amount
    BY <1>1, <1>2, SumOfOne
  <2>2. SumTo([k \in 1..1 |-> s[k].capacity], 1) = s[1].capacity
    BY <1>1, <1>2, SumOfOne
  <2> QED BY <1>1, <2>1, <2>2 DEF AmountOf, CapacityOf
<1> HIDE DEF s, w
<1>0. w = WithChange(s, change)
  BY DEF w
<1>4. /\ w \in Seq(Output) /\ Len(w) = Len(s) + (IF NeedRgbppChange THEN 1 ELSE 0)
      /\ \A k \in 1..Len(s) : w[k] = s[k]
      /\ NeedRgbppChange => w[Len(s) + 1] = change
      /\ AmountOf(w) =
             Wanted + (IF NeedRgbppChange THEN Change ELSE 0)
      /\ CapacityOf(w) =
             ReceiverCapacity(least) + (IF NeedRgbppChange THEN ChangeCapacity(least) ELSE 0)
  <2>1. /\ w \in Seq(Output)
        /\ Len(w) = Len(s) + (IF NeedRgbppChange THEN 1 ELSE 0)
        /\ \A k \in 1..Len(s) : w[k] = s[k]
        /\ NeedRgbppChange => w[Len(s) + 1] = change
        /\ AmountOf(w) = AmountOf(s) + (IF NeedRgbppChange THEN change.amount ELSE 0)
        /\ CapacityOf(w) = CapacityOf(s) + (IF NeedRgbppChange THEN change.capacity ELSE 0)
    <3>1. Extended(w, s, change)
      BY <1>0, <1>1, ChangeAppended
    <3> QED BY <3>1 DEF Extended
  <2> QED BY <2>1, <1>3
<1>5. /\ Len(w) \in {1, 2} /\ (Len(w) = 2 <=> NeedRgbppChange)
      /\ w[1] = first /\ (NeedRgbppChange => w[2] = change)
  BY <1>1, <1>4
<1>6. \A k \in 1..Len(w) : k = 1 \/ (k = 2 /\ NeedRgbppChange)
  <2>1. CASE Len(w) = 1
    BY <2>1
  <2>2. CASE Len(w) = 2
    BY <2>2, <1>5
  <2> QED BY <1>5, <2>1, <2>2
<1>7. AmountOf(w) = Total(Amount, Target)
  BY <1>4, CollectionFacts
<1>8. CapacityShape(w)
  BY <1>4, <1>5, ReceiverAndChange DEF CapacityShape
<1>9. TargetShape(w)
  BY <1>4, <1>5, <1>6, <1>7, <1>8 DEF TargetShape
<1> QED BY <1>9 DEF w, s

LEMMA TransferShape ==
    ASSUME Collection, request.kind = "transfer" PROVE TargetShape(TargetOutputs)
<1> DEFINE first == Rgbpp(1, Wanted, ReceiverCapacity(MinCapacity))
           change == Rgbpp(2, Change, ChangeCapacity(MinCapacity))
<1>1. MinCapacity \in Nat /\ MinCapacity <= CellCapacity
  BY CellsAssumption
<1>2. /\ Wanted \in Nat /\ Change \in Nat /\ request.type \in Types
      /\ ReceiverCapacity(MinCapacity) \in Nat /\ ChangeCapacity(MinCapacity) \in Nat
  <2>1. Wanted \in Nat /\ Change \in Int
    BY CollectionFacts
  <2> QED BY <2>1, <1>1, ReceiverAndChange DEF Collection, Types
<1>3. /\ first \in Output /\ change \in Output /\ Occupied(first) = MinCapacity
      /\ first.type = request.type /\ first.lock = "rgbpp" /\ first.vout = 1
      /\ first.amount = Wanted /\ first.capacity = ReceiverCapacity(MinCapacity)
      /\ change.type = request.type /\ change.lock = "rgbpp" /\ change.vout = 2
      /\ change.amount = Change /\ change.capacity = ChangeCapacity(MinCapacity)
  BY <1>2 DEF Output, Rgbpp, Occupied
<1>4. TargetOutputs = WithChange(<<first>>, change)
  BY DEF TargetOutputs
<1>5. NeedFor <=> NeedPaymaster(MinCapacity)
  BY DEF NeedFor
<1> HIDE DEF first, change
<1> QED BY <1>1, <1>3, <1>4, <1>5, ReceiverShape

LEMMA JumpShape ==
    ASSUME Collection, request.kind = "jump" PROVE TargetShape(TargetOutputs)
<1> DEFINE first == BtcTime(Wanted, ReceiverCapacity(MinTimeCapacity))
           change == Rgbpp(1, Change, ChangeCapacity(MinTimeCapacity))
<1>1. MinTimeCapacity \in Nat /\ MinTimeCapacity <= CellCapacity
  BY CellsAssumption
<1>2. /\ Wanted \in Nat /\ Change \in Nat /\ request.type \in Types
      /\ ReceiverCapacity(MinTimeCapacity) \in Nat /\ ChangeCapacity(MinTimeCapacity) \in Nat
  <2>1. Wanted \in Nat /\ Change \in Int
    BY CollectionFacts
  <2> QED BY <2>1, <1>1, ReceiverAndChange DEF Collection, Types
<1>4. /\ first \in Output /\ Occupied(first) = MinTimeCapacity
      /\ first.type = request.type /\ first.lock = "btcTime"
      /\ first.amount = Wanted /\ first.capacity = ReceiverCapacity(MinTimeCapacity)
  <2> DEFINE bound == Rgbpp(1, Wanted, ReceiverCapacity(MinTimeCapacity))
  <2>1. /\ bound \in Output /\ bound.type = request.type
        /\ bound.amount = Wanted /\ bound.capacity = ReceiverCapacity(MinTimeCapacity)
    BY <1>2 DEF Output, Rgbpp
  <2>2. first = [bound EXCEPT !.lock = "btcTime", !.vout = 0]
    BY DEF BtcTime
  <2> HIDE DEF bound, first
  <2> QED BY <2>1, <2>2 DEF Output, Occupied
<1>5. /\ change \in Output
      /\ change.type = request.type /\ change.lock = "rgbpp" /\ change.vout = 1
      /\ change.amount = Change /\ change.capacity = ChangeCapacity(MinTimeCapacity)
  BY <1>2 DEF Output, Rgbpp
<1>6. TargetOutputs = WithChange(<<first>>, change)
  BY DEF TargetOutputs
<1>7. NeedFor <=> NeedPaymaster(MinTimeCapacity)
  BY DEF NeedFor
<1> HIDE DEF first, change
<1> QED BY <1>1, <1>4, <1>5, <1>6, <1>7, ReceiverShape

\* Every target cell on its own.
LEMMA SplitShape ==
    ASSUME Collection, request.kind = "split" PROVE TargetShape(TargetOutputs)
<1> DEFINE n == Cardinality(Target)
           w == [k \in 1..n |->
                    LET c == InOrder(Target)[k] IN Rgbpp(k, Amount[c], Capacity[c])]
<1>1. TargetOutputs = w
  BY DEF TargetOutputs
<1>2. n \in Nat /\ n > 0 /\ \A k \in 1..n : InOrder(Target)[k] \in Cell
  BY CollectionFacts DEF Collection
<1>3. \A c \in Cell : Amount[c] \in Nat /\ Capacity[c] \in Nat
  BY CellsAssumption
<1>4. \A k \in 1..n : /\ w[k] \in Output /\ w[k].type = request.type
                      /\ w[k].lock = "rgbpp" /\ w[k].vout = k
                      /\ w[k].amount = Amount[InOrder(Target)[k]]
                      /\ w[k].capacity = Capacity[InOrder(Target)[k]]
  BY <1>2, <1>3 DEF Output, Rgbpp, Types
<1>5. w \in Seq(Output) /\ Len(w) = n /\ DOMAIN w = 1..n
  <2>1. w = [k \in 1..n |-> w[k]]
    OBVIOUS
  <2> HIDE DEF w
  <2> QED BY <2>1, <1>2, <1>4
<1> HIDE DEF w
<1>6. AmountOf(w) = Total(Amount, Target) /\ CapacityOf(w) = InputCapacity
  <2> DEFINE wa == [k \in 1..n |-> w[k].amount]
             wc == [k \in 1..n |-> w[k].capacity]
  <2>1. \A k \in 1..n : /\ wa[k] = Amount[InOrder(Target)[k]]
                        /\ wc[k] = Capacity[InOrder(Target)[k]]
    BY <1>4
  <2>2. Target \in SUBSET Cell /\ \A c \in Target : Amount[c] \in Int /\ Capacity[c] \in Int
    BY <1>3 DEF Collection
  <2> HIDE DEF wa, wc
  <2>3. SumTo(wa, Cardinality(Target)) = Total(Amount, Target)
    BY <2>1, <2>2, SumInOrder
  <2>4. SumTo(wc, Cardinality(Target)) = Total(Capacity, Target)
    BY <2>1, <2>2, SumInOrder
  <2> QED BY <2>3, <2>4, <1>5 DEF wa, wc, AmountOf, CapacityOf, InputCapacity
<1>7. InputCapacity \in Nat /\ CellCapacity \in Nat
  BY CollectionFacts, CellsAssumption
<1>8. CapacityShape(w)
  BY <1>6, <1>7 DEF CapacityShape
<1> QED BY <1>1, <1>2, <1>4, <1>5, <1>6, <1>8 DEF TargetShape

\* One output per receiver and the change.
LEMMA BatchShape ==
    ASSUME Collection, request.kind = "batch" PROVE TargetShape(TargetOutputs)
<1> DEFINE n == Len(request.amounts)
           s == [k \in 1..n |-> Rgbpp(k, request.amounts[k], CellCapacity)]
           change == Rgbpp(n + 1, Change, CellCapacity)
           w == WithChange(s, change)
<1>1. TargetOutputs = w
  BY DEF TargetOutputs
<1>2. n \in Nat /\ \A k \in 1..n : request.amounts[k] \in Nat
  <2>1. request.amounts \in Seq(Nat \ {0})
    BY RequestsAssumption DEF Collection
  <2> QED BY <2>1
<1>3. /\ Change \in Nat /\ request.type \in Types /\ CellCapacity \in Nat
  BY CollectionFacts, CellsAssumption DEF Collection, Types
<1>4. \A k \in 1..n : /\ s[k] \in Output /\ s[k].type = request.type
                      /\ s[k].lock = "rgbpp" /\ s[k].vout = k
                      /\ s[k].amount = request.amounts[k]
  BY <1>2, <1>3 DEF Output, Rgbpp
<1>5. s \in Seq(Output) /\ Len(s) = n /\ DOMAIN s = 1..n
  <2>1. s = [k \in 1..n |-> s[k]]
    OBVIOUS
  <2> HIDE DEF s, n
  <2> QED BY <2>1, <1>2, <1>4
<1>6. /\ change \in Output /\ change.type = request.type
      /\ change.lock = "rgbpp" /\ change.vout = n + 1 /\ change.amount = Change
  BY <1>2, <1>3 DEF Output, Rgbpp
<1> HIDE DEF s, change
<1>7. AmountOf(s) = Wanted
  <2> DEFINE sa == [k \in 1..n |-> s[k].amount]
  <2>1. \A k \in 1..n : sa[k] \in Int /\ request.amounts[k] = sa[k]
    BY <1>2, <1>4
  <2> HIDE DEF sa, n
  <2>2. SumTo(sa, n) = SumTo(request.amounts, n)
    BY <1>2, <2>1, SumSame
  <2> QED BY <2>2, <1>5 DEF sa, n, Wanted, AmountOf
<1> HIDE DEF w
<1>0. w = WithChange(s, change)
  BY DEF w
<1>8. /\ w \in Seq(Output) /\ Len(w) = n + (IF NeedRgbppChange THEN 1 ELSE 0)
      /\ \A k \in 1..n : w[k] = s[k]
      /\ NeedRgbppChange => w[n + 1] = change
      /\ AmountOf(w) =
             Wanted + (IF NeedRgbppChange THEN Change ELSE 0)
  <2>0. s \in Seq(Output) /\ change \in Output
    BY <1>5, <1>6
  <2> HIDE DEF n
  <2>1. /\ w \in Seq(Output)
        /\ Len(w) = Len(s) + (IF NeedRgbppChange THEN 1 ELSE 0)
        /\ \A k \in 1..Len(s) : w[k] = s[k]
        /\ NeedRgbppChange => w[Len(s) + 1] = change
        /\ AmountOf(w) = AmountOf(s) + (IF NeedRgbppChange THEN change.amount ELSE 0)
        /\ CapacityOf(w) = CapacityOf(s) + (IF NeedRgbppChange THEN change.capacity ELSE 0)
    <3>1. Extended(w, s, change)
      BY <1>0, <2>0, ChangeAppended
    <3> QED BY <3>1 DEF Extended
  <2> QED BY <2>1, <1>5, <1>6, <1>7 DEF n
<1> HIDE DEF n
<1>10. \A k \in 1..Len(w) : k \in 1..n \/ (k = n + 1 /\ NeedRgbppChange)
  <2>1. CASE NeedRgbppChange
    BY <2>1, <1>2, <1>8
  <2>2. CASE ~NeedRgbppChange
    BY <2>2, <1>2, <1>8
  <2> QED BY <2>1, <2>2
<1>11. AmountOf(w) = Total(Amount, Target)
  BY <1>8, CollectionFacts
<1> QED BY <1>1, <1>4, <1>6, <1>8, <1>10, <1>11 DEF TargetShape

LEMMA TargetShaped == ASSUME Collection PROVE TargetShape(TargetOutputs)
<1>1. request.kind \in Kinds
  BY RequestsAssumption DEF Collection
<1> QED BY <1>1, TransferShape, SplitShape, BatchShape, JumpShape DEF Kinds

LEMMA OthersListed ==
    ASSUME Collection
    PROVE  /\ Cardinality(Others) \in Nat
           /\ \A k \in 1..Cardinality(Others) :
                  /\ InOrder(Others)[k] \in Others
                  /\ TypeOf[InOrder(Others)[k]] # request.type
                  /\ Amount[InOrder(Others)[k]] \in Nat /\ Capacity[InOrder(Others)[k]] \in Nat
                  /\ TypeOf[InOrder(Others)[k]] \in Types
<1>1. Others \in SUBSET Nat /\ IsFiniteSet(Others)
  BY CellsAreFinite, FS_Subset DEF Collection
<1>2. Cardinality(Others) \in Nat /\ InOrder(Others) \in Seq(Others)
      /\ Len(InOrder(Others)) = Cardinality(Others)
  BY <1>1, FS_CardinalityType, InOrderPlaces
<1>3. \A k \in 1..Cardinality(Others) : InOrder(Others)[k] \in Others
  BY <1>2
<1>4. \A c \in Others : /\ TypeOf[c] # request.type /\ TypeOf[c] \in Types
                        /\ Amount[c] \in Nat /\ Capacity[c] \in Nat
  BY CellsAssumption DEF Collection, Types
<1> QED BY <1>2, <1>3, <1>4

\* The cells of other types keep their amounts and capacities.
LEMMA NonTargetShape ==
    ASSUME Collection, NEW n \in Nat
    PROVE  /\ NonTarget(n) \in Seq(Output) /\ Len(NonTarget(n)) = Cardinality(Others)
           /\ \A k \in 1..Cardinality(Others) :
                  /\ NonTarget(n)[k].lock = "rgbpp" /\ NonTarget(n)[k].vout = n + k
                  /\ NonTarget(n)[k].type = TypeOf[InOrder(Others)[k]]
                  /\ NonTarget(n)[k].amount = Amount[InOrder(Others)[k]]
                  /\ NonTarget(n)[k].capacity = Capacity[InOrder(Others)[k]]
<1> DEFINE m == Cardinality(Others)
           w == NonTarget(n)
<1>1. m \in Nat
  BY OthersListed
<1>2. w = [k \in 1..m |-> w[k]]
  BY DEF NonTarget
<1>3. ASSUME NEW k \in 1..m
      PROVE  /\ w[k] \in Output
             /\ w[k].lock = "rgbpp" /\ w[k].vout = n + k
             /\ w[k].type = TypeOf[InOrder(Others)[k]]
             /\ w[k].amount = Amount[InOrder(Others)[k]]
             /\ w[k].capacity = Capacity[InOrder(Others)[k]]
  <2> DEFINE c == InOrder(Others)[k]
             bound == Rgbpp(n + k, Amount[c], Capacity[c])
  <2>1. w[k] = [bound EXCEPT !.type = TypeOf[c]]
    BY DEF NonTarget
  <2>2. /\ Amount[c] \in Nat /\ Capacity[c] \in Nat /\ TypeOf[c] \in Types
        /\ request.type \in Types
    BY OthersListed DEF Types
  <2>3. /\ bound \in Output /\ bound.lock = "rgbpp" /\ bound.vout = n + k
        /\ bound.amount = Amount[c] /\ bound.capacity = Capacity[c]
    BY <1>1, <2>2 DEF Output, Rgbpp
  <2> HIDE DEF bound, c, w
  <2> QED BY <2>1, <2>2, <2>3 DEF Output, c
<1> HIDE DEF w, m
<1>4. w \in Seq(Output) /\ Len(w) = m
  BY <1>1, <1>2, <1>3
<1> QED BY <1>3, <1>4 DEF w, m

\* All outputs: those of the target asset first.
LEMMA AllOutputsShape ==
    ASSUME Collection
    PROVE  /\ AllOutputs \in Seq(Output)
           /\ Len(AllOutputs) = Len(TargetOutputs) + Cardinality(Others)
           /\ Len(TargetOutputs) \in Nat
           /\ \A k \in 1..Len(TargetOutputs) : AllOutputs[k] = TargetOutputs[k]
           /\ \A k \in 1..Cardinality(Others) :
                  AllOutputs[Len(TargetOutputs) + k] = NonTarget(Len(TargetOutputs))[k]
           /\ CapacityOf(AllOutputs) = CapacityOf(TargetOutputs) + Total(Capacity, Others)
           /\ CapacityOf(TargetOutputs) \in Int
<1> DEFINE w == TargetOutputs
           n == Len(w)
           u == NonTarget(n)
           m == Cardinality(Others)
           all == AllOutputs
<1>1. w \in Seq(Output) /\ n \in Nat
  BY TargetShaped DEF TargetShape
<1>2. u \in Seq(Output) /\ Len(u) = m /\ m \in Nat
  BY <1>1, NonTargetShape, OthersListed
<1>3. all = w \o u
  BY DEF AllOutputs
<1> DEFINE wc == [k \in DOMAIN w |-> w[k].capacity]
           uc == [k \in DOMAIN u |-> u[k].capacity]
           ac == [k \in DOMAIN all |-> all[k].capacity]
<1> HIDE DEF w, u, all, n, m
<1>4. /\ all \in Seq(Output) /\ Len(all) = n + m
      /\ \A k \in 1..n : all[k] = w[k]
      /\ \A k \in 1..m : all[n + k] = u[k]
  BY <1>1, <1>2, <1>3, AppendedAt DEF n
<1>5. DOMAIN w = 1..n /\ DOMAIN u = 1..m /\ DOMAIN all = 1..(n + m)
  BY <1>1, <1>2, <1>4 DEF n
<1>6. /\ \A k \in 1..n : wc[k] \in Int /\ ac[k] = wc[k]
      /\ \A k \in 1..m : uc[k] \in Int /\ ac[n + k] = uc[k]
  <2>1. (\A k \in 1..n : w[k] \in Output) /\ (\A k \in 1..m : u[k] \in Output)
    BY <1>1, <1>2, <1>5
  <2>2. \A x \in Output : x.capacity \in Int
    BY DEF Output
  <2>3. \A k \in 1..n : k \in 1..(n + m)
    BY <1>1, <1>2
  <2>4. \A k \in 1..m : n + k \in 1..(n + m)
    BY <1>1, <1>2
  <2> QED BY <1>4, <1>5, <2>1, <2>2, <2>3, <2>4
<1>7. uc = [k \in 1..m |-> uc[k]] /\ \A k \in 1..m : uc[k] = Capacity[InOrder(Others)[k]]
  BY <1>1, <1>5, NonTargetShape DEF u, m
<1> HIDE DEF wc, uc, ac
<1>8. SumTo(ac, n + m) = SumTo(wc, n) + SumTo(uc, m) /\ SumTo(wc, n) \in Int
  <2>1. SumTo(ac, n + m) = SumTo(wc, n) + SumTo(uc, m)
    <3>1. n \in Nat /\ m \in Nat
      BY <1>1, <1>2
    <3> QED BY <3>1, <1>6, SumAppend
  <2>2. SumTo(wc, n) \in Int
    BY <1>1, <1>6, SumInt
  <2> QED BY <2>1, <2>2
<1>9. SumTo(uc, Cardinality(Others)) = Total(Capacity, Others)
  <2>1. Others \in SUBSET Cell /\ \A c \in Others : Capacity[c] \in Int
    BY CellsAssumption DEF Collection
  <2> QED BY <1>7, <2>1, SumInOrder DEF m
<1> QED BY <1>4, <1>1, <1>8, <1>9 DEF w, u, all, n, m, wc, ac, CapacityOf

\* The fee taken from the last output changes nothing else.
SameAssets(v, w) ==
    /\ v \in Seq(Output) /\ w \in Seq(Output) /\ Len(v) = Len(w)
    /\ \A k \in 1..Len(w) : /\ v[k].lock = w[k].lock /\ v[k].vout = w[k].vout
                            /\ v[k].type = w[k].type /\ v[k].amount = w[k].amount

LEMMA MinusFeeShape ==
    ASSUME NEW w \in Seq(Output), Len(w) > 0
    PROVE  SameAssets(MinusFee(w), w) /\ CapacityOf(MinusFee(w)) = CapacityOf(w) - CkbFee
<1> DEFINE n == Len(w)
           v == MinusFee(w)
           vc == [k \in DOMAIN v |-> v[k].capacity]
           wc == [k \in DOMAIN w |-> w[k].capacity]
<1>1. n \in Nat /\ n \in 1..n /\ DOMAIN w = 1..n /\ \A k \in 1..n : w[k] \in Output
  OBVIOUS
<1>2. CkbFee \in Int
  BY CellsAssumption
<1>3. v = [w EXCEPT ![n].capacity = @ - CkbFee]
  BY DEF MinusFee
<1> HIDE DEF v, n
<1>4. DOMAIN v = 1..n
  BY <1>1, <1>3
<1>5. ASSUME NEW x \in Output
      PROVE  LET y == [x EXCEPT !.capacity = @ - CkbFee]
             IN  /\ y \in Output /\ y.capacity = x.capacity - CkbFee
                 /\ y.lock = x.lock /\ y.vout = x.vout
                 /\ y.type = x.type /\ y.amount = x.amount
  <2> DEFINE y == [x EXCEPT !.capacity = @ - CkbFee]
  <2>1. /\ x.lock \in {"rgbpp", "btcTime"} /\ x.vout \in Nat /\ x.type \in Types
        /\ x.amount \in Nat /\ x.capacity \in Int
        /\ x = [lock |-> x.lock, vout |-> x.vout, type |-> x.type, amount |-> x.amount,
                capacity |-> x.capacity]
    BY DEF Output
  <2>2. y = [lock |-> x.lock, vout |-> x.vout, type |-> x.type, amount |-> x.amount,
             capacity |-> x.capacity - CkbFee]
    BY <2>1
  <2> HIDE DEF y
  <2>3. y \in Output
    BY <1>2, <2>1, <2>2 DEF Output
  <2> QED BY <2>2, <2>3 DEF y
<1>6. ASSUME NEW k \in 1..n
      PROVE  /\ v[k] \in Output
             /\ v[k].lock = w[k].lock /\ v[k].vout = w[k].vout
             /\ v[k].type = w[k].type /\ v[k].amount = w[k].amount
             /\ k # n => v[k].capacity = w[k].capacity
             /\ v[n].capacity = w[n].capacity - CkbFee
             /\ v[k].capacity \in Int /\ w[k].capacity \in Int
  <2>1. k # n => v[k] = w[k]
    BY <1>1, <1>3
  <2>2. v[n] = [w[n] EXCEPT !.capacity = @ - CkbFee]
    BY <1>1, <1>3
  <2>3. w[k] \in Output /\ w[n] \in Output /\ w[k].capacity \in Int
    BY <1>1 DEF Output
  <2>4. /\ v[n] \in Output /\ v[n].capacity = w[n].capacity - CkbFee
        /\ v[n].lock = w[n].lock /\ v[n].vout = w[n].vout
        /\ v[n].type = w[n].type /\ v[n].amount = w[n].amount
    BY <1>5, <2>2, <2>3
  <2>5. v[k] \in Output
    BY <2>1, <2>3, <2>4
  <2>6. v[k].capacity \in Int
    BY <2>5 DEF Output
  <2> QED BY <2>1, <2>3, <2>4, <2>5, <2>6
<1>7. v \in Seq(Output) /\ Len(v) = n
  <2>1. v = [k \in 1..n |-> v[k]]
    BY <1>1, <1>3, <1>4
  <2> QED BY <2>1, <1>1, <1>6
<1>8. /\ \A k \in 1..n : vc[k] \in Int /\ wc[k] \in Int
      /\ \A k \in 1..n : k # n => vc[k] = wc[k]
      /\ vc[n] = wc[n] - CkbFee
  BY <1>1, <1>4, <1>6
<1>9. SumTo(wc, n) \in Int /\ SumTo(vc, n) = SumTo(wc, n) + vc[n] - wc[n]
  <2> HIDE DEF vc, wc
  <2>1. SumTo(wc, n) \in Int
    BY <1>1, <1>8, SumInt
  <2>2. SumTo(vc, n) = SumTo(wc, n) + vc[n] - wc[n]
    BY <1>1, <1>8, SumUpdate
  <2> QED BY <2>1, <2>2
<1>10. SumTo(vc, n) = SumTo(wc, n) - CkbFee
  <2> HIDE DEF vc, wc
  <2> QED BY <1>1, <1>2, <1>8, <1>9
<1> QED BY <1>6, <1>7, <1>10, <1>1 DEF SameAssets, CapacityOf, v, n

-----------------------------------------------------------------------------
(* What a virtual transaction promises.                                    *)

\* The virtual transaction is the one the call builds from what it collected.
Made ==
    /\ paymaster <=> request.kind # "batch" /\ (NeedFor \/ ~LastPaysFee(AllOutputs))
    /\ tx = Virtual(IF paymaster \/ request.kind = "batch" THEN AllOutputs
                                                          ELSE MinusFee(AllOutputs))

LEMMA MadeOutputs ==
    ASSUME Collection, Made
    PROVE  /\ SameAssets(tx.outputs, AllOutputs) /\ tx = Virtual(tx.outputs)
           /\ request.kind # "batch" => Len(tx.outputs) > 0
           /\ OutputCapacity = CapacityOf(TargetOutputs) + Total(Capacity, Others) -
                  (IF paymaster \/ request.kind = "batch" THEN 0 ELSE CkbFee)
<1>1. /\ AllOutputs \in Seq(Output) /\ CapacityOf(TargetOutputs) \in Int
      /\ CapacityOf(AllOutputs) = CapacityOf(TargetOutputs) + Total(Capacity, Others)
      /\ request.kind # "batch" => Len(AllOutputs) > 0
  <2>1. /\ Len(AllOutputs) = Len(TargetOutputs) + Cardinality(Others)
        /\ Len(TargetOutputs) \in Nat /\ Cardinality(Others) \in Nat
        /\ request.kind # "batch" => Len(TargetOutputs) > 0
    BY AllOutputsShape, OthersListed, TargetShaped DEF TargetShape
  <2> QED BY <2>1, AllOutputsShape
<1>2. Total(Capacity, Others) \in Nat
  BY TotalNat, CellsAssumption DEF Collection
<1>3. OutputCapacity = CapacityOf(tx.outputs)
  BY DEF OutputCapacity, CapacityOf
<1>4. CASE paymaster \/ request.kind = "batch"
  <2>1. tx = Virtual(AllOutputs) /\ tx.outputs = AllOutputs
    BY <1>4 DEF Made, Virtual
  <2>2. SameAssets(AllOutputs, AllOutputs)
    BY <1>1 DEF SameAssets
  <2> QED BY <1>1, <1>2, <1>3, <1>4, <2>1, <2>2
<1>5. CASE ~(paymaster \/ request.kind = "batch")
  <2>0. CkbFee \in Nat
    BY CellsAssumption
  <2>1. tx = Virtual(MinusFee(AllOutputs)) /\ tx.outputs = MinusFee(AllOutputs)
    BY <1>5 DEF Made, Virtual
  <2>2. /\ SameAssets(MinusFee(AllOutputs), AllOutputs)
        /\ CapacityOf(MinusFee(AllOutputs)) = CapacityOf(AllOutputs) - CkbFee
    BY <1>1, <1>5, MinusFeeShape
  <2>3. Len(tx.outputs) = Len(AllOutputs)
    BY <2>1, <2>2 DEF SameAssets
  <2>4. OutputCapacity = CapacityOf(TargetOutputs) + Total(Capacity, Others) - CkbFee
    BY <1>1, <1>2, <1>3, <2>1, <2>2, <2>0
  <2>5. tx = Virtual(tx.outputs) /\ SameAssets(tx.outputs, AllOutputs)
    BY <2>1, <2>2
  <2> QED BY <1>1, <1>5, <2>3, <2>4, <2>5
<1> QED BY <1>4, <1>5

\* Amounts: the target outputs hold what the target cells held, and every cell of
\* another type is there again.
LEMMA MadeConserves ==
    ASSUME Collection, Made, ToSet(tx.inputs) = Target \cup Others
    PROVE  AmountsConserved
<1> SUFFICES ASSUME NEW t \in Supported
             PROVE  Total(Amount, {c \in ToSet(tx.inputs) : TypeOf[c] = t}) =
                    SumTo([i \in DOMAIN tx.outputs |->
                             IF tx.outputs[i].type = t THEN tx.outputs[i].amount ELSE 0],
                          Len(tx.outputs))
  BY DEF AmountsConserved
<1> DEFINE o == tx.outputs
           w == TargetOutputs
           n == Len(w)
           m == Cardinality(Others)
           list == InOrder(Others)
           all == [i \in DOMAIN o |-> IF o[i].type = t THEN o[i].amount ELSE 0]
           wt == [k \in 1..n |-> IF request.type = t THEN w[k].amount ELSE 0]
           ut == [k \in 1..m |-> IF TypeOf[list[k]] = t THEN Amount[list[k]] ELSE 0]
           of == [c \in Cell |-> IF TypeOf[c] = t THEN Amount[c] ELSE 0]
<1>1. TargetShape(w) /\ n \in Nat /\ m \in Nat /\ DOMAIN w = 1..n
  BY TargetShaped, OthersListed DEF TargetShape
<1>2. /\ Len(o) = n + m /\ DOMAIN o = 1..(n + m)
      /\ \A k \in 1..n : o[k].type = w[k].type /\ o[k].amount = w[k].amount
      /\ \A k \in 1..m : o[n + k].type = TypeOf[list[k]] /\ o[n + k].amount = Amount[list[k]]
  <2>1. /\ SameAssets(o, AllOutputs) /\ Len(AllOutputs) = n + m
        /\ \A k \in 1..n : AllOutputs[k] = w[k]
        /\ \A k \in 1..m : AllOutputs[n + k] = NonTarget(n)[k]
    BY MadeOutputs, AllOutputsShape
  <2>2. \A k \in 1..m : /\ NonTarget(n)[k].type = TypeOf[list[k]]
                        /\ NonTarget(n)[k].amount = Amount[list[k]]
    BY <1>1, NonTargetShape
  <2> HIDE DEF o, w, n, m, list
  <2>3. /\ Len(o) = n + m /\ DOMAIN o = 1..(n + m)
        /\ \A k \in 1..(n + m) : o[k].type = AllOutputs[k].type /\ o[k].amount = AllOutputs[k].amount
    BY <2>1 DEF SameAssets
  <2>4. \A k \in 1..n : k \in 1..(n + m)
    BY <1>1
  <2>5. \A k \in 1..m : n + k \in 1..(n + m)
    BY <1>1
  <2> QED BY <2>1, <2>2, <2>3, <2>4, <2>5
<1>3. /\ \A k \in 1..n : w[k].type = request.type /\ w[k].amount \in Int
      /\ AmountOf(w) = Total(Amount, Target)
  <2>1. \A k \in 1..n : w[k] \in Output /\ w[k].type = request.type
    BY <1>1 DEF TargetShape
  <2> QED BY <1>1, <2>1 DEF TargetShape, Output
<1>4. \A k \in 1..m : /\ list[k] \in Cell /\ Amount[list[k]] \in Int
                      /\ TypeOf[list[k]] # request.type
  BY OthersListed DEF Collection
<1> HIDE DEF o, w, n, m, list
<1>5. /\ \A k \in 1..n : wt[k] \in Int /\ all[k] = wt[k]
      /\ \A k \in 1..m : ut[k] \in Int /\ all[n + k] = ut[k]
  <2>1. \A k \in 1..n : k \in DOMAIN o
    BY <1>1, <1>2
  <2>2. \A k \in 1..m : n + k \in DOMAIN o
    BY <1>1, <1>2
  <2> QED BY <1>2, <1>3, <1>4, <2>1, <2>2
<1>6. SumTo(all, n + m) = SumTo(wt, n) + SumTo(ut, m)
  <2> HIDE DEF all, wt, ut
  <2>1. n \in Nat /\ m \in Nat
    BY <1>1
  <2> QED BY <2>1, <1>5, SumAppend
<1>7. SumTo(wt, n) = IF request.type = t THEN Total(Amount, Target) ELSE 0
  <2>1. CASE request.type = t
    <3>1. wt = [k \in DOMAIN w |-> w[k].amount]
      BY <1>1, <2>1
    <3> QED BY <3>1, <2>1, <1>3 DEF AmountOf, n
  <2>2. CASE request.type # t
    <3>1. \A k \in 1..n : wt[k] = 0
      BY <2>2
    <3> HIDE DEF wt
    <3>2. SumTo(wt, n) = n * 0
      BY <1>1, <3>1, SumConstant
    <3> QED BY <1>1, <2>2, <3>2
  <2> QED BY <2>1, <2>2
<1>8. SumTo(ut, m) = Total(of, Others)
  <2>1. \A k \in 1..Cardinality(Others) : ut[k] = of[InOrder(Others)[k]]
    BY <1>4 DEF m, list
  <2>2. Others \in SUBSET Cell /\ \A c \in Others : of[c] \in Int
    BY CellsAssumption DEF Collection
  <2> HIDE DEF ut, of
  <2> QED BY <2>1, <2>2, SumInOrder DEF m
<1>9. Total(Amount, {c \in ToSet(tx.inputs) : TypeOf[c] = t}) =
          (IF request.type = t THEN Total(Amount, Target) ELSE 0) + Total(of, Others)
  <2> DEFINE T == {c \in ToSet(tx.inputs) : TypeOf[c] = t}
  <2>1. CASE request.type = t
    <3>1. T = Target
      BY <2>1 DEF Collection
    <3>2. \A c \in Cell : (IF c \in Others THEN of[c] ELSE 0) = (IF c \in {} THEN of[c] ELSE 0)
      BY <2>1 DEF Collection
    <3> HIDE DEF T, of
    <3>3. Total(of, Others) = Total(of, {})
      BY <3>2, TotalSame
    <3>4. Total(of, {}) = 0
      BY TotalOfNone
    <3>5. Total(Amount, Target) \in Nat
      BY CollectionFacts
    <3>6. Total(Amount, T) = (IF request.type = t THEN Total(Amount, Target) ELSE 0)
                             + Total(of, Others)
      BY <2>1, <3>1, <3>3, <3>4, <3>5
    <3> QED BY <3>6 DEF T
  <2>2. CASE request.type # t
    <3>1. \A c \in Cell : (IF c \in T THEN Amount[c] ELSE 0) = (IF c \in Others THEN of[c] ELSE 0)
      BY <2>2 DEF Collection
    <3>2. \A c \in Others : of[c] \in Nat
      BY CellsAssumption DEF Collection
    <3> HIDE DEF T, of
    <3>3. Total(Amount, T) = Total(of, Others)
      BY <3>1, TotalSame
    <3>4. Total(of, Others) \in Nat
      BY <3>2, TotalNat DEF Collection
    <3> QED BY <2>2, <3>3, <3>4 DEF T
  <2> QED BY <2>1, <2>2
<1> QED BY <1>2, <1>6, <1>7, <1>8, <1>9 DEF o

\* Capacities: what the target cells hold pays for their outputs and for the fee, or the
\* queue's cell pays, and then the Bitcoin transaction has paid for it.
LEMMA MadePays ==
    ASSUME Collection, Made, ToSet(tx.inputs) = Target \cup Others
    PROVE  /\ request.kind # "batch" /\ ~paymaster => SelfPaying /\ InputsSufficient
           /\ paymaster => ~InputsSufficient
           /\ paymaster /\ FirstCapacity > Occupied(tx.outputs[1]) => PaymasterCovers
           /\ request.kind = "batch" => ~paymaster
<1> DEFINE held == CapacityOf(TargetOutputs)
           rest == Total(Capacity, Others)
<1>1. /\ InputCapacity \in Nat /\ held \in Int /\ rest \in Nat
      /\ CkbFee \in Nat /\ CkbFee > 0 /\ PaymasterCapacity \in Nat
      /\ CellCapacity \in Nat /\ MinChange \in Nat
      /\ PaymasterCapacity > CellCapacity + MinChange
  <2>1. \A c \in Others : Capacity[c] \in Nat
    BY CellsAssumption DEF Collection
  <2>2. rest \in Nat
    BY <2>1, TotalNat DEF Collection
  <2> QED BY <2>2, CollectionFacts, AllOutputsShape, CellsAssumption, PaymasterAssumption
<1>2. Total(Capacity, ToSet(tx.inputs)) = InputCapacity + rest
  <2>1. \A c \in Target \cup Others : Capacity[c] \in Nat
    BY CellsAssumption DEF Collection
  <2> QED BY <2>1, TotalUnion DEF Collection, InputCapacity
<1>3. OutputCapacity = held + rest -
          (IF paymaster \/ request.kind = "batch" THEN 0 ELSE CkbFee)
  BY MadeOutputs
<1>4. request.kind # "batch" => CapacityShape(TargetOutputs)
  BY TargetShaped DEF TargetShape
<1>5. Occupied(tx.outputs[1]) = Occupied(TargetOutputs[1]) \/ request.kind = "batch"
  <2>1. SUFFICES ASSUME request.kind # "batch"
                 PROVE  Occupied(tx.outputs[1]) = Occupied(TargetOutputs[1])
    OBVIOUS
  <2>2. /\ Len(TargetOutputs) \in Nat /\ Len(TargetOutputs) > 0
        /\ Cardinality(Others) \in Nat
        /\ Len(AllOutputs) = Len(TargetOutputs) + Cardinality(Others)
        /\ \A k \in 1..Len(TargetOutputs) : AllOutputs[k] = TargetOutputs[k]
    BY <2>1, TargetShaped, AllOutputsShape, OthersListed DEF TargetShape
  <2>3. 1 \in 1..Len(TargetOutputs) /\ 1 \in 1..Len(AllOutputs)
    BY <2>2
  <2>4. tx.outputs[1].lock = TargetOutputs[1].lock
    BY <2>2, <2>3, MadeOutputs DEF SameAssets
  <2> QED BY <2>4 DEF Occupied
<1> HIDE DEF held, rest
<1>6. request.kind # "batch" =>
          /\ InputCapacity <= held
          /\ ~NeedFor => held = InputCapacity
          /\ FirstCapacity > Occupied(TargetOutputs[1]) => held <= InputCapacity + CellCapacity
  BY <1>4 DEF CapacityShape, held
<1>7. CASE paymaster
  <2>1. request.kind # "batch"
    BY <1>7 DEF Made
  <2>2. OutputCapacity = held + rest
    BY <1>1, <1>3, <1>7
  <2> QED BY <1>1, <1>2, <1>5, <1>6, <1>7, <2>1, <2>2 DEF InputsSufficient, PaymasterCovers
<1>8. CASE ~paymaster /\ request.kind # "batch"
  <2>1. ~NeedFor
    BY <1>8 DEF Made
  <2>2. OutputCapacity = held + rest - CkbFee
    BY <1>1, <1>3, <1>8
  <2> QED BY <1>1, <1>2, <1>6, <1>8, <2>1, <2>2 DEF InputsSufficient, SelfPaying
<1>9. CASE ~paymaster /\ request.kind = "batch"
  BY <1>9
<1> QED BY <1>7, <1>8, <1>9

\* The Bitcoin transaction was completed for this virtual transaction.
Completed ==
    btcOutputs # <<>> => \E change \in {<<>>, <<ToFrom("change")>>} :
        btcOutputs = Commitment \o CellOutputs \o PaymasterOutput \o change

BoundOutputs == {i \in DOMAIN tx.outputs : tx.outputs[i].lock = "rgbpp"}
Receiver(i) == IF i \in DOMAIN request.tos THEN request.tos[i] ELSE From
Addresses == {From} \cup {request.tos[i] : i \in DOMAIN request.tos}
BtcOutput == [to : Addresses, cell : Nat,
              what : {"commitment", "cell", "paymaster", "change"}]

\* The outputs of the Bitcoin transaction, by what they were made for.
LEMMA BtcShape ==
    ASSUME Completed, btcOutputs # <<>>, tx.outputs \in Seq(Output)
    PROVE  /\ \A i \in BoundOutputs :
                  LET v == Rank(i, BoundOutputs) + 1
                  IN  /\ v \in DOMAIN btcOutputs
                      /\ btcOutputs[v].cell = i /\ btcOutputs[v].to = Receiver(i)
           /\ (\E v \in DOMAIN btcOutputs : btcOutputs[v].what = "paymaster")
                  <=> PaymasterOutput # <<>>
<1> DEFINE B == BoundOutputs
           n == Cardinality(B)
<1>1. B \in SUBSET Nat /\ IsFiniteSet(B) /\ n \in Nat
  <2>1. DOMAIN tx.outputs = 1..Len(tx.outputs) /\ Len(tx.outputs) \in Nat
    OBVIOUS
  <2>2. IsFiniteSet(1..Len(tx.outputs)) /\ B \in SUBSET (1..Len(tx.outputs))
    BY <2>1, FS_Interval DEF BoundOutputs
  <2>3. IsFiniteSet(B) /\ Cardinality(B) \in Nat
    BY <2>2, FS_Subset, FS_CardinalityType
  <2>4. B \in SUBSET Nat
    BY <2>1, <2>2
  <2> QED BY <2>3, <2>4
<1>2. /\ InOrder(B) \in Seq(B) /\ Len(InOrder(B)) = n
      /\ \A i \in B : InOrder(B)[Rank(i, B)] = i /\ Rank(i, B) \in 1..n
  BY <1>1, InOrderPlaces, RankRange
<1>3. DOMAIN InOrder(B) = 1..n /\ \A k \in 1..n : InOrder(B)[k] \in Nat
  <2>1. \A k \in 1..n : InOrder(B)[k] \in B
    BY <1>1, InOrderPlaces
  <2>2. InOrder(B) \in Seq(B) /\ Len(InOrder(B)) = n
    BY <1>2
  <2> HIDE DEF B, n
  <2>3. DOMAIN InOrder(B) = 1..n
    BY <2>2
  <2>4. \A x \in B : x \in Nat
    BY <1>1
  <2> QED BY <2>1, <2>3, <2>4
<1>4. CellOutputs = [k \in 1..n |-> [to |-> Receiver(InOrder(B)[k]),
                                    cell |-> InOrder(B)[k], what |-> "cell"]]
  BY <1>3 DEF CellOutputs, Receiver, BoundOutputs
<1> HIDE DEF B, n
<1>5. CellOutputs \in Seq(BtcOutput) /\ Len(CellOutputs) = n
  <2>1. \A k \in 1..n : CellOutputs[k] \in BtcOutput
    BY <1>3, <1>4 DEF BtcOutput, Receiver, Addresses
  <2> QED BY <1>1, <1>4, <2>1
<1>6. /\ Commitment \in Seq(BtcOutput) /\ Len(Commitment) = 1 /\ Commitment[1].what = "commitment"
      /\ PaymasterOutput \in Seq(BtcOutput)
      /\ PaymasterOutput = <<>> \/ PaymasterOutput = <<ToFrom("paymaster")>>
      /\ ToFrom("paymaster").what = "paymaster" /\ ToFrom("change").what = "change"
      /\ ToFrom("paymaster") \in BtcOutput /\ ToFrom("change") \in BtcOutput
  <2>1. /\ ToFrom("commitment") \in BtcOutput /\ ToFrom("commitment").what = "commitment"
        /\ ToFrom("paymaster") \in BtcOutput /\ ToFrom("paymaster").what = "paymaster"
        /\ ToFrom("change") \in BtcOutput /\ ToFrom("change").what = "change"
    BY DEF ToFrom, BtcOutput, Addresses
  <2>2. PaymasterOutput = <<>> \/ PaymasterOutput = <<ToFrom("paymaster")>>
    BY DEF PaymasterOutput
  <2>3. \A x \in BtcOutput : <<x>> \in Seq(BtcOutput) /\ Len(<<x>>) = 1 /\ <<x>>[1] = x
    OBVIOUS
  <2>4. <<>> \in Seq(BtcOutput)
    OBVIOUS
  <2>5. /\ Commitment \in Seq(BtcOutput) /\ Len(Commitment) = 1
        /\ Commitment[1].what = "commitment"
    BY <2>1, <2>3 DEF Commitment
  <2>6. PaymasterOutput \in Seq(BtcOutput)
    BY <2>1, <2>2, <2>3, <2>4
  <2> QED BY <2>1, <2>2, <2>5, <2>6
<1>7. PICK change \in {<<>>, <<ToFrom("change")>>} :
        btcOutputs = Commitment \o CellOutputs \o PaymasterOutput \o change
  BY DEF Completed
<1>8. change \in Seq(BtcOutput) /\ \A k \in 1..Len(change) : change[k].what = "change"
  <2>1. CASE change = <<>>
    BY <2>1
  <2>2. CASE change = <<ToFrom("change")>>
    BY <2>2, <1>6
  <2> QED BY <2>1, <2>2
<1> DEFINE p == Len(PaymasterOutput)
<1>11. /\ Len(btcOutputs) = (1 + n) + p + Len(change) /\ p \in Nat /\ Len(change) \in Nat
       /\ \A k \in 1..1 : btcOutputs[k] = Commitment[k]
       /\ \A k \in 1..n : btcOutputs[1 + k] = CellOutputs[k]
       /\ \A k \in 1..p : btcOutputs[(1 + n) + k] = PaymasterOutput[k]
       /\ \A k \in 1..Len(change) : btcOutputs[(1 + n) + p + k] = change[k]
       /\ btcOutputs \in Seq(BtcOutput)
  <2> DEFINE a == Commitment
             b == CellOutputs
             c == PaymasterOutput
             d == change
  <2>1. /\ a \in Seq(BtcOutput) /\ b \in Seq(BtcOutput) /\ c \in Seq(BtcOutput)
        /\ d \in Seq(BtcOutput)
    BY <1>5, <1>6, <1>8
  <2>2. Len(a) = 1 /\ Len(b) = n /\ Len(c) = p /\ btcOutputs = a \o b \o c \o d
    BY <1>5, <1>6, <1>7
  <2> HIDE DEF a, b, c, d, p
  <2>3. /\ a \o b \o c \o d \in Seq(BtcOutput)
        /\ Len(a \o b \o c \o d) = Len(a) + Len(b) + Len(c) + Len(d)
        /\ \A k \in 1..Len(a) : (a \o b \o c \o d)[k] = a[k]
        /\ \A k \in 1..Len(b) : (a \o b \o c \o d)[Len(a) + k] = b[k]
        /\ \A k \in 1..Len(c) : (a \o b \o c \o d)[Len(a) + Len(b) + k] = c[k]
        /\ \A k \in 1..Len(d) : (a \o b \o c \o d)[Len(a) + Len(b) + Len(c) + k] = d[k]
    BY <2>1
  <2>4. Len(c) \in Nat /\ Len(d) \in Nat
    BY <2>1
  <2> QED BY <2>2, <2>3, <2>4 DEF a, b, c, d
<1>12. DOMAIN btcOutputs = 1..((1 + n) + p + Len(change))
  BY <1>11
<1>13. ASSUME NEW i \in B
       PROVE  LET v == Rank(i, B) + 1
              IN  /\ v \in DOMAIN btcOutputs
                  /\ btcOutputs[v].cell = i /\ btcOutputs[v].to = Receiver(i)
  <2> DEFINE k == Rank(i, B)
  <2>1. k \in 1..n /\ InOrder(B)[k] = i
    BY <1>2
  <2> HIDE DEF k, p
  <2>2. k + 1 \in DOMAIN btcOutputs /\ 1 + k = k + 1
    BY <1>1, <1>11, <1>12, <2>1
  <2>3. btcOutputs[k + 1] = CellOutputs[k]
    BY <1>11, <2>1, <2>2
  <2>4. CellOutputs[k].cell = i /\ CellOutputs[k].to = Receiver(i)
    BY <1>4, <2>1
  <2> QED BY <2>2, <2>3, <2>4 DEF k
<1>14. PaymasterOutput # <<>> => \E v \in DOMAIN btcOutputs : btcOutputs[v].what = "paymaster"
  <2>1. SUFFICES ASSUME PaymasterOutput = <<ToFrom("paymaster")>>
                 PROVE  \E v \in DOMAIN btcOutputs : btcOutputs[v].what = "paymaster"
    BY <1>6
  <2>2. p = 1 /\ PaymasterOutput[1] = ToFrom("paymaster")
    BY <2>1
  <2> HIDE DEF p
  <2>3. (1 + n) + 1 \in DOMAIN btcOutputs
    BY <1>1, <1>11, <1>12, <2>2
  <2>4. btcOutputs[(1 + n) + 1] = ToFrom("paymaster")
    BY <1>11, <2>2
  <2> QED BY <1>6, <2>3, <2>4
<1>15. ASSUME NEW v \in DOMAIN btcOutputs, PaymasterOutput = <<>>
       PROVE  btcOutputs[v].what # "paymaster"
  <2>1. p = 0
    BY <1>15
  <2> HIDE DEF p
  <2>2. CASE v = 1
    BY <1>6, <1>11, <2>2
  <2>3. CASE v \in 2..(1 + n)
    <3>1. v - 1 \in 1..n /\ 1 + (v - 1) = v
      BY <1>1, <2>3
    <3>2. btcOutputs[v] = CellOutputs[v - 1]
      BY <1>11, <3>1
    <3>3. CellOutputs[v - 1].what = "cell"
      BY <1>4, <3>1
    <3> QED BY <3>2, <3>3
  <2>4. CASE v > 1 + n
    <3>1. v - (1 + n) \in 1..Len(change) /\ (1 + n) + p + (v - (1 + n)) = v
      BY <1>1, <1>11, <1>12, <2>1, <2>4
    <3>2. btcOutputs[v] = change[v - (1 + n)]
      BY <1>11, <3>1
    <3> QED BY <1>8, <3>1, <3>2
  <2> QED BY <1>1, <1>11, <1>12, <2>1, <2>2, <2>3, <2>4
<1> QED BY <1>13, <1>14, <1>15 DEF B

\* The k-th output with an RGB++ lock is bound to output k of the Bitcoin transaction,
\* unless a leap to CKB carries other cells along.
LEMMA BoundAtRank ==
    ASSUME Collection, Made, ~(request.kind = "jump" /\ Others # {}), NEW i \in BoundOutputs
    PROVE  tx.outputs[i].vout = Rank(i, BoundOutputs)
<1> DEFINE o == tx.outputs
           w == TargetOutputs
           n == Len(w)
           m == Cardinality(Others)
<1>1. TargetShape(w) /\ n \in Nat /\ m \in Nat
  BY TargetShaped, OthersListed DEF TargetShape
<1>2. /\ Len(o) = n + m /\ DOMAIN o = 1..(n + m)
      /\ \A k \in 1..n : o[k].lock = w[k].lock /\ o[k].vout = w[k].vout
      /\ \A k \in 1..m : o[n + k].lock = "rgbpp" /\ o[n + k].vout = n + k
  <2>1. /\ SameAssets(o, AllOutputs) /\ Len(AllOutputs) = n + m
        /\ \A k \in 1..n : AllOutputs[k] = w[k]
        /\ \A k \in 1..m : AllOutputs[n + k] = NonTarget(n)[k]
    BY MadeOutputs, AllOutputsShape
  <2>2. \A k \in 1..m : NonTarget(n)[k].lock = "rgbpp" /\ NonTarget(n)[k].vout = n + k
    BY <1>1, NonTargetShape
  <2> HIDE DEF o, w, n, m
  <2>3. /\ Len(o) = n + m /\ DOMAIN o = 1..(n + m)
        /\ \A k \in 1..(n + m) : o[k].lock = AllOutputs[k].lock /\ o[k].vout = AllOutputs[k].vout
    BY <2>1 DEF SameAssets
  <2>4. \A k \in 1..n : k \in 1..(n + m)
    BY <1>1
  <2>5. \A k \in 1..m : n + k \in 1..(n + m)
    BY <1>1
  <2> QED BY <2>1, <2>2, <2>3, <2>4, <2>5
<1>3. i \in 1..(n + m) /\ o[i].lock = "rgbpp"
  BY <1>2 DEF BoundOutputs
<1>4. CASE request.kind # "jump"
  <2>1. \A k \in 1..n : w[k].lock = "rgbpp" /\ w[k].vout = k
    BY <1>1, <1>4 DEF TargetShape
  <2> HIDE DEF o, w, n, m
  <2>2. ASSUME NEW k \in 1..(n + m) PROVE o[k].lock = "rgbpp" /\ o[k].vout = k
    <3>1. CASE k <= n
      BY <1>1, <1>2, <2>1, <3>1
    <3>2. CASE k > n
      <4>1. k - n \in 1..m /\ n + (k - n) = k
        BY <1>1, <3>2
      <4> QED BY <1>2, <4>1
    <3> QED BY <1>1, <3>1, <3>2
  <2>3. BoundOutputs = 1..(n + m)
    BY <1>2, <2>2 DEF BoundOutputs, o
  <2>4. {d \in 1..(n + m) : d < i} = 1..(i - 1)
    BY <1>1, <1>3
  <2>5. Cardinality(1..(i - 1)) = i - 1
    BY <1>1, <1>3, FS_Interval
  <2>6. Rank(i, BoundOutputs) = i
    <3>1. Rank(i, 1..(n + m)) = (i - 1) + 1
      BY <2>4, <2>5 DEF Rank
    <3>2. (i - 1) + 1 = i
      BY <1>1, <1>3
    <3> QED BY <2>3, <3>1, <3>2
  <2> QED BY <1>3, <2>2, <2>6 DEF o
<1>5. CASE request.kind = "jump"
  <2>1. m = 0
    BY <1>5, FS_EmptySet
  <2>2. n <= 2 /\ n > 0 /\ w[1].lock = "btcTime" /\ (n = 2 => w[2].vout = 1)
    BY <1>1, <1>5 DEF TargetShape
  <2> HIDE DEF o, w, n, m
  <2>3. o[1].lock = "btcTime"
    BY <1>1, <1>2, <2>2
  <2>4. i = 2 /\ n = 2
    BY <1>1, <1>3, <2>1, <2>2, <2>3
  <2>5. o[2].vout = 1
    BY <1>2, <2>2, <2>4
  <2>6. {d \in BoundOutputs : d < i} = {}
    <3>1. \A d \in BoundOutputs : d \in 1..2 /\ d # 1
      BY <1>2, <2>1, <2>3, <2>4 DEF BoundOutputs, o
    <3>2. \A d \in BoundOutputs : ~(d < 2)
      BY <3>1
    <3> QED BY <2>4, <3>2
  <2>7. Rank(i, BoundOutputs) = 1
    BY <2>6, FS_EmptySet DEF Rank
  <2> QED BY <2>4, <2>5, <2>7 DEF o
<1> QED BY <1>4, <1>5

\* A new cell is bound to the Bitcoin output made for it, which pays its receiver.
LEMMA MadeBinds ==
    ASSUME Collection, Made, Completed, ~(request.kind = "jump" /\ Others # {})
    PROVE  BindingCorrect
<1> SUFFICES ASSUME btcOutputs # <<>>, NEW i \in DOMAIN tx.outputs, tx.outputs[i].lock = "rgbpp"
             PROVE  /\ tx.outputs[i].vout + 1 \in DOMAIN btcOutputs
                    /\ btcOutputs[tx.outputs[i].vout + 1].cell = i
                    /\ Transferred(i) \/ btcOutputs[tx.outputs[i].vout + 1].to = From
  BY DEF BindingCorrect
<1>1. i \in BoundOutputs
  BY DEF BoundOutputs
<1>2. tx.outputs[i].vout = Rank(i, BoundOutputs)
  BY <1>1, BoundAtRank
<1>3. tx.outputs \in Seq(Output)
  BY MadeOutputs DEF SameAssets
<1>4. /\ tx.outputs[i].vout + 1 \in DOMAIN btcOutputs
      /\ btcOutputs[tx.outputs[i].vout + 1].cell = i
      /\ btcOutputs[tx.outputs[i].vout + 1].to = Receiver(i)
  BY <1>1, <1>2, <1>3, BtcShape
<1>5. Transferred(i) \/ Receiver(i) = From
  <2>1. SUFFICES ASSUME i \in DOMAIN request.tos PROVE Transferred(i) \/ Receiver(i) = From
    BY DEF Receiver
  <2>2. /\ request.kind \in Kinds
        /\ request.locks \in Seq(Utxo) /\ request.amounts \in Seq(Nat \ {0})
        /\ request.kind = "transfer" => DOMAIN request.tos \subseteq {1}
        /\ request.kind = "split" => DOMAIN request.tos \subseteq DOMAIN request.locks
        /\ request.kind = "batch" => DOMAIN request.tos \subseteq DOMAIN request.amounts
        /\ request.kind = "jump" => \A k \in DOMAIN request.tos : request.tos[k] = From
    BY RequestsAssumption DEF Collection
  <2>3. CASE request.kind = "transfer"
    BY <2>1, <2>2, <2>3 DEF Transferred
  <2>4. CASE request.kind = "split"
    <3>1. i \in 1..Len(request.locks) /\ Len(request.locks) \in Nat
      BY <2>1, <2>2, <2>4
    <3>2. Len(request.locks) <= Cardinality(Target) /\ Cardinality(Target) \in Nat
      BY <2>4, CollectionFacts DEF Collection
    <3> QED BY <2>4, <3>1, <3>2 DEF Transferred
  <2>5. CASE request.kind = "batch"
    <3>1. i \in 1..Len(request.amounts)
      BY <2>1, <2>2, <2>5
    <3> QED BY <2>5, <3>1 DEF Transferred
  <2>6. CASE request.kind = "jump"
    BY <2>1, <2>2, <2>6 DEF Receiver
  <2> QED BY <2>2, <2>3, <2>4, <2>5, <2>6 DEF Kinds
<1> QED BY <1>4, <1>5

-----------------------------------------------------------------------------
(* The invariant that links the virtual transaction to what was read.      *)

\* Every lock that was read gave a cell of the target asset; the batch transfer asked
\* for no others.
Gathered ==
    /\ \A k \in 1..read : \E c \in found : UtxoOf[c] = request.locks[k] /\ TypeOf[c] = request.type
    /\ request.kind = "batch" => \A c \in found : TypeOf[c] = request.type

\* From the virtual transaction on; a call that Bitcoin rejected has had one.
Ready == Started \/ btcOutputs # <<>>
Enough == read = Len(request.locks) /\ (request.kind # "split" => Change >= 0)

BuiltInv ==
    /\ Gathered /\ Completed
    /\ step = "collect" => btcOutputs = <<>>
    /\ Ready => Enough /\ Made

LEMMA EnoughCollected ==
    ASSUME CellsInv, Gathered, Enough
    PROVE  Collection
<1> DEFINE locks == request.locks
<1>1. request \in Requests /\ locks \in Seq(Utxo) /\ IsInjective(locks) /\ locks # <<>>
  BY RequestsAssumption DEF CellsInv, Reading
<1>2. found \subseteq Cell
  BY DEF CellsInv, Reading
<1>3. /\ Target \in SUBSET Cell /\ Others \in SUBSET Cell /\ Target \cap Others = {}
      /\ \A c \in Target : TypeOf[c] = request.type
      /\ \A c \in Others : TypeOf[c] # request.type
  BY <1>2 DEF Target, Others, Collected
<1>4. Len(locks) \in Nat /\ Len(locks) > 0 /\ DOMAIN locks = 1..Len(locks)
  BY <1>1
<1>5. \A k \in 1..Len(locks) : \E c \in Target : UtxoOf[c] = locks[k]
  BY DEF Gathered, Enough, Target, Collected
<1>6. Target # {}
  <2>1. 1 \in 1..Len(locks)
    BY <1>4
  <2> QED BY <1>5, <2>1
<1>7. request.kind = "batch" => Others = {}
  BY DEF Gathered, Others
<1>8. Len(locks) <= Cardinality(Target)
  <2> DEFINE S == 1..Len(locks)
             f == [k \in S |-> CHOOSE c \in Target : UtxoOf[c] = locks[k]]
  <2>1. \A k \in S : f[k] \in Target /\ UtxoOf[f[k]] = locks[k]
    BY <1>5
  <2>2. ASSUME NEW k \in S, NEW l \in S, f[k] = f[l] PROVE k = l
    <3>1. locks[k] = locks[l]
      BY <2>1, <2>2
    <3>2. \A a, b \in DOMAIN locks : locks[a] = locks[b] => a = b
      BY <1>1 DEF IsInjective
    <3> QED BY <1>4, <3>1, <3>2
  <2>3. f \in Injection(S, Target)
    BY <2>1, <2>2 DEF Injection, IsInjective
  <2>4. IsFiniteSet(Target)
    BY <1>3, CellsAreFinite, FS_Subset
  <2>5. Cardinality(S) = Len(locks)
    BY <1>4, FS_Interval
  <2> HIDE DEF f, S
  <2>6. Cardinality(S) <= Cardinality(Target)
    BY <2>3, <2>4, FS_Injection
  <2> QED BY <2>5, <2>6
<1> QED BY <1>1, <1>3, <1>6, <1>7, <1>8 DEF Collection, Enough

\* Each kind of call builds outputs of the common shape.
LEMMA OutputsAreAll ==
    ASSUME Collection
    PROVE  /\ request.kind = "transfer" => TransferOutputs = AllOutputs
           /\ request.kind = "split" => SplitOutputs = AllOutputs
           /\ request.kind = "batch" => BatchOutputs = AllOutputs
           /\ request.kind = "jump" => JumpOutputs = AllOutputs
<1>1. request.kind = "transfer" => TransferOutputs = AllOutputs
  BY DEF TransferOutputs, AllOutputs, TargetOutputs, WithChange
<1>2. request.kind = "jump" => JumpOutputs = AllOutputs
  BY DEF JumpOutputs, AllOutputs, TargetOutputs, WithChange
<1>3. ASSUME request.kind = "split" PROVE SplitOutputs = AllOutputs
  <2>1. SplitOutputs = TargetOutputs \o NonTarget(Cardinality(Target))
    BY <1>3 DEF SplitOutputs, TargetOutputs
  <2>2. Len(TargetOutputs) = Cardinality(Target)
    BY <1>3, CollectionFacts DEF TargetOutputs
  <2> QED BY <2>1, <2>2 DEF AllOutputs
<1>4. ASSUME request.kind = "batch" PROVE BatchOutputs = AllOutputs
  <2>1. BatchOutputs = TargetOutputs
    BY <1>4 DEF BatchOutputs, TargetOutputs, WithChange
  <2>2. Cardinality(Others) = 0
    BY <1>4, FS_EmptySet DEF Collection
  <2>3. TargetOutputs \in Seq(Output) /\ Len(TargetOutputs) \in Nat
    BY TargetShaped DEF TargetShape
  <2>4. NonTarget(Len(TargetOutputs)) \in Seq(Output) /\ Len(NonTarget(Len(TargetOutputs))) = 0
    BY <2>2, <2>3, NonTargetShape
  <2> DEFINE w == TargetOutputs
             u == NonTarget(Len(TargetOutputs))
  <2> HIDE DEF w, u
  <2>5. w \in Seq(Output) /\ u \in Seq(Output) /\ Len(u) = 0
    BY <2>3, <2>4 DEF w, u
  <2>6. w \o u = w
    BY <2>5
  <2> QED BY <2>1, <2>6 DEF AllOutputs, w, u
<1> QED BY <1>1, <1>2, <1>3, <1>4

\* What the client has collected determines the outputs.
LEMMA ViewStays ==
    ASSUME UNCHANGED <<request, found>>
    PROVE  /\ Target' = Target /\ Others' = Others /\ Change' = Change
           /\ AllOutputs' = AllOutputs /\ (NeedFor' <=> NeedFor)
<1>1. Target' = Target /\ Others' = Others
  BY DEF Target, Others, Collected
<1>2. Change' = Change /\ Wanted' = Wanted
  BY <1>1 DEF Change, Wanted
<1>3. InputCapacity' = InputCapacity /\ FirstCapacity' = FirstCapacity
  BY <1>1 DEF InputCapacity, FirstCapacity
<1>4. NeedRgbppChange' <=> NeedRgbppChange
  BY <1>2 DEF NeedRgbppChange
<1>5. NeedFor' <=> NeedFor
  BY <1>3, <1>4 DEF NeedFor, NeedPaymaster, SufficientForChange, ReceiverCapacity
<1>6. TargetOutputs' = TargetOutputs
  BY <1>1, <1>2, <1>3, <1>4 DEF TargetOutputs, WithChange, Rgbpp, BtcTime,
                                 ReceiverCapacity, ChangeCapacity, SufficientForChange
<1>7. AllOutputs' = AllOutputs
  BY <1>1, <1>6 DEF AllOutputs, NonTarget, Rgbpp
<1> QED BY <1>1, <1>2, <1>5, <1>7

LEMMA MadeStays ==
    ASSUME UNCHANGED <<request, found, tx, paymaster>>, Made
    PROVE  Made'
BY ViewStays DEF Made, Virtual

LEMMA CompletedStays ==
    ASSUME UNCHANGED <<request, tx>>
    PROVE  /\ CellOutputs' = CellOutputs /\ PaymasterOutput' = PaymasterOutput
           /\ UNCHANGED btcOutputs /\ Completed => Completed'
<1>1. CellOutputs' = CellOutputs
  BY DEF CellOutputs
<1>2. PaymasterOutput' = PaymasterOutput
  BY DEF PaymasterOutput, InputsSufficient, OutputCapacity
<1> QED BY <1>1, <1>2 DEF Completed

\* A step that leaves the client's data alone.
LEMMA BuiltFrame ==
    ASSUME BuiltInv, UNCHANGED <<request, read, found, tx, paymaster, btcOutputs>>,
           Ready' => Ready, step' = "collect" => step = "collect"
    PROVE  BuiltInv'
<1>1. Gathered'
  BY DEF BuiltInv, Gathered
<1>2. Completed'
  BY CompletedStays DEF BuiltInv
<1>3. ASSUME Ready' PROVE Enough' /\ Made'
  <2>1. Enough /\ Made
    BY <1>3 DEF BuiltInv
  <2>2. Made'
    BY <2>1, MadeStays
  <2>3. Enough'
    BY <2>1, ViewStays DEF Enough
  <2> QED BY <2>2, <2>3
<1> QED BY <1>1, <1>2, <1>3 DEF BuiltInv

LEMMA BuiltBuild ==
    ASSUME CellsInv, BuiltInv, AllRead, request.kind # "split" => Change >= 0,
           NEW outs, NEW need, Built(outs, need),
           Collection => outs = AllOutputs /\ (need <=> NeedFor)
    PROVE  BuiltInv'
<1>1. Enough
  BY DEF AllRead, Enough
<1>2. Collection
  BY <1>1, EnoughCollected DEF BuiltInv
<1>3. /\ UNCHANGED <<request, read, found, btcOutputs>> /\ step' = "lookup"
      /\ paymaster' <=> need \/ (request.kind # "batch" /\ ~LastPaysFee(AllOutputs))
      /\ tx' = Virtual(IF paymaster' \/ request.kind = "batch" THEN AllOutputs
                                                              ELSE MinusFee(AllOutputs))
  BY <1>2 DEF Built
<1>4. NeedFor => request.kind # "batch"
  BY DEF NeedFor
<1>5. Made'
  BY <1>2, <1>3, <1>4, ViewStays DEF Made, Virtual
<1>6. Gathered' /\ Enough'
  BY <1>1, <1>3, ViewStays DEF BuiltInv, Gathered, Enough
<1>7. Completed'
  BY <1>3 DEF AllRead, BuiltInv, Completed
<1> QED BY <1>3, <1>5, <1>6, <1>7 DEF BuiltInv

LEMMA BuiltInit == Init => BuiltInv
BY DEF Init, BuiltInv, Gathered, Completed, Ready, Started

LEMMA BuiltNext == CellsInv /\ BuiltInv /\ [Next]_vars => BuiltInv'
<1> SUFFICES ASSUME CellsInv, BuiltInv, [Next]_vars PROVE BuiltInv'
  OBVIOUS
<1>1. CASE Reject
  <2>1. Ready' => Ready
    BY <1>1 DEF Reject, Ready, Started
  <2> QED BY <1>1, <2>1, BuiltFrame DEF Reject
<1>2. CASE ReadLock
  <2> DEFINE cells == {c \in live :
                          /\ UtxoOf[c] = request.locks[read + 1]
                          /\ request.kind = "batch" => TypeOf[c] = request.type}
  <2>1. /\ UNCHANGED <<request, step, btcOutputs>> /\ step = "collect" /\ btcOutputs = <<>>
        /\ found' = found \cup cells /\ read' = read + 1 /\ read \in Nat
        /\ \E c \in cells : TypeOf[c] = request.type
    BY <1>2, LocksAreUtxos DEF ReadLock, Valid, BuiltInv, CellsInv, Reading
  <2>2. Gathered'
    <3>1. ASSUME NEW k \in 1..read'
          PROVE  \E c \in found' : UtxoOf[c] = request.locks[k] /\ TypeOf[c] = request.type
      <4>1. CASE k = read + 1
        BY <2>1, <4>1
      <4>2. CASE k # read + 1
        <5>1. k \in 1..read
          BY <2>1, <4>2
        <5> QED BY <2>1, <5>1 DEF BuiltInv, Gathered
      <4> QED BY <4>1, <4>2
    <3> QED BY <2>1, <3>1 DEF BuiltInv, Gathered
  <2> QED BY <2>1, <2>2 DEF BuiltInv, Completed, Ready, Started
<1>3. CASE BuildTransfer
  <2>1. Collection => TransferOutputs = AllOutputs /\ (NeedPaymaster(MinCapacity) <=> NeedFor)
    BY <1>3, OutputsAreAll DEF BuildTransfer, NeedFor
  <2> QED BY <1>3, <2>1, BuiltBuild DEF BuildTransfer, Affordable
<1>4. CASE BuildSplit
  <2>1. Collection => SplitOutputs = AllOutputs /\ (FALSE <=> NeedFor)
    BY <1>4, OutputsAreAll DEF BuildSplit, NeedFor
  <2> QED BY <1>4, <2>1, BuiltBuild DEF BuildSplit
<1>5. CASE BuildBatch
  <2>1. Collection => BatchOutputs = AllOutputs /\ (FALSE <=> NeedFor)
    BY <1>5, OutputsAreAll DEF BuildBatch, NeedFor
  <2> QED BY <1>5, <2>1, BuiltBuild DEF BuildBatch, Affordable
<1>6. CASE BuildJump
  <2>1. Collection => JumpOutputs = AllOutputs /\ (NeedPaymaster(MinTimeCapacity) <=> NeedFor)
    BY <1>6, OutputsAreAll DEF BuildJump, NeedFor
  <2> QED BY <1>6, <2>1, BuiltBuild DEF BuildJump, Affordable
<1>7. CASE LookUpInputs \/ PostToQueue
  BY <1>7, BuiltFrame DEF LookUpInputs, PostToQueue, Ready, Started
<1>8. CASE CompleteBtcTx
  <2>1. /\ UNCHANGED <<request, read, found, tx, paymaster>>
        /\ step = "complete" /\ step' = "broadcast"
        /\ \E change \in {<<>>, <<ToFrom("change")>>} :
               btcOutputs' = Commitment \o CellOutputs \o PaymasterOutput \o change
    BY <1>8 DEF CompleteBtcTx
  <2>2. Enough /\ Made
    BY <2>1 DEF BuiltInv, Ready, Started
  <2>3. Made' /\ Enough'
    BY <2>1, <2>2, MadeStays, ViewStays DEF Enough
  <2>4. Completed'
    BY <2>1, CompletedStays DEF Completed
  <2>5. Gathered'
    BY <2>1 DEF BuiltInv, Gathered
  <2> QED BY <2>1, <2>3, <2>4, <2>5 DEF BuiltInv
<1>9. CASE Broadcast
  <2>1. Ready' => Ready
    BY <1>9 DEF Broadcast, Ready, Started
  <2> QED BY <1>9, <2>1, BuiltFrame DEF Broadcast
<1>10. CASE SendCkbTx
  <2>1. Ready' => Ready
    BY <1>10 DEF SendCkbTx, Ready, Started
  <2> QED BY <1>10, <2>1, BuiltFrame DEF SendCkbTx
<1>11. ASSUME NEW u \in Utxo, RivalSpends(u) \/ RivalMovesCells(u) PROVE BuiltInv'
  <2>1. Ready' => Ready
    BY <1>11 DEF RivalSpends, RivalMovesCells, Ready, Started
  <2> QED BY <1>11, <2>1, BuiltFrame DEF RivalSpends, RivalMovesCells
<1>12. ASSUME NEW c \in Late, LeapToBtc(c) PROVE BuiltInv'
  <2>1. Ready' => Ready
    BY <1>12 DEF LeapToBtc, Ready, Started
  <2> QED BY <1>12, <2>1, BuiltFrame DEF LeapToBtc
<1>13. CASE UNCHANGED vars
  <2>1. Ready' => Ready
    BY <1>13 DEF vars, Ready, Started
  <2> QED BY <1>13, <2>1, BuiltFrame DEF vars
<1> QED BY <1>1, <1>2, <1>3, <1>4, <1>5, <1>6, <1>7, <1>8, <1>9, <1>10, <1>11, <1>12, <1>13 DEF Next

-----------------------------------------------------------------------------
(* The theorems.                                                           *)

LEMMA CellsInvariant == Spec => []CellsInv
BY CellsInit, CellsNext, PTL DEF Spec

\* No transaction spends a UTXO and leaves behind a cell that was bound to it when its
\* lock was read (NoCellStranded): collectUdtInputs and the loop over the other types
\* take them all.
THEOREM NothingStranded == Spec => []NoCellStranded
<1>1. CellsInv => NoCellStranded
  <2> SUFFICES ASSUME CellsInv,
                      step \in {"accepted", "queued", "unposted", "committed"},
                      NEW c \in live \ Forgotten, UtxoOf[c] \in BtcInputs
               PROVE  c \in ToSet(tx.inputs)
    BY DEF NoCellStranded
  <2>1. ToSet(tx.inputs) = found
    BY DEF CellsInv, Started
  <2>2. PICK d \in found : UtxoOf[d] = UtxoOf[c]
    BY <2>1 DEF BtcInputs
  <2> QED BY <2>1, <2>2 DEF CellsInv, Reading
<1> QED BY <1>1, CellsInvariant, PTL

\* After Bitcoin accepted a transaction, its CKB transaction stays valid until it is
\* sent (InputsStayLive), whatever other wallets do.
THEOREM AcceptedStaysValid == Spec => []InputsStayLive
<1>1. CellsInv => InputsStayLive
  BY DEF CellsInv, Chains, Started, InputsStayLive
<1> QED BY <1>1, CellsInvariant, PTL

LEMMA BuiltInvariant == Spec => []BuiltInv
BY CellsInvariant, BuiltInit, BuiltNext, PTL DEF Spec

\* Once there is a virtual transaction, it was built from everything that was found.
LEMMA ReadyFacts ==
    ASSUME CellsInv, BuiltInv, Ready
    PROVE  Collection /\ Made /\ ToSet(tx.inputs) = Target \cup Others
<1>1. Collection /\ Made
  BY EnoughCollected DEF BuiltInv
<1>2. ToSet(tx.inputs) = found
  BY <1>1, VirtualInputs, MadeOutputs
<1>3. found = Target \cup Others
  BY DEF Target, Others, Collected
<1> QED BY <1>1, <1>2, <1>3

\* Per type the outputs hold what the inputs held, for a transfer, a split, a batch
\* transfer and a leap to CKB (AmountsConserved): the amounts of the receivers, the
\* change and the cells of other types that the builders put behind them.
THEOREM NoAmountLost == Spec => []AmountsConserved
<1>1. CellsInv /\ BuiltInv => AmountsConserved
  <2> SUFFICES ASSUME CellsInv, BuiltInv, Started PROVE AmountsConserved
    BY DEF AmountsConserved
  <2> QED BY ReadyFacts, MadeConserves DEF Ready
<1> QED BY <1>1, CellsInvariant, BuiltInvariant, PTL

\* A CKB transaction that Bitcoin has committed to can pay for its cells and its fee, by
\* itself or with the paymaster's cell, and the paymaster was paid exactly when it is
\* needed (CapacityPaid).
THEOREM CapacityIsPaid == Spec => []CapacityPaid
<1>1. CellsInv /\ BuiltInv => CapacityPaid
  <2> SUFFICES ASSUME CellsInv, BuiltInv, Started PROVE CapacityPaid
    BY DEF CapacityPaid
  <2>1. Collection /\ Made /\ ToSet(tx.inputs) = Target \cup Others /\ Completed
    BY ReadyFacts DEF Ready, BuiltInv
  <2>2. ASSUME btcOutputs # <<>> PROVE PaymasterPaid
    <3>1. tx.outputs \in Seq(Output)
      BY <2>1, MadeOutputs DEF SameAssets
    <3>2. (\E v \in DOMAIN btcOutputs : btcOutputs[v].what = "paymaster") <=> PaymasterOutput # <<>>
      BY <2>1, <2>2, <3>1, BtcShape
    <3>3. PaymasterOutput # <<>> <=> request.kind # "batch" /\ ~InputsSufficient
      BY DEF PaymasterOutput
    <3>4. paymaster <=> request.kind # "batch" /\ ~InputsSufficient
      BY <2>1, MadePays
    <3> QED BY <3>2, <3>3, <3>4 DEF PaymasterPaid
  <2> QED BY <2>1, <2>2, MadePays DEF CapacityPaid
<1> QED BY <1>1, CellsInvariant, BuiltInvariant, PTL

\* A new RGB++ cell names the Bitcoin output that was made for it, and only what is
\* transferred leaves the sender, except for a leap to CKB that carries cells of other
\* types (BindingCorrectUnlessMixedJump).
THEOREM CellsAreBound == Spec => []BindingCorrectUnlessMixedJump
<1>1. CellsInv /\ BuiltInv => BindingCorrectUnlessMixedJump
  <2> SUFFICES ASSUME CellsInv, BuiltInv, btcOutputs # <<>>,
                      ~(request.kind = "jump" /\ Others # {})
               PROVE  BindingCorrect
    BY DEF BindingCorrectUnlessMixedJump, BindingCorrect
  <2>1. Collection /\ Made /\ Completed
    BY ReadyFacts DEF Ready, BuiltInv
  <2> QED BY <2>1, MadeBinds
<1> QED BY <1>1, CellsInvariant, BuiltInvariant, PTL
=============================================================================
