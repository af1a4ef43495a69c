----------------------------- MODULE SporeProofs ----------------------------
(***************************************************************************)
(* Theorems about clusters and spores, for any owners, sizes and fees and  *)
(* any number of transactions under way: no cell gets too small to move,   *)
(* witnesses and commitment stay in place through completion, and every    *)
(* asset is in one cell of the receiver who was named.                     *)
(***************************************************************************)
EXTENDS Spore

Locks == [kind : {"rgbpp"}, tx : Nat, vout : Nat] \cup [kind : {"time"}, tx : Nat, to : Owner]
         \cup [kind : {"ckb"}, to : Owner]
AssetIds == [kind : {"cluster", "spore"}, id : (Nat \X Nat) \X Nat]
Output == [asset : AssetIds, lock : Locks, data : Nat, capacity : Nat]
Cell == [out : Nat \X Nat, asset : AssetIds \cup {Plain}, lock : Locks, data : Nat,
         capacity : Nat]
Utxos == [tx : Nat, vout : Nat, owner : Owner]

\* What calls build.
Flight == [number : Nat, utxo : Utxos, inputs : Seq(Cell), outputs : Seq(Output), tos : Seq(Owner),
           payer : {"none", "paymaster", "issuer"}, committed : Seq(Output),
           witnesses : {<<Unlock, CoBuild(outputs)>> : outputs \in Seq(Output)},
           accepted : BOOLEAN]

Spent(tx) == tx.inputs[1]

\* The assets that a transaction moves or makes: the cell's own, a cluster from a plain
\* cell, and spores behind a cluster.
AssetsOfCell(tx) ==
    LET c == Spent(tx)
    IN  /\ IF c.asset = Plain
           THEN tx.outputs[1].asset = Id("cluster", c, 0) /\ Len(tx.outputs) = 1
           ELSE tx.outputs[1].asset = c.asset /\ c.asset.id[1] # c.out
        /\ \A i \in DOMAIN tx.outputs : i > 1 => tx.outputs[i].asset = Id("spore", c, i - 1)

\* Either every output is bound to the Bitcoin output behind the commitment, or there is
\* a spore's time cell.
LocksInPlace(tx) ==
    \/ \A i \in DOMAIN tx.outputs : tx.outputs[i].lock = Rgbpp(Placeholder, i)
    \/ /\ Len(tx.outputs) = 1
       /\ tx.outputs[1].lock = BtcTime(Placeholder, tx.tos[1])
       /\ tx.outputs[1].asset.kind = "spore"

Formed(tx) ==
    /\ tx \in Flight
    /\ Len(tx.inputs) = 1 /\ Spent(tx).lock = Rgbpp(tx.utxo.tx, tx.utxo.vout)
    /\ Len(tx.outputs) > 0 /\ Len(tx.tos) = Len(tx.outputs)
    /\ tx.committed = tx.outputs /\ tx.witnesses = <<Unlock, CoBuild(tx.outputs)>>
    /\ CapacitySufficient(tx.outputs)
    /\ AssetsOfCell(tx) /\ LocksInPlace(tx)
    /\ tx.payer = "none" => Sum(tx.inputs) - Sum(tx.outputs) \in Fees
    /\ tx.payer = "paymaster" => PaymasterCovers(tx)

Flying(n) == \E tx \in flying : tx.number = n
Settled(n) == n \in Nat /\ n < number /\ ~Flying(n)

\* What a cluster or a spore takes.
Bytes(kind, data) == LockSize[kind] + CapacitySize + data + TypeSize

\* What is on CKB comes from transactions that have settled.
CellsInv ==
    /\ cells \subseteq Cell /\ IsFiniteSet(cells)
    /\ \A c \in cells :
        /\ Settled(c.out[1])
        /\ c.lock.kind = "rgbpp" => Settled(c.lock.tx)
        /\ c.asset # Plain => Settled(c.asset.id[1][1])
        /\ c.lock.kind # "rgbpp" => c.asset.kind = "spore"
        /\ c.lock.kind = "time" => c.out[2] = 1
        /\ c.capacity >= Occupied(c)
        /\ c.lock.kind = "ckb" => c.capacity >= Unit * Bytes("time", c.data)
    /\ \A c, d \in cells :
        /\ c.out = d.out => c = d
        /\ c.asset = d.asset /\ c.asset # Plain => c = d
        /\ c.lock = d.lock /\ c.lock.kind = "rgbpp" => c = d
        /\ c.asset # Plain => c.asset.id[1] # d.out

\* Bitcoin's side: a UTXO is spent once, and the outputs of a transaction that Bitcoin
\* accepted wait for its cells.
UtxosInv ==
    /\ utxos \subseteq Utxos /\ number \in Nat
    /\ \A u, v \in utxos : u.tx = v.tx /\ u.vout = v.vout => u = v
    /\ \A u \in utxos : u.tx < number
    /\ \A tx \in flying :
        /\ Formed(tx) /\ tx.number < number /\ Settled(tx.utxo.tx)
        /\ \A t \in flying : t.number = tx.number => t = tx
        /\ IF tx.accepted
           THEN /\ NewUtxos(tx) \subseteq utxos
                /\ \A u \in utxos : ~(u.tx = tx.utxo.tx /\ u.vout = tx.utxo.vout)
           ELSE /\ \A u \in utxos : u.tx # tx.number
                /\ tx.utxo \in utxos => Spent(tx) \in cells

\* Every asset that somebody was to get has a cell, and every cell is its owner's.
OwnersInv ==
    /\ wanted \subseteq AssetIds \X Owner
    /\ \A w \in wanted : \E c \in cells : c.asset = w[1]
    /\ \A c \in cells : c.lock.kind = "rgbpp" =>
        \/ \E tx \in flying : tx.accepted /\ tx.inputs = <<c>>
        \/ \E u \in Bound(c) : c.asset = Plain \/ <<c.asset, u.owner>> \in wanted
    /\ \A c \in cells : c.lock.kind \in {"time", "ckb"} => <<c.asset, c.lock.to>> \in wanted

IInv == CellsInv /\ UtxosInv /\ OwnersInv
-----------------------------------------------------------------------------
(* Sizes.                                                                  *)

LEMMA Sizes ==
    /\ LockSize["rgbpp"] \in Nat /\ LockSize["time"] \in Nat /\ LockSize["ckb"] \in Nat
    /\ LockSize["ckb"] <= LockSize["rgbpp"] /\ LockSize["rgbpp"] + 1 <= LockSize["time"]
    /\ LockSize["time"] <= LockSize["rgbpp"] + BtcTimeCellIncreasedSize
    /\ TypeSize \in Nat /\ CapacitySize \in Nat /\ BtcTimeCellIncreasedSize \in Nat
    /\ ClusterData \in Nat /\ Unit \in Nat /\ MinCapacity \in Nat /\ PaymasterCapacity \in Nat
    /\ \A fee \in Fees : fee \in Nat /\ fee >= 1 /\ fee <= Unit
<1>1. /\ TypeSize \in Nat /\ CapacitySize \in Nat /\ BtcTimeCellIncreasedSize \in Nat
      /\ ClusterData \in Nat /\ Unit \in Nat
  BY SizeAssumption
<1>2. MinCapacity \in Nat /\ PaymasterCapacity \in Nat
  BY SizeAssumption
<1>3. LockSize["rgbpp"] \in Nat /\ LockSize["time"] \in Nat /\ LockSize["ckb"] \in Nat
  BY SizeAssumption
<1>4. \A fee \in Fees : fee \in Nat /\ fee >= 1 /\ fee <= Unit
  BY <1>1, SizeAssumption
<1>5. /\ LockSize["ckb"] <= LockSize["rgbpp"] /\ LockSize["rgbpp"] + 1 <= LockSize["time"]
      /\ LockSize["time"] <= LockSize["rgbpp"] + BtcTimeCellIncreasedSize
  <2>1. /\ LockSize["ckb"] <= LockSize["rgbpp"] /\ LockSize["rgbpp"] < LockSize["time"]
        /\ LockSize["time"] <= LockSize["rgbpp"] + BtcTimeCellIncreasedSize
    BY SizeAssumption, Zenon
  <2> QED BY <1>3, <2>1
<1> QED BY <1>1, <1>2, <1>3, <1>4, <1>5

LEMMA Times ==
    ASSUME NEW a \in Nat, NEW b \in Nat
    PROVE  /\ Unit * a \in Nat
           /\ Unit * (a + b) = Unit * a + Unit * b
           /\ Unit * (a + 1) = Unit * a + Unit
           /\ a <= b => Unit * a <= Unit * b
BY Sizes

LEMMA OccupiedBytes ==
    ASSUME NEW o, NEW kind \in {"rgbpp", "time", "ckb"}, o.lock.kind = kind, o.data \in Nat
    PROVE  /\ Bytes(kind, o.data) \in Nat /\ Occupied(o) \in Nat
           /\ o.asset # Plain => Occupied(o) = Unit * Bytes(kind, o.data)
           /\ Occupied(o) <= Unit * Bytes(kind, o.data)
<1> DEFINE rest == LockSize[kind] + CapacitySize + o.data
<1>1. rest \in Nat /\ TypeSize \in Nat
  BY Sizes
<1>2. Bytes(kind, o.data) = rest + TypeSize
  BY Sizes DEF Bytes
<1>3. Occupied(o) = Unit * (rest + IF o.asset = Plain THEN 0 ELSE TypeSize)
  BY DEF Occupied
<1> HIDE DEF rest
<1>4. Unit * rest \in Nat /\ Unit * (rest + TypeSize) = Unit * rest + Unit * TypeSize
      /\ Unit * TypeSize \in Nat
  BY <1>1, Times
<1>5. CASE o.asset = Plain
  <2>1. Occupied(o) = Unit * rest
    BY <1>1, <1>3, <1>5
  <2> QED BY <1>1, <1>2, <1>4, <1>5, <2>1
<1>6. CASE o.asset # Plain
  <2>1. Occupied(o) = Unit * (rest + TypeSize)
    BY <1>3, <1>6
  <2> QED BY <1>1, <1>2, <1>4, <2>1
<1> QED BY <1>5, <1>6

\* What the locks differ by, in capacity.
LEMMA BytesOfLocks ==
    ASSUME NEW data \in Nat
    PROVE  /\ Unit * Bytes("ckb", data) <= Unit * Bytes("rgbpp", data)
           /\ Unit * Bytes("rgbpp", data) + Unit <= Unit * Bytes("time", data)
           /\ Unit * Bytes("time", data) <= calculateRgbppSporeCellCapacity(data)
           /\ calculateRgbppSporeCellCapacity(data)
                  = Unit * Bytes("rgbpp", data) + Unit * (BtcTimeCellIncreasedSize + 1)
           /\ calculateRgbppSporeCellCapacity(data) \in Nat
           /\ Unit * (BtcTimeCellIncreasedSize + 1) \in Nat
           /\ \A kind \in {"rgbpp", "time", "ckb"} : Unit * Bytes(kind, data) \in Nat
<1> DEFINE r == Bytes("rgbpp", data)
           t == Bytes("time", data)
           c == Bytes("ckb", data)
           inc == BtcTimeCellIncreasedSize + 1
<1>1. r \in Nat /\ t \in Nat /\ c \in Nat /\ inc \in Nat /\ c <= r /\ r + 1 <= t /\ t <= r + inc
  BY Sizes DEF Bytes
<1>2. calculateRgbppSporeCellCapacity(data) = Unit * (r + inc)
  <2>1. r + inc = LockSize["rgbpp"] + TypeSize + CapacitySize + data + BtcTimeCellIncreasedSize + 1
    BY Sizes DEF Bytes
  <2> QED BY <2>1 DEF calculateRgbppSporeCellCapacity
<1>3. \A kind \in {"rgbpp", "time", "ckb"} : Bytes(kind, data) \in Nat
  BY <1>1
<1>4. \A kind \in {"rgbpp", "time", "ckb"} : Unit * Bytes(kind, data) \in Nat
  BY <1>3, Times
<1> HIDE DEF r, t, c, inc
<1>5. /\ Unit * c <= Unit * r /\ Unit * (r + 1) <= Unit * t /\ Unit * t <= Unit * (r + inc)
      /\ Unit * (r + 1) = Unit * r + Unit /\ Unit * (r + inc) = Unit * r + Unit * inc
      /\ Unit * r \in Nat /\ Unit * inc \in Nat
  <2>1. r + 1 \in Nat /\ r + inc \in Nat
    BY <1>1
  <2> QED BY <1>1, <2>1, Times
<1>6. Unit * (r + inc) \in Nat
  BY <1>5
<1> QED BY <1>2, <1>4, <1>5, <1>6 DEF r, t, c, inc

-----------------------------------------------------------------------------
(* Totals of short lists.                                                  *)

LEMMA SumNothing == Sum(<<>>) = 0
BY SumNone DEF Sum

LEMMA SumOfOne ==
    ASSUME NEW o, o.capacity \in Int PROVE Sum(<<o>>) = o.capacity
<1> DEFINE f == [i \in DOMAIN <<o>> |-> <<o>>[i].capacity]
<1>1. f[1] = o.capacity /\ Len(<<o>>) = 1 /\ 1 \in 1..1
  OBVIOUS
<1>2. SumTo(f, 1) = f[1]
  <2> HIDE DEF f
  <2>1. \A k \in 1..1 : k # 1 => f[k] = 0
    OBVIOUS
  <2> QED BY <1>1, <2>1, SumSingle
<1> QED BY <1>1, <1>2 DEF Sum

Priced(s) == \A i \in DOMAIN s : s[i].capacity \in Int

LEMMA SumJoined ==
    ASSUME NEW S, NEW T, NEW s \in Seq(S), NEW t \in Seq(T), Priced(s), Priced(t)
    PROVE  /\ Sum(s) \in Int /\ Sum(t) \in Int /\ Sum(s \o t) = Sum(s) + Sum(t)
           /\ Priced(s \o t)
<1> DEFINE f == [i \in DOMAIN (s \o t) |-> (s \o t)[i].capacity]
           g == [i \in DOMAIN s |-> s[i].capacity]
           h == [i \in DOMAIN t |-> t[i].capacity]
<1>1. s \o t \in Seq(S \cup T) /\ Len(s \o t) = Len(s) + Len(t) /\ Len(s) \in Nat /\ Len(t) \in Nat
  OBVIOUS
<1>2. ASSUME NEW k \in 1..Len(s) PROVE g[k] \in Int /\ f[k] = g[k]
  BY <1>1 DEF Priced
<1>3. ASSUME NEW k \in 1..Len(t) PROVE h[k] \in Int /\ f[Len(s) + k] = h[k]
  BY <1>1 DEF Priced
<1>4. \A i \in DOMAIN (s \o t) : (s \o t)[i].capacity \in Int
  BY <1>1 DEF Priced
<1> HIDE DEF f, g, h
<1>5. SumTo(f, Len(s) + Len(t)) = SumTo(g, Len(s)) + SumTo(h, Len(t))
  <2> DEFINE n == Len(s)
             m == Len(t)
  <2>1. n \in Nat /\ m \in Nat
    BY <1>1
  <2>2. \A k \in 1..n : g[k] \in Int /\ f[k] = g[k]
    BY <1>2
  <2>3. \A k \in 1..m : h[k] \in Int /\ f[n + k] = h[k]
    BY <1>3
  <2> HIDE DEF n, m
  <2>4. SumTo(f, n + m) = SumTo(g, n) + SumTo(h, m)
    BY <2>1, <2>2, <2>3, SumAppend
  <2> QED BY <2>4 DEF n, m
<1>6. SumTo(g, Len(s)) \in Int /\ SumTo(h, Len(t)) \in Int
  BY <1>1, <1>2, <1>3, SumInt
<1> QED BY <1>1, <1>4, <1>5, <1>6 DEF Sum, f, g, h, Priced

LEMMA SumUnchanged ==
    ASSUME NEW S, NEW T, NEW s \in Seq(S), NEW t \in Seq(T), Priced(s), Len(s) = Len(t),
           \A i \in DOMAIN s : t[i].capacity = s[i].capacity
    PROVE  Sum(t) = Sum(s) /\ Priced(t)
<1> DEFINE f == [i \in DOMAIN s |-> s[i].capacity]
           g == [i \in DOMAIN t |-> t[i].capacity]
<1>1. \A k \in 1..Len(s) : f[k] \in Int /\ g[k] = f[k]
  BY DEF Priced
<1> HIDE DEF f, g
<1>2. SumTo(f, Len(s)) = SumTo(g, Len(s))
  <2> DEFINE n == Len(s)
  <2>1. n \in Nat
    OBVIOUS
  <2>2. \A k \in 1..n : f[k] \in Int /\ g[k] = f[k]
    BY <1>1
  <2> HIDE DEF n
  <2>3. SumTo(f, n) = SumTo(g, n)
    BY <2>1, <2>2, SumSame
  <2> QED BY <2>3 DEF n
<1> QED BY <1>2 DEF Sum, f, g, Priced

-----------------------------------------------------------------------------
(* Lists of outputs.                                                       *)

LEMMA IntervalInOrder ==
    ASSUME NEW a \in Nat, NEW n \in Nat
    PROVE  /\ Len(InOrder((a + 1)..(a + n))) = n
           /\ InOrder((a + 1)..(a + n)) = [k \in 1..n |-> a + k]
<1> DEFINE S == (a + 1)..(a + n)
<1>1. S \in SUBSET Nat /\ IsFiniteSet(S) /\ Cardinality(S) = n
  <2>1. IsFiniteSet(S) /\ Cardinality(S) = IF a + 1 > a + n THEN 0 ELSE a + n - (a + 1) + 1
    BY FS_Interval
  <2> QED BY <2>1
<1>2. ASSUME NEW k \in 1..n PROVE a + k \in S /\ Rank(a + k, S) = k
  <2>1. {d \in S : d < a + k} = (a + 1)..(a + k - 1)
    OBVIOUS
  <2>2. Cardinality((a + 1)..(a + k - 1)) = k - 1
    <3>1. Cardinality((a + 1)..(a + k - 1))
              = IF a + 1 > a + k - 1 THEN 0 ELSE a + k - 1 - (a + 1) + 1
      BY FS_Interval
    <3> QED BY <3>1
  <2>3. a + k \in S
    OBVIOUS
  <2> HIDE DEF S
  <2>4. Cardinality({d \in S : d < a + k}) = k - 1
    BY <2>1, <2>2 DEF S
  <2> QED BY <2>3, <2>4 DEF Rank
<1> HIDE DEF S
<1>3. InOrder(S) \in Seq(S) /\ Len(InOrder(S)) = n /\ \A c \in S : InOrder(S)[Rank(c, S)] = c
  BY <1>1, InOrderPlaces
<1>4. \A k \in 1..n : InOrder(S)[k] = a + k
  BY <1>2, <1>3
<1>5. InOrder(S) = [k \in 1..n |-> InOrder(S)[k]]
  BY <1>3
<1> QED BY <1>3, <1>4, <1>5 DEF S

\* What moves an asset in s are the n cells after the first a.
MovesAfter(s, a, n) ==
    /\ (a + 1)..(a + n) \subseteq DOMAIN s
    /\ \A i \in DOMAIN s : s[i].asset # Plain <=> i \in (a + 1)..(a + n)

LEMMA MovedBetween ==
    ASSUME NEW a \in Nat, NEW n \in Nat, NEW s, MovesAfter(s, a, n)
    PROVE  MovedAssets(s) = [k \in 1..n |-> s[a + k]]
<1>1. {i \in DOMAIN s : s[i].asset # Plain} = (a + 1)..(a + n)
  BY DEF MovesAfter
<1> DEFINE at == InOrder({i \in DOMAIN s : s[i].asset # Plain})
<1>2. at = [k \in 1..n |-> a + k]
  BY <1>1, IntervalInOrder
<1>3. MovedAssets(s) = [k \in DOMAIN at |-> s[at[k]]]
  BY DEF MovedAssets
<1> HIDE DEF at
<1> QED BY <1>2, <1>3

\* The outputs with the lock args of the transaction that Bitcoin holds.
LEMMA RealOutputs ==
    ASSUME NEW tx, Formed(tx)
    PROVE  /\ WithRealBtcTxId(tx) \in Seq(Output)
           /\ Len(WithRealBtcTxId(tx)) = Len(tx.outputs)
           /\ \A i \in DOMAIN tx.outputs :
               LET o == WithRealBtcTxId(tx)[i] IN
               /\ o.asset = tx.outputs[i].asset /\ o.data = tx.outputs[i].data
               /\ o.capacity = tx.outputs[i].capacity
               /\ o.lock = IF tx.outputs[i].lock.kind = "rgbpp" THEN Rgbpp(tx.number, i)
                           ELSE BtcTime(tx.number, tx.tos[i])
               /\ o.lock.kind = tx.outputs[i].lock.kind
               /\ o.lock.kind = "rgbpp" \/ (o.lock.kind = "time" /\ i = 1 /\ o.asset.kind = "spore")
               /\ Occupied(o) = Occupied(tx.outputs[i])
<1> DEFINE real == WithRealBtcTxId(tx)
<1>1. tx.outputs \in Seq(Output) /\ tx.tos \in Seq(Owner) /\ tx.number \in Nat
      /\ Len(tx.tos) = Len(tx.outputs)
  BY DEF Formed, Flight
<1>2. Len(tx.outputs) \in Nat /\ DOMAIN tx.outputs = 1..Len(tx.outputs)
  BY <1>1
<1>3. real = [i \in DOMAIN tx.outputs |->
                IF tx.outputs[i].lock.kind \in {"rgbpp", "time"}
                THEN [tx.outputs[i] EXCEPT !.lock.tx = tx.number] ELSE tx.outputs[i]]
  BY DEF WithRealBtcTxId
<1> HIDE DEF real
<1>4. ASSUME NEW i \in DOMAIN tx.outputs
      PROVE  /\ real[i] \in Output
             /\ real[i].asset = tx.outputs[i].asset /\ real[i].data = tx.outputs[i].data
             /\ real[i].capacity = tx.outputs[i].capacity
             /\ real[i].lock = IF tx.outputs[i].lock.kind = "rgbpp" THEN Rgbpp(tx.number, i)
                               ELSE BtcTime(tx.number, tx.tos[i])
             /\ real[i].lock.kind = tx.outputs[i].lock.kind
             /\ \/ real[i].lock.kind = "rgbpp"
                \/ real[i].lock.kind = "time" /\ i = 1 /\ real[i].asset.kind = "spore"
  <2> DEFINE o == tx.outputs[i]
  <2>1. o \in Output /\ o.lock \in Locks /\ i \in Nat /\ tx.tos[i] \in Owner
    <3>1. o \in Output /\ i \in Nat /\ tx.tos[i] \in Owner
      BY <1>1, <1>2
    <3> QED BY <3>1 DEF Output
  <2>2. \/ o.lock = Rgbpp(Placeholder, i)
        \/ o.lock = BtcTime(Placeholder, tx.tos[i]) /\ i = 1 /\ o.asset.kind = "spore"
    BY <1>2 DEF Formed, LocksInPlace
  <2>3. real[i] = IF o.lock.kind \in {"rgbpp", "time"}
                  THEN [o EXCEPT !.lock.tx = tx.number] ELSE o
    BY <1>3
  <2> HIDE DEF o
  <2>4. CASE o.lock = Rgbpp(Placeholder, i)
    <3>1. o.lock.kind = "rgbpp" /\ real[i] = [o EXCEPT !.lock.tx = tx.number]
      BY <2>3, <2>4 DEF Rgbpp
    <3>2. [o.lock EXCEPT !.tx = tx.number] = Rgbpp(tx.number, i)
      BY <2>4 DEF Rgbpp
    <3>3. real[i] = [o EXCEPT !.lock = Rgbpp(tx.number, i)]
      BY <3>1, <3>2
    <3>4. Rgbpp(tx.number, i) \in Locks /\ Rgbpp(tx.number, i).kind = "rgbpp"
      BY <1>1, <2>1 DEF Rgbpp, Locks
    <3>5. /\ real[i] \in Output /\ real[i].asset = o.asset /\ real[i].data = o.data
          /\ real[i].capacity = o.capacity /\ real[i].lock = Rgbpp(tx.number, i)
      BY <2>1, <3>3, <3>4 DEF Output
    <3> QED BY <3>1, <3>4, <3>5 DEF o
  <2>5. CASE o.lock = BtcTime(Placeholder, tx.tos[i]) /\ i = 1 /\ o.asset.kind = "spore"
    <3>1. o.lock.kind = "time" /\ real[i] = [o EXCEPT !.lock.tx = tx.number]
      BY <2>3, <2>5 DEF BtcTime
    <3>2. [o.lock EXCEPT !.tx = tx.number] = BtcTime(tx.number, tx.tos[i])
      BY <2>5 DEF BtcTime
    <3>3. real[i] = [o EXCEPT !.lock = BtcTime(tx.number, tx.tos[i])]
      BY <3>1, <3>2
    <3>4. BtcTime(tx.number, tx.tos[i]) \in Locks /\ BtcTime(tx.number, tx.tos[i]).kind = "time"
      BY <1>1, <2>1 DEF BtcTime, Locks
    <3>5. /\ real[i] \in Output /\ real[i].asset = o.asset /\ real[i].data = o.data
          /\ real[i].capacity = o.capacity /\ real[i].lock = BtcTime(tx.number, tx.tos[i])
      BY <2>1, <3>3, <3>4 DEF Output
    <3> QED BY <2>5, <3>1, <3>4, <3>5 DEF o
  <2> QED BY <2>2, <2>4, <2>5
<1>5. real \in Seq(Output) /\ Len(real) = Len(tx.outputs)
  <2> DEFINE n == Len(tx.outputs)
  <2>1. n \in Nat /\ \A i \in 1..n : real[i] \in Output
    BY <1>2, <1>4
  <2>2. real = [i \in 1..n |-> real[i]]
    BY <1>2, <1>3
  <2> HIDE DEF n
  <2>3. real \in [1..n -> Output]
    BY <2>1, <2>2
  <2>4. real \in Seq(Output) /\ Len(real) = n
    BY <2>1, <2>3
  <2> QED BY <2>4 DEF n
<1>6. ASSUME NEW i \in DOMAIN tx.outputs PROVE Occupied(real[i]) = Occupied(tx.outputs[i])
  BY <1>4 DEF Occupied
<1> QED BY <1>4, <1>5, <1>6 DEF real

-----------------------------------------------------------------------------
(* Completion.                                                             *)

\* Lists of two, three and four.
LEMMA ShortLists ==
    ASSUME NEW x, NEW y
    PROVE  /\ Front(<<x, y>>) = <<x>> /\ Last(<<x, y>>) = y /\ Tail(<<x, y>>) = <<y>>
           /\ <<x>> \o <<y>> = <<x, y>>
<1>1. Front(<<x, y>>) = <<x>>
  <2>1. Len(<<x, y>>) = 2 /\ <<x, y>>[1] = x
    OBVIOUS
  <2>2. Front(<<x, y>>) = [i \in 1..1 |-> <<x, y>>[i]]
    BY <2>1 DEF Front, SubSeq
  <2>3. <<x>> = [i \in 1..1 |-> x]
    OBVIOUS
  <2> QED BY <2>1, <2>2, <2>3
<1>2. Last(<<x, y>>) = y /\ Tail(<<x, y>>) = <<y>>
  BY DEF Last
<1> DEFINE T == {x, y}
<1>3. <<x>> \o <<y>> = <<x, y>>
  <2>1. PICK s : s = <<x>> \o <<y>>
    OBVIOUS
  <2>2. PICK t : t = <<x, y>>
    OBVIOUS
  <2>3. Len(s) = 2 /\ s[1] = x /\ s[2] = y /\ s \in Seq(T)
    BY <2>1
  <2>4. Len(t) = 2 /\ t[1] = x /\ t[2] = y /\ t \in Seq(T)
    BY <2>2
  <2>5. \A i \in 1..2 : i = 1 \/ i = 2
    OBVIOUS
  <2>6. s = t
    BY <2>3, <2>4, <2>5
  <2> QED BY <2>1, <2>2, <2>6
<1> QED BY <1>1, <1>2, <1>3

LEMMA Appended ==
    ASSUME NEW T, NEW s \in Seq(T), NEW x \in T
    PROVE  LET t == s \o <<x>> IN
           /\ t \in Seq(T) /\ Len(t) = Len(s) + 1 /\ t[Len(s) + 1] = x
           /\ \A k \in 1..Len(s) : t[k] = s[k]
OBVIOUS

LEMMA ListOfThree ==
    ASSUME NEW x, NEW y, NEW z PROVE <<x, y>> \o <<z>> = <<x, y, z>>
<1> DEFINE T == {x, y, z}
<1>1. PICK s : s = <<x, y>> \o <<z>>
  OBVIOUS
<1>2. PICK t : t = <<x, y, z>>
  OBVIOUS
<1>3. Len(s) = 3 /\ s[1] = x /\ s[2] = y /\ s[3] = z /\ s \in Seq(T)
  BY <1>1
<1>4. Len(t) = 3 /\ t[1] = x /\ t[2] = y /\ t[3] = z /\ t \in Seq(T)
  BY <1>2
<1>5. \A i \in 1..3 : i = 1 \/ i = 2 \/ i = 3
  OBVIOUS
<1>6. s = t
  BY <1>3, <1>4, <1>5
<1> QED BY <1>1, <1>2, <1>6

LEMMA ListOfFour ==
    ASSUME NEW x, NEW y, NEW z, NEW u PROVE <<x>> \o <<y, z, u>> = <<x, y, z, u>>
<1> DEFINE T == {x, y, z, u}
<1>1. PICK s : s = <<x>> \o <<y, z, u>>
  OBVIOUS
<1>2. PICK t : t = <<x, y, z, u>>
  OBVIOUS
<1>3. Len(s) = 4 /\ s[1] = x /\ s[2] = y /\ s[3] = z /\ s[4] = u /\ s \in Seq(T)
  BY <1>1
<1>4. Len(t) = 4 /\ t[1] = x /\ t[2] = y /\ t[3] = z /\ t[4] = u /\ t \in Seq(T)
  BY <1>2
<1>5. \A i \in 1..4 : i = 1 \/ i = 2 \/ i = 3 \/ i = 4
  OBVIOUS
<1>6. s = t
  BY <1>3, <1>4, <1>5
<1> QED BY <1>1, <1>2, <1>6

PayCell == [asset : {Plain}, lock : {Ckb(Creator)}, data : {0}, capacity : Int]

LEMMA PayingCells ==
    ASSUME NEW capacity \in Int
    PROVE  PayingCell(capacity) \in PayCell /\ PayingCell(capacity).capacity = capacity
BY DEF PayingCell, PayCell

LEMMA FormedFields ==
    ASSUME NEW tx, Formed(tx)
    PROVE  /\ tx.inputs \in Seq(Cell) /\ Len(tx.inputs) = 1 /\ tx.inputs = <<Spent(tx)>>
           /\ Spent(tx) \in Cell /\ Spent(tx).lock.kind = "rgbpp"
           /\ Spent(tx).capacity \in Nat
           /\ tx.outputs \in Seq(Output) /\ Len(tx.outputs) \in Nat /\ Len(tx.outputs) > 0
           /\ DOMAIN tx.outputs = 1..Len(tx.outputs)
           /\ tx.tos \in Seq(Owner) /\ Len(tx.tos) = Len(tx.outputs)
           /\ \A i \in DOMAIN tx.outputs : tx.outputs[i] \in Output /\ tx.tos[i] \in Owner
           /\ tx.number \in Nat /\ tx.utxo \in Utxos /\ tx.accepted \in BOOLEAN
<1>1. /\ tx.inputs \in Seq(Cell) /\ Len(tx.inputs) = 1
      /\ tx.outputs \in Seq(Output) /\ Len(tx.outputs) > 0 /\ tx.number \in Nat /\ tx.utxo \in Utxos
      /\ tx.accepted \in BOOLEAN
      /\ tx.tos \in Seq(Owner) /\ Len(tx.tos) = Len(tx.outputs)
      /\ Spent(tx).lock = Rgbpp(tx.utxo.tx, tx.utxo.vout)
  BY DEF Formed, Flight
<1>2. tx.inputs = <<Spent(tx)>> /\ Spent(tx) \in Cell
  BY <1>1 DEF Spent
<1>3. Spent(tx).lock.kind = "rgbpp"
  BY <1>1 DEF Rgbpp
<1>4. Spent(tx).capacity \in Nat
  BY <1>2 DEF Cell
<1>5. Len(tx.outputs) \in Nat /\ DOMAIN tx.outputs = 1..Len(tx.outputs)
  BY <1>1
<1>6. \A i \in DOMAIN tx.outputs : tx.outputs[i] \in Output /\ tx.tos[i] \in Owner
  BY <1>1, <1>5
<1> QED BY <1>1, <1>2, <1>3, <1>4, <1>5, <1>6

LEMMA RealTotal ==
    ASSUME NEW tx, Formed(tx)
    PROVE  /\ Sum(WithRealBtcTxId(tx)) = Sum(tx.outputs) /\ Priced(WithRealBtcTxId(tx))
           /\ Priced(tx.outputs) /\ Sum(tx.outputs) \in Int
           /\ Sum(tx.inputs) = Spent(tx).capacity /\ Priced(tx.inputs)
<1>1. Priced(tx.outputs)
  BY FormedFields DEF Priced, Output
<1>2. Sum(WithRealBtcTxId(tx)) = Sum(tx.outputs) /\ Priced(WithRealBtcTxId(tx))
  BY <1>1, FormedFields, RealOutputs, SumUnchanged
<1>3. Sum(tx.inputs) = Spent(tx).capacity /\ Priced(tx.inputs)
  BY FormedFields, SumOfOne DEF Priced, Spent
<1>4. Sum(tx.outputs) \in Int
  <2>1. <<>> \in Seq(Output) /\ Priced(<<>>)
    BY DEF Priced
  <2> QED BY <1>1, <2>1, FormedFields, SumJoined
<1> QED BY <1>1, <1>2, <1>3, <1>4

LEMMA PaidOutputs ==
    ASSUME NEW real \in Seq(Output), NEW change \in Seq(PayCell)
    PROVE  LET outputs == real \o change IN
           /\ Len(outputs) = Len(real) + Len(change) /\ DOMAIN real \subseteq DOMAIN outputs
           /\ \A i \in DOMAIN real : outputs[i] = real[i] /\ outputs[i].asset # Plain
           /\ \A i \in DOMAIN outputs : i \notin DOMAIN real => outputs[i].asset = Plain
           /\ MovedAssets(outputs) = real /\ IsPrefix(real, outputs)
<1>1. PICK outputs : outputs = real \o change
  OBVIOUS
<1>2. PICK n \in Nat : n = Len(real)
  OBVIOUS
<1>3. PICK m \in Nat : m = Len(change)
  OBVIOUS
<1>4. /\ DOMAIN real = 1..n /\ DOMAIN change = 1..m
      /\ \A i \in 1..n : real[i] \in Output
      /\ \A i \in 1..m : change[i] \in PayCell
  BY <1>2, <1>3
<1>5. /\ Len(outputs) = n + m /\ DOMAIN outputs = 1..(n + m)
      /\ \A i \in 1..n : outputs[i] = real[i]
      /\ \A i \in 1..(n + m) : i > n => outputs[i] = change[i - n]
  BY <1>1, <1>2, <1>3
<1>6. \A i \in 1..n : outputs[i].asset # Plain
  <2>1. \A o \in Output : o.asset # Plain
    BY DEF Output, AssetIds, Plain
  <2> QED BY <1>4, <1>5, <2>1
<1>7. ASSUME NEW i \in 1..(n + m), i > n PROVE outputs[i].asset = Plain
  <2>1. i - n \in 1..m
    BY <1>7
  <2>2. outputs[i] \in PayCell
    BY <1>4, <1>5, <1>7, <2>1
  <2> QED BY <2>2 DEF PayCell
<1>8. \A i \in DOMAIN outputs : outputs[i].asset # Plain <=> i \in 1..n
  BY <1>5, <1>6, <1>7
<1>9. MovedAssets(outputs) = [k \in 1..n |-> outputs[k]]
  <2>1. PICK a \in Nat : a = 0
    OBVIOUS
  <2>2. (a + 1)..(a + n) = 1..n /\ \A k \in 1..n : a + k = k
    BY <2>1
  <2>3. (a + 1)..(a + n) \subseteq DOMAIN outputs
    BY <1>5, <2>2
  <2>4. MovesAfter(outputs, a, n)
    BY <1>8, <2>2, <2>3 DEF MovesAfter
  <2>5. MovedAssets(outputs) = [k \in 1..n |-> outputs[a + k]]
    BY <2>4, MovedBetween
  <2> QED BY <2>2, <2>5
<1>10. real = [k \in 1..n |-> real[k]]
  BY <1>4
<1>11. MovedAssets(outputs) = real
  BY <1>5, <1>9, <1>10
<1>12. IsPrefix(real, outputs)
  <2>1. SubSeq(real, 1, n) = [k \in 1..n |-> real[k]]
    BY <1>2, <1>4
  <2>2. SubSeq(outputs, 1, n) = [k \in 1..n |-> outputs[k]]
    BY <1>5
  <2>3. SubSeq(real, 1, n) = SubSeq(outputs, 1, n)
    BY <1>5, <2>1, <2>2
  <2> QED BY <1>2, <1>5, <2>3 DEF IsPrefix
<1> QED BY <1>1, <1>2, <1>3, <1>4, <1>5, <1>6, <1>7, <1>11, <1>12

LEMMA PaidInputs ==
    ASSUME NEW c \in Cell, NEW paying \in Seq(PayCell), NEW inputs, inputs = <<c>> \o paying
    PROVE  /\ Len(inputs) = 1 + Len(paying) /\ DOMAIN inputs = 1..(1 + Len(paying))
           /\ inputs[1] = c
           /\ \A i \in 2..(1 + Len(paying)) : inputs[i] \in PayCell
           /\ c \in ToSet(inputs) /\ \A x \in ToSet(inputs) : x = c \/ x \in PayCell
<1>1. PICK p \in Nat : p = Len(paying)
  OBVIOUS
<1>2. \A k \in 1..p : paying[k] \in PayCell
  BY <1>1
<1>3. /\ Len(inputs) = 1 + p /\ DOMAIN inputs = 1..(1 + p) /\ inputs[1] = c
      /\ \A i \in 2..(1 + p) : inputs[i] = paying[i - 1]
  BY <1>1
<1>4. ASSUME NEW i \in 2..(1 + p) PROVE inputs[i] \in PayCell
  <2>1. i - 1 \in 1..p
    OBVIOUS
  <2> QED BY <1>2, <1>3, <2>1
<1>5. \A i \in DOMAIN inputs : i = 1 \/ i \in 2..(1 + p)
  BY <1>3
<1>6. 1 \in DOMAIN inputs
  BY <1>3
<1> QED BY <1>1, <1>3, <1>4, <1>5, <1>6 DEF ToSet

\* The witnesses behind n cells of those who pay.
Placed(witnesses, n, last) ==
    /\ Len(witnesses) = n + 2
    /\ \A i \in 1..(n + 2) :
        witnesses[i] = IF i = 1 THEN Unlock ELSE IF i = n + 2 THEN last
                       ELSE IF i = 2 THEN Sign ELSE Empty

LEMMA PlacedLists ==
    ASSUME NEW last
    PROVE  /\ Placed(<<Unlock, last>>, 0, last) /\ Placed(<<Unlock, Sign, last>>, 1, last)
           /\ Placed(<<Unlock, Sign, Empty, last>>, 2, last)
<1>1. Placed(<<Unlock, last>>, 0, last)
  <2>1. 0 + 2 = 2 /\ \A i \in 1..2 : i = 1 \/ i = 2
    OBVIOUS
  <2>2. PICK w : w = <<Unlock, last>>
    OBVIOUS
  <2>3. Len(w) = 2 /\ w[1] = Unlock /\ w[2] = last
    BY <2>2
  <2> QED BY <2>1, <2>2, <2>3 DEF Placed
<1>2. Placed(<<Unlock, Sign, last>>, 1, last)
  <2>1. 1 + 2 = 3 /\ \A i \in 1..3 : i = 1 \/ i = 2 \/ i = 3
    OBVIOUS
  <2>2. PICK w : w = <<Unlock, Sign, last>>
    OBVIOUS
  <2>3. Len(w) = 3 /\ w[1] = Unlock /\ w[2] = Sign /\ w[3] = last
    BY <2>2
  <2> QED BY <2>1, <2>2, <2>3 DEF Placed
<1>3. Placed(<<Unlock, Sign, Empty, last>>, 2, last)
  <2>1. 2 + 2 = 4 /\ \A i \in 1..4 : i = 1 \/ i = 2 \/ i = 3 \/ i = 4
    OBVIOUS
  <2>2. PICK w : w = <<Unlock, Sign, Empty, last>>
    OBVIOUS
  <2>3. Len(w) = 4 /\ w[1] = Unlock /\ w[2] = Sign /\ w[3] = Empty /\ w[4] = last
    BY <2>2
  <2> QED BY <2>1, <2>2, <2>3 DEF Placed
<1> QED BY <1>1, <1>2, <1>3

LEMMA PaidWitnesses ==
    ASSUME NEW c \in Cell, c.lock.kind = "rgbpp", NEW paying \in Seq(PayCell),
           NEW real \in Seq(Output), NEW change \in Seq(PayCell), NEW done,
           done.inputs = <<c>> \o paying, done.outputs = real \o change,
           Placed(done.witnesses, Len(paying), CoBuild(real))
    PROVE  WellWitnessed(done)
<1>1. PICK p \in Nat : p = Len(paying)
  OBVIOUS
<1>2. PICK w : w = done.witnesses
  OBVIOUS
<1>3. PICK in : in = done.inputs
  OBVIOUS
<1>4. /\ Len(in) = 1 + p /\ DOMAIN in = 1..(1 + p) /\ in[1] = c
      /\ \A i \in 2..(1 + p) : in[i] \in PayCell
  BY <1>1, <1>3, PaidInputs
<1>5. \A i \in 2..(1 + p) : in[i].lock = Ckb(Creator)
  BY <1>4 DEF PayCell
<1>6. \A i \in 1..(p + 2) : w[i] = IF i = 1 THEN Unlock ELSE IF i = p + 2 THEN CoBuild(real)
                                   ELSE IF i = 2 THEN Sign ELSE Empty
  BY <1>1, <1>2 DEF Placed
<1>7. Ckb(Creator).kind = "ckb" /\ Unlock.kind = "unlock" /\ Sign.kind = "sign"
      /\ Empty.kind = "empty"
  BY DEF Ckb, Unlock, Sign, Empty
<1>8. MovedAssets(done.outputs) = real
  <2>1. MovedAssets(real \o change) = real
    BY PaidOutputs
  <2> QED BY <2>1
<1>9. Len(w) = p + 2 /\ w[p + 2] = CoBuild(real)
  <2>1. Len(w) = p + 2
    BY <1>1, <1>2 DEF Placed
  <2>2. p + 2 \in 1..(p + 2) /\ p + 2 # 1
    OBVIOUS
  <2> QED BY <1>6, <2>1, <2>2
<1>10. Last(done.witnesses) = CoBuild(MovedAssets(done.outputs))
  BY <1>2, <1>8, <1>9 DEF Last
<1>11. ASSUME NEW i \in DOMAIN in
       PROVE  w[i].kind = IF \E j \in 1..(i - 1) : in[j].lock = in[i].lock
                          THEN "empty" ELSE SignKind(in[i].lock)
  <2>1. i \in 1..(1 + p)
    BY <1>4
  <2>2. CASE i = 1
    <3>1. w[i].kind = "unlock" /\ in[i].lock.kind = "rgbpp"
      BY <1>4, <1>6, <1>7, <2>1, <2>2
    <3>2. ~\E j \in 1..(i - 1) : in[j].lock = in[i].lock
      BY <2>2
    <3> QED BY <3>1, <3>2 DEF SignKind
  <2>3. CASE i = 2
    <3>1. w[i].kind = "sign" /\ in[i].lock = Ckb(Creator)
      BY <1>5, <1>6, <1>7, <2>1, <2>3
    <3>2. \A j \in 1..(i - 1) : j = 1
      BY <2>3
    <3>3. in[1].lock # Ckb(Creator)
      BY <1>4, <1>7
    <3>4. ~\E j \in 1..(i - 1) : in[j].lock = in[i].lock
      BY <3>1, <3>2, <3>3
    <3> QED BY <1>7, <3>1, <3>4 DEF SignKind
  <2>4. CASE i > 2
    <3>1. i \in 2..(1 + p) /\ 2 \in 2..(1 + p) /\ 2 \in 1..(i - 1) /\ i # 1 /\ i # p + 2 /\ i # 2
      BY <2>1, <2>4
    <3>2. w[i].kind = "empty"
      BY <1>6, <1>7, <2>1, <3>1
    <3>3. in[i].lock = in[2].lock
      BY <1>5, <3>1
    <3> QED BY <3>1, <3>2, <3>3
  <2> QED BY <2>1, <2>2, <2>3, <2>4
<1>12. Len(done.witnesses) = Len(done.inputs) + 1
  BY <1>2, <1>3, <1>4, <1>9
<1> QED BY <1>2, <1>3, <1>10, <1>11, <1>12 DEF WellWitnessed

\* The outputs that Bitcoin committed to come first and the change is of no asset, the
\* inputs are the cell and those of who pays, and the witnesses are in their places.
Shaped(tx, done) ==
    /\ \A i \in DOMAIN tx.outputs : /\ i \in DOMAIN done.outputs
                                    /\ done.outputs[i] = WithRealBtcTxId(tx)[i]
                                    /\ done.outputs[i].asset # Plain
    /\ \A i \in DOMAIN done.outputs : i \notin DOMAIN tx.outputs => done.outputs[i].asset = Plain
    /\ Spent(tx) \in ToSet(done.inputs)
    /\ \A x \in ToSet(done.inputs) : x = Spent(tx) \/ x \in PayCell
    /\ WellWitnessed(done)
    /\ IsPrefix(WithRealBtcTxId([tx EXCEPT !.outputs = tx.committed]), done.outputs)

\* A transaction with the cells of who pays behind the input, and the change behind the
\* outputs.
PaidWith(tx, paying, change, done) ==
    /\ paying \in Seq(PayCell) /\ change \in Seq(PayCell)
    /\ done.inputs = tx.inputs \o paying /\ done.outputs = WithRealBtcTxId(tx) \o change
    /\ Placed(done.witnesses, Len(paying), CoBuild(WithRealBtcTxId(tx)))

LEMMA PaidShape ==
    ASSUME NEW tx, Formed(tx), NEW paying, NEW change, NEW done, PaidWith(tx, paying, change, done)
    PROVE  /\ Shaped(tx, done)
           /\ Sum(done.inputs) = Sum(tx.inputs) + Sum(paying)
           /\ Sum(done.outputs) = Sum(tx.outputs) + Sum(change)
<1>1. /\ paying \in Seq(PayCell) /\ change \in Seq(PayCell)
      /\ done.inputs = tx.inputs \o paying /\ done.outputs = WithRealBtcTxId(tx) \o change
      /\ Placed(done.witnesses, Len(paying), CoBuild(WithRealBtcTxId(tx)))
  BY DEF PaidWith
<1>2. PICK real \in Seq(Output) : /\ real = WithRealBtcTxId(tx) /\ Len(real) = Len(tx.outputs)
  BY RealOutputs
<1>3. DOMAIN real = DOMAIN tx.outputs
  BY <1>2, FormedFields
<1>4. tx.inputs = <<Spent(tx)>> /\ Spent(tx) \in Cell /\ Spent(tx).lock.kind = "rgbpp"
  BY FormedFields
<1>5. done.inputs = <<Spent(tx)>> \o paying
  BY <1>1, <1>4
<1>6. WellWitnessed(done)
  <2>1. PICK c \in Cell : c = Spent(tx)
    BY <1>4
  <2> QED BY <1>1, <1>2, <1>4, <1>5, <2>1, PaidWitnesses
<1>7. WithRealBtcTxId([tx EXCEPT !.outputs = tx.committed]) = real
  <2>1. [tx EXCEPT !.outputs = tx.committed] = tx
    BY DEF Formed, Flight
  <2> QED BY <1>2, <2>1
<1>8. \A o \in PayCell : o.capacity \in Int
  BY DEF PayCell
<1>9. Priced(paying) /\ Priced(change)
  BY <1>1, <1>8 DEF Priced
<1>10. Priced(tx.inputs) /\ tx.inputs \in Seq(Cell) /\ Priced(real) /\ Sum(real) = Sum(tx.outputs)
  BY <1>2, RealTotal, FormedFields
<1>11. Sum(done.inputs) = Sum(tx.inputs) + Sum(paying)
  BY <1>1, <1>9, <1>10, SumJoined
<1>12. Sum(done.outputs) = Sum(tx.outputs) + Sum(change)
  BY <1>1, <1>2, <1>9, <1>10, SumJoined
<1>13. /\ DOMAIN real \subseteq DOMAIN done.outputs
       /\ \A i \in DOMAIN real : done.outputs[i] = real[i] /\ done.outputs[i].asset # Plain
       /\ \A i \in DOMAIN done.outputs : i \notin DOMAIN real => done.outputs[i].asset = Plain
       /\ IsPrefix(real, done.outputs)
  BY <1>1, <1>2, PaidOutputs
<1>14. Spent(tx) \in ToSet(done.inputs) /\ \A x \in ToSet(done.inputs) : x = Spent(tx) \/ x \in PayCell
  BY <1>1, <1>4, <1>5, PaidInputs
<1> QED BY <1>2, <1>3, <1>6, <1>7, <1>11, <1>12, <1>13, <1>14 DEF Shaped

\* What follows once somebody pays: the witnesses in their places, and the fee paid.
LEMMA PaidByAnother ==
    ASSUME NEW tx, Formed(tx), NEW paying \in Seq(PayCell), NEW witnesses, NEW fee \in Fees,
           NEW done, done = Paid(tx, paying, WithRealBtcTxId(tx), witnesses, fee),
           Placed(witnesses, Len(paying), CoBuild(WithRealBtcTxId(tx)))
    PROVE  /\ Shaped(tx, done)
           /\ Sum(done.inputs) - Sum(done.outputs) = fee
<1>1. PICK x : x = Change(tx.inputs \o paying, WithRealBtcTxId(tx), fee)
  OBVIOUS
<1>2. /\ done.inputs = tx.inputs \o paying /\ done.witnesses = witnesses
      /\ done.outputs = WithRealBtcTxId(tx) \o <<x>>
  BY <1>1 DEF Paid
<1>3. Priced(paying)
  <2>1. \A o \in PayCell : o.capacity \in Int
    BY DEF PayCell
  <2> QED BY <2>1 DEF Priced
<1>4. /\ Sum(tx.inputs \o paying) = Sum(tx.inputs) + Sum(paying)
      /\ Sum(tx.inputs) \in Int /\ Sum(paying) \in Int
  BY <1>3, RealTotal, FormedFields, SumJoined
<1>5. Sum(WithRealBtcTxId(tx)) = Sum(tx.outputs) /\ Sum(tx.outputs) \in Int
  BY RealTotal
<1>6. fee \in Int
  BY Sizes
<1>7. x \in PayCell /\ x.capacity = Sum(tx.inputs) + Sum(paying) - Sum(tx.outputs) - fee
  BY <1>1, <1>4, <1>5, <1>6, PayingCells DEF Change
<1>8. PICK change : change = <<x>>
  OBVIOUS
<1>9. Sum(change) = x.capacity
  BY <1>4, <1>5, <1>6, <1>7, <1>8, SumOfOne
<1>10. PaidWith(tx, paying, change, done)
  <2>1. change \in Seq(PayCell)
    BY <1>7, <1>8
  <2> QED BY <1>2, <1>8, <2>1 DEF PaidWith
<1>11. /\ Shaped(tx, done)
       /\ Sum(done.inputs) = Sum(tx.inputs) + Sum(paying)
       /\ Sum(done.outputs) = Sum(tx.outputs) + Sum(change)
  BY <1>10, PaidShape
<1>12. Sum(done.inputs) - Sum(done.outputs) = fee
  BY <1>4, <1>5, <1>6, <1>7, <1>9, <1>11
<1> QED BY <1>11, <1>12

LEMMA CompletedShape ==
    ASSUME NEW tx, Formed(tx), NEW fee \in Fees, NEW done \in Completed(tx, fee)
    PROVE  /\ Shaped(tx, done)
           /\ Sum(done.inputs) - Sum(done.outputs) \in Fees
<1> DEFINE real == WithRealBtcTxId(tx)
<1>1. PICK a : a = CoBuild(real)
  OBVIOUS
<1>2. PICK b : b = CoBuild(tx.outputs)
  OBVIOUS
<1>3. tx.witnesses = <<Unlock, b>>
  BY <1>2 DEF Formed
<1>4. WithCoBuild(tx.witnesses, real) = <<Unlock, a>>
  <2>1. Front(<<Unlock, b>>) = <<Unlock>> /\ <<Unlock>> \o <<a>> = <<Unlock, a>>
    BY ShortLists
  <2> QED BY <1>1, <1>3, <2>1 DEF WithCoBuild
<1>5. tx.payer \in {"none", "paymaster", "issuer"}
  BY DEF Formed, Flight
<1>6. CASE tx.payer = "none"
  <2>1. /\ done.inputs = tx.inputs /\ done.outputs = real /\ done.witnesses = <<Unlock, a>>
    BY <1>4, <1>6 DEF Completed
  <2>2. PICK none : none \in Seq(PayCell) /\ none = <<>> /\ Len(none) = 0
    <3>1. <<>> \in Seq(PayCell) /\ Len(<<>>) = 0
      OBVIOUS
    <3> QED BY <3>1
  <2>3. tx.inputs \in Seq(Cell) /\ real \in Seq(Output)
    BY FormedFields, RealOutputs
  <2>4. done.inputs = tx.inputs \o none /\ done.outputs = real \o none
    BY <2>1, <2>2, <2>3
  <2>5. Placed(done.witnesses, Len(none), CoBuild(real))
    BY <1>1, <2>1, <2>2, PlacedLists
  <2>6. Sum(none) = 0 /\ Sum(tx.inputs) \in Int /\ Sum(tx.outputs) \in Int
    BY <2>2, SumNothing, RealTotal, FormedFields
  <2>7. /\ Shaped(tx, done)
        /\ Sum(done.inputs) = Sum(tx.inputs) + Sum(none)
        /\ Sum(done.outputs) = Sum(tx.outputs) + Sum(none)
    <3>1. PaidWith(tx, none, none, done)
      BY <2>2, <2>4, <2>5 DEF PaidWith
    <3> QED BY <3>1, PaidShape
  <2>8. Sum(tx.inputs) - Sum(tx.outputs) \in Fees
    BY <1>6 DEF Formed
  <2>9. Sum(done.inputs) - Sum(done.outputs) = Sum(tx.inputs) - Sum(tx.outputs)
    BY <2>6, <2>7
  <2> QED BY <2>7, <2>8, <2>9
<1>7. CASE tx.payer = "paymaster"
  <2>1. PICK paying : paying = <<PayingCell(PaymasterCapacity)>> /\ paying \in Seq(PayCell)
    <3>1. PaymasterCapacity \in Int
      BY Sizes
    <3>2. PayingCell(PaymasterCapacity) \in PayCell
      BY <3>1, PayingCells
    <3>3. <<PayingCell(PaymasterCapacity)>> \in Seq(PayCell)
      BY <3>2
    <3> QED BY <3>3
  <2>2. PICK w : w = PaymasterWitnesses(<<Unlock, a>>)
    OBVIOUS
  <2>3. done = Paid(tx, paying, real, w, fee)
    BY <1>4, <1>7, <2>1, <2>2 DEF Completed
  <2>4. w = <<Unlock, Sign, a>>
    <3>1. Tail(<<Unlock, a>>) = <<a>> /\ <<Unlock, a>>[1] = Unlock
          /\ <<Unlock, Sign>> \o <<a>> = <<Unlock, Sign, a>>
      BY ShortLists, ListOfThree
    <3> QED BY <2>2, <3>1 DEF PaymasterWitnesses
  <2>5. Len(paying) = 1
    BY <2>1
  <2>6. Placed(w, Len(paying), CoBuild(real))
    BY <1>1, <2>4, <2>5, PlacedLists
  <2> QED BY <2>1, <2>3, <2>6, PaidByAnother
<1>8. CASE tx.payer = "issuer"
  <2>1. PICK need \in Int : need = Sum(real) - Sum(tx.inputs) + MinCapacity + fee
    <3>1. Sum(real) \in Int /\ Sum(tx.inputs) \in Int /\ MinCapacity \in Int /\ fee \in Int
      BY RealTotal, FormedFields, Sizes
    <3> QED BY <3>1
  <2>2. PICK paying : /\ paying = <<PayingCell(need), PayingCell(MinCapacity)>>
                      /\ paying \in Seq(PayCell)
    <3>1. MinCapacity \in Int
      BY Sizes
    <3>2. PayingCell(need) \in PayCell /\ PayingCell(MinCapacity) \in PayCell
      BY <3>1, PayingCells
    <3>3. <<PayingCell(need), PayingCell(MinCapacity)>> \in Seq(PayCell)
      BY <3>2
    <3> QED BY <3>3
  <2>3. PICK w : w = IssuerWitnesses(<<Unlock, a>>)
    OBVIOUS
  <2>4. done = Paid(tx, paying, real, w, fee)
    BY <1>4, <1>8, <2>1, <2>2, <2>3 DEF Completed
  <2>5. w = <<Unlock, Sign, Empty, a>>
    <3>1. Front(<<Unlock, a>>) = <<Unlock>> /\ Last(<<Unlock, a>>) = a
      BY ShortLists
    <3>2. <<Unlock>> \o <<Sign, Empty, a>> = <<Unlock, Sign, Empty, a>>
      BY ListOfFour
    <3> QED BY <2>3, <3>1, <3>2 DEF IssuerWitnesses
  <2>6. Len(paying) = 2
    BY <2>2
  <2>7. Placed(w, Len(paying), CoBuild(real))
    BY <1>1, <2>5, <2>6, PlacedLists
  <2> QED BY <2>2, <2>4, <2>7, PaidByAnother
<1> QED BY <1>5, <1>6, <1>7, <1>8

-----------------------------------------------------------------------------
(* Unlocking.                                                              *)

LEMMA SortedCells ==
    ASSUME NEW cs \in SUBSET Cell, IsFiniteSet(cs), \A c, d \in cs : c.out[1] = d.out[1] => c = d
    PROVE  /\ Sorted(cs) \in Seq(cs)
           /\ \A c \in cs : \E k \in DOMAIN Sorted(cs) : Sorted(cs)[k] = c
           /\ \A j, k \in DOMAIN Sorted(cs) : Sorted(cs)[j] = Sorted(cs)[k] => j = k
<1> DEFINE S == {c.out[1] : c \in cs}
           numbers == InOrder(S)
<1>1. \A c \in cs : c.out[1] \in Nat
  BY DEF Cell
<1>2. S \in SUBSET Nat /\ IsFiniteSet(S)
  <2>1. S \in SUBSET Nat
    BY <1>1
  <2> DEFINE f == [c \in cs |-> c.out[1]]
  <2>2. f \in Surjection(cs, S)
    BY DEF Surjection
  <2> HIDE DEF f, S
  <2> QED BY <2>1, <2>2, FS_Surjection
<1>3. PICK n \in Nat : n = Cardinality(S)
  BY <1>2, FS_CardinalityType
<1>4. \A k \in 1..n : \E c \in cs : c.out[1] = numbers[k]
  <2>1. \A k \in 1..n : numbers[k] \in S
    <3> HIDE DEF S
    <3> QED BY <1>2, <1>3, InOrderPlaces
  <2> QED BY <2>1
<1>5. /\ DOMAIN numbers = 1..n
      /\ \A k \in 1..n : Rank(numbers[k], S) = k
      /\ \A x \in S : Rank(x, S) \in 1..n /\ numbers[Rank(x, S)] = x
  <2> HIDE DEF S
  <2>1. DOMAIN numbers = 1..n
    BY <1>3 DEF InOrder
  <2> QED BY <1>2, <1>3, <2>1, InOrderPlaces, RankRange
<1>6. \A c \in cs : c.out[1] \in S
  OBVIOUS
<1>7. Sorted(cs) = [k \in DOMAIN numbers |-> CHOOSE c \in cs : c.out[1] = numbers[k]]
  BY DEF Sorted
<1> HIDE DEF S, numbers
<1>8. ASSUME NEW k \in 1..n PROVE Sorted(cs)[k] \in cs /\ Sorted(cs)[k].out[1] = numbers[k]
  BY <1>4, <1>5, <1>7
<1>9. Sorted(cs) \in Seq(cs) /\ DOMAIN Sorted(cs) = 1..n
  BY <1>5, <1>7, <1>8
<1>10. ASSUME NEW c \in cs PROVE \E k \in 1..n : Sorted(cs)[k] = c
  <2>1. PICK k \in 1..n : numbers[k] = c.out[1]
    BY <1>5, <1>6
  <2> QED BY <1>8, <2>1
<1>11. ASSUME NEW j \in 1..n, NEW k \in 1..n, Sorted(cs)[j] = Sorted(cs)[k] PROVE j = k
  BY <1>5, <1>8, <1>11
<1> QED BY <1>9, <1>10, <1>11

\* Time cells, each of one spore.
TimeCells(cs) ==
    /\ cs \in SUBSET Cell /\ IsFiniteSet(cs) /\ \A c, d \in cs : c.out[1] = d.out[1] => c = d
    /\ \A c \in cs : c.lock.kind = "time" /\ c.asset.kind = "spore"

LEMMA UnlockedShape ==
    ASSUME NEW cs, TimeCells(cs), NEW fee \in Fees
    PROVE  /\ WellWitnessed(Unlocked(cs, fee))
           /\ LET outputs == Unlocked(cs, fee).outputs IN
              /\ \A i \in DOMAIN outputs :
                  \/ outputs[i].asset = Plain
                  \/ i > 1 /\ i - 1 \in DOMAIN Sorted(cs)
              /\ DOMAIN outputs = 1..(1 + Len(Sorted(cs)))
              /\ outputs \in Seq(PayCell \cup Output)
              /\ \A k \in DOMAIN Sorted(cs) :
                  outputs[1 + k] = Moved(Sorted(cs)[k], Ckb(Sorted(cs)[k].lock.to))
<1>1. /\ Sorted(cs) \in Seq(cs) /\ \A c \in cs : c \in Cell /\ c.lock.kind = "time"
      /\ \A c \in cs : c.asset.kind = "spore"
  <2>1. cs \in SUBSET Cell /\ IsFiniteSet(cs) /\ \A c, d \in cs : c.out[1] = d.out[1] => c = d
    BY DEF TimeCells
  <2>2. Sorted(cs) \in Seq(cs)
    BY <2>1, SortedCells
  <2> QED BY <2>2 DEF TimeCells
<1>2. PICK s \in Seq(cs) : s = Sorted(cs)
  BY <1>1
<1>3. PICK n \in Nat : n = Len(s)
  BY <1>2
<1>4. DOMAIN s = 1..n /\ \A k \in 1..n : s[k] \in cs
  BY <1>3
<1>5. ASSUME NEW c \in cs PROVE c.lock.to \in Owner /\ c.asset \in AssetIds /\ c.data \in Nat /\ c.capacity \in Nat
  <2>1. c \in Cell /\ c.lock.kind = "time" /\ c.asset.kind = "spore"
    BY <1>1
  <2>2. c.lock \in Locks /\ c.asset \in AssetIds \cup {Plain} /\ c.data \in Nat /\ c.capacity \in Nat
    BY <2>1 DEF Cell
  <2>3. c.lock.to \in Owner
    BY <2>1, <2>2 DEF Locks
  <2>4. c.asset \in AssetIds
    BY <2>1, <2>2 DEF Plain
  <2> QED BY <2>2, <2>3, <2>4
<1>6. ASSUME NEW c \in cs
      PROVE  Moved(c, Ckb(c.lock.to)) \in Output /\ Moved(c, Ckb(c.lock.to)).asset # Plain
  <2>1. Ckb(c.lock.to) \in Locks
    BY <1>5 DEF Ckb, Locks
  <2>2. Moved(c, Ckb(c.lock.to)) \in Output
    BY <1>5, <2>1 DEF Moved, Output
  <2>3. Moved(c, Ckb(c.lock.to)).asset.kind = "spore"
    BY <1>1 DEF Moved
  <2> QED BY <2>2, <2>3 DEF Plain
<1>7. PICK o : o = [i \in DOMAIN s |-> Moved(s[i], Ckb(s[i].lock.to))]
  OBVIOUS
<1>8. PICK w : w = TimeWitnesses(s)
  OBVIOUS
<1>9. PICK p : p = PayingCell(MinCapacity + fee)
  OBVIOUS
<1>10. PICK q : q = PayingCell(MinCapacity)
  OBVIOUS
<1>11. PICK b : b = CoBuild(o)
  OBVIOUS
<1>12. p \in PayCell /\ q \in PayCell
  BY <1>9, <1>10, PayingCells, Sizes
<1>13. o \in Seq(Output) /\ Len(o) = n /\ \A i \in 1..n : o[i] = Moved(s[i], Ckb(s[i].lock.to))
  BY <1>4, <1>6, <1>7
<1>14. PICK done : done = Unlocked(cs, fee)
  OBVIOUS
<1>15. /\ done.inputs = <<p>> \o s /\ done.outputs = <<q>> \o o
       /\ done.witnesses = <<Sign>> \o (w \o <<b>>)
  BY <1>2, <1>7, <1>8, <1>9, <1>10, <1>11, <1>14 DEF Unlocked, UnlockWitnesses
<1>16. PICK in : in = done.inputs
  OBVIOUS
<1>17. PICK out : out = done.outputs
  OBVIOUS
<1>18. PICK x : x = done.witnesses
  OBVIOUS
<1>19. Len(in) = 1 + n /\ DOMAIN in = 1..(1 + n) /\ in[1] = p /\ \A k \in 1..n : in[1 + k] = s[k]
  BY <1>3, <1>4, <1>15, <1>16
<1>20. Len(out) = 1 + n /\ DOMAIN out = 1..(1 + n) /\ out[1] = q /\ \A k \in 1..n : out[1 + k] = o[k]
  BY <1>13, <1>15, <1>17
<1>21. /\ Len(x) = n + 2 /\ x[1] = Sign /\ x[n + 2] = b
       /\ \A k \in 1..n :
            x[1 + k] = IF \E j \in 1..(k - 1) : s[j].lock = s[k].lock THEN Empty ELSE Unlock
  <2>1. PICK T : T = {Empty, Unlock, b}
    OBVIOUS
  <2>2. Empty \in T /\ Unlock \in T /\ b \in T
    BY <2>1
  <2>3. /\ DOMAIN w = 1..n /\ w \in Seq(T) /\ Len(w) = n
        /\ \A k \in 1..n :
             w[k] = IF \E j \in 1..(k - 1) : s[j].lock = s[k].lock THEN Empty ELSE Unlock
    BY <1>4, <1>8, <2>2 DEF TimeWitnesses
  <2>4. PICK y : y = w \o <<b>>
    OBVIOUS
  <2>5. Len(y) = n + 1 /\ y[n + 1] = b /\ (\A k \in 1..n : y[k] = w[k]) /\ y \in Seq(T)
    BY <2>2, <2>3, <2>4, Appended
  <2>6. x = <<Sign>> \o y
    BY <1>15, <1>18, <2>4
  <2>7. Len(x) = n + 2 /\ x[1] = Sign /\ (\A k \in 1..(n + 1) : x[1 + k] = y[k])
    BY <2>5, <2>6
  <2>8. x[n + 2] = b
    <3>1. n + 1 \in 1..(n + 1) /\ 1 + (n + 1) = n + 2
      OBVIOUS
    <3> QED BY <2>5, <2>7, <3>1
  <2>9. ASSUME NEW k \in 1..n PROVE x[1 + k] = w[k]
    <3>1. k \in 1..(n + 1)
      OBVIOUS
    <3> QED BY <2>5, <2>7, <3>1
  <2> QED BY <2>3, <2>7, <2>8, <2>9
<1>22. ASSUME NEW i \in 1..(1 + n) PROVE i = 1 \/ \E k \in 1..n : i = 1 + k
  <2>1. i = 1 \/ (i - 1 \in 1..n /\ i = 1 + (i - 1))
    OBVIOUS
  <2> QED BY <2>1
<1>23. \A k \in 1..n : out[1 + k] \in Output /\ out[1 + k].asset # Plain
                       /\ out[1 + k] = Moved(s[k], Ckb(s[k].lock.to))
  BY <1>4, <1>6, <1>13, <1>20
<1>24. out[1].asset = Plain
  BY <1>12, <1>20 DEF PayCell
<1>25. MovedAssets(out) = o
  <2>1. PICK a \in Nat : a = 1
    OBVIOUS
  <2>2. ASSUME NEW i \in DOMAIN out PROVE out[i].asset # Plain <=> i \in (a + 1)..(a + n)
    <3>1. i \in 1..(1 + n)
      BY <1>20
    <3>2. CASE i = 1
      BY <1>24, <2>1, <3>2
    <3>3. CASE i # 1
      <4>1. PICK k \in 1..n : i = 1 + k
        BY <1>22, <3>1, <3>3
      <4>2. out[i].asset # Plain
        BY <1>23, <4>1
      <4>3. i \in (a + 1)..(a + n)
        BY <2>1, <4>1
      <4> QED BY <4>2, <4>3
    <3> QED BY <3>2, <3>3
  <2>3. (a + 1)..(a + n) \subseteq DOMAIN out
    BY <1>20, <2>1
  <2>4. MovesAfter(out, a, n)
    BY <2>2, <2>3 DEF MovesAfter
  <2>5. MovedAssets(out) = [k \in 1..n |-> out[a + k]]
    BY <2>4, MovedBetween
  <2>6. o = [k \in 1..n |-> o[k]]
    BY <1>13
  <2> QED BY <1>20, <2>1, <2>5, <2>6
<1>26. Sign.kind = "sign" /\ Empty.kind = "empty" /\ Unlock.kind = "unlock"
       /\ Ckb(Creator).kind = "ckb"
  BY DEF Sign, Empty, Unlock, Ckb
<1>27. in[1].lock = Ckb(Creator)
  BY <1>12, <1>19 DEF PayCell
<1>28. ASSUME NEW i \in 1..(1 + n)
       PROVE  x[i].kind = IF \E j \in 1..(i - 1) : in[j].lock = in[i].lock
                          THEN "empty" ELSE SignKind(in[i].lock)
  <2>1. CASE i = 1
    <3>1. ~\E j \in 1..(i - 1) : in[j].lock = in[i].lock
      BY <2>1
    <3>2. x[i].kind = "sign" /\ in[i].lock.kind = "ckb"
      BY <1>21, <1>26, <1>27, <2>1
    <3> QED BY <3>1, <3>2 DEF SignKind
  <2>2. ASSUME NEW k \in 1..n, i = 1 + k
        PROVE  x[i].kind = IF \E j \in 1..(i - 1) : in[j].lock = in[i].lock
                           THEN "empty" ELSE SignKind(in[i].lock)
    <3>1. in[i] = s[k] /\ in[i].lock.kind = "time"
      BY <1>1, <1>4, <1>19, <2>2
    <3>2. (\E j \in 1..(i - 1) : in[j].lock = in[i].lock)
              <=> \E j \in 1..(k - 1) : s[j].lock = s[k].lock
      <4>1. ASSUME NEW j \in 1..(i - 1), in[j].lock = in[i].lock
            PROVE  \E h \in 1..(k - 1) : s[h].lock = s[k].lock
        <5>1. j # 1
          BY <1>26, <1>27, <3>1, <4>1
        <5>2. j \in 1..(1 + n)
          BY <2>2
        <5>3. PICK h \in 1..n : j = 1 + h
          BY <1>22, <5>1, <5>2
        <5>4. h \in 1..(k - 1) /\ in[j] = s[h]
          BY <1>19, <2>2, <5>3
        <5> QED BY <3>1, <4>1, <5>4
      <4>2. ASSUME NEW h \in 1..(k - 1), s[h].lock = s[k].lock
            PROVE  \E j \in 1..(i - 1) : in[j].lock = in[i].lock
        <5>1. 1 + h \in 1..(i - 1) /\ in[1 + h] = s[h]
          BY <1>19, <2>2
        <5> QED BY <3>1, <4>2, <5>1
      <4> QED BY <4>1, <4>2
    <3>3. x[i] = IF \E j \in 1..(k - 1) : s[j].lock = s[k].lock THEN Empty ELSE Unlock
      BY <1>21, <2>2
    <3> QED BY <1>26, <3>1, <3>2, <3>3 DEF SignKind
  <2> QED BY <1>22, <2>1, <2>2
<1>29. WellWitnessed(done)
  <2>1. Len(x) = Len(in) + 1
    BY <1>19, <1>21
  <2>2. Last(x) = CoBuild(MovedAssets(out))
    BY <1>11, <1>21, <1>25 DEF Last
  <2> QED BY <1>16, <1>17, <1>18, <1>19, <1>28, <2>1, <2>2 DEF WellWitnessed
<1>30. \A i \in DOMAIN out : out[i].asset = Plain \/ (i > 1 /\ i - 1 \in DOMAIN s)
  BY <1>4, <1>20, <1>24
<1>31. out \in Seq(PayCell \cup Output)
  BY <1>12, <1>13, <1>15, <1>17
<1> QED BY <1>2, <1>3, <1>4, <1>14, <1>17, <1>20, <1>23, <1>29, <1>30, <1>31

-----------------------------------------------------------------------------
(* What the invariant says of the properties.                              *)

\* The output of a moved spore holds what it occupies, under either lock, and whoever pays
\* can.
LEMMA MovedOutput ==
    ASSUME NEW c \in Cell, c.asset.kind = "spore", c.lock.kind = "rgbpp", c.capacity >= Occupied(c),
           NEW lock \in Locks, lock.kind \in {"rgbpp", "time"}, NEW fee \in Fees,
           NEW payer, NEW o, PayerAndOutput(Moved(c, lock), fee) = <<payer, o>>
    PROVE  /\ o \in Output /\ o.asset = c.asset /\ o.lock = lock /\ o.data = c.data
           /\ o.capacity >= Occupied(o)
           /\ payer \in {"none", "paymaster"}
           /\ payer = "none" => c.capacity - o.capacity \in Fees
           /\ payer = "paymaster" => c.capacity + PaymasterCapacity > o.capacity + MinCapacity
<1>1. PICK m : m = Moved(c, lock)
  OBVIOUS
<1>2. PICK k \in {"rgbpp", "time"} : k = lock.kind
  OBVIOUS
<1>3. c.asset \in AssetIds /\ c.asset # Plain /\ c.data \in Nat /\ c.capacity \in Nat
  <2>1. c.asset \in AssetIds \cup {Plain} /\ c.data \in Nat /\ c.capacity \in Nat
    BY DEF Cell
  <2>2. c.asset # Plain
    BY DEF Plain
  <2> QED BY <2>1, <2>2
<1>4. /\ m.asset = c.asset /\ m.lock = lock /\ m.data = c.data /\ m.capacity = c.capacity
      /\ m = [asset |-> c.asset, lock |-> lock, data |-> c.data, capacity |-> c.capacity]
  BY <1>1 DEF Moved
<1>5. PICK full \in Nat : full = calculateRgbppSporeCellCapacity(c.data)
  BY <1>3, BytesOfLocks
<1>6. PICK need \in Nat : need = Occupied(m)
  BY <1>2, <1>3, <1>4, OccupiedBytes
<1>7. need = Unit * Bytes(k, c.data)
  BY <1>2, <1>3, <1>4, <1>6, OccupiedBytes
<1>8. PICK inc \in Nat : inc = Unit * (BtcTimeCellIncreasedSize + 1)
  BY <1>3, BytesOfLocks
<1>9. PICK had \in Nat : had = Unit * Bytes("rgbpp", c.data)
  BY <1>3, BytesOfLocks
<1>10. c.capacity >= had /\ full = had + inc /\ need <= full
  <2>1. Occupied(c) = had
    BY <1>3, <1>9, OccupiedBytes
  <2>2. full = had + inc
    BY <1>3, <1>5, <1>8, <1>9, BytesOfLocks
  <2>3. need <= full
    <3>1. PICK timed \in Nat : timed = Unit * Bytes("time", c.data)
      BY <1>3, BytesOfLocks
    <3>2. had + Unit <= timed /\ timed <= full /\ Unit \in Nat
      BY <1>3, <1>5, <1>9, <3>1, BytesOfLocks, Sizes
    <3>3. need = had \/ need = timed
      BY <1>7, <1>9, <3>1
    <3> QED BY <3>2, <3>3
  <2> QED BY <2>1, <2>2, <2>3
<1>11. PaymasterCapacity > MinCapacity + inc /\ PaymasterCapacity \in Nat /\ MinCapacity \in Nat
  BY <1>8, Sizes, SizeAssumption
<1>12. ASSUME NEW capacity \in Nat
       PROVE  /\ [m EXCEPT !.capacity = capacity] \in Output
              /\ [m EXCEPT !.capacity = capacity].asset = c.asset
              /\ [m EXCEPT !.capacity = capacity].lock = lock
              /\ [m EXCEPT !.capacity = capacity].data = c.data
              /\ [m EXCEPT !.capacity = capacity].capacity = capacity
  BY <1>3, <1>4 DEF Output
<1>13. \A x : x.asset = c.asset /\ x.lock = lock /\ x.data = c.data => Occupied(x) = need
  BY <1>4, <1>6 DEF Occupied
<1>14. m \in Output
  BY <1>3, <1>4 DEF Output
<1>15. fee \in Nat
  BY Sizes
<1>16. CASE m.capacity <= Occupied(m)
  <2>1. payer = "paymaster" /\ o = [m EXCEPT !.capacity = full]
    BY <1>1, <1>4, <1>5, <1>16 DEF PayerAndOutput
  <2>2. o \in Output /\ o.asset = c.asset /\ o.lock = lock /\ o.data = c.data /\ o.capacity = full
    BY <1>12, <2>1
  <2>3. Occupied(o) = need
    BY <1>13, <2>2
  <2> QED BY <1>3, <1>10, <1>11, <2>1, <2>2, <2>3
<1>17. CASE ~(m.capacity <= Occupied(m)) /\ m.capacity < fee + Occupied(m)
  <2>1. payer = "paymaster" /\ o = m
    BY <1>1, <1>17 DEF PayerAndOutput
  <2> QED BY <1>3, <1>4, <1>6, <1>11, <1>14, <1>17, <2>1
<1>18. CASE ~(m.capacity <= Occupied(m)) /\ ~(m.capacity < fee + Occupied(m))
  <2>1. PICK left \in Nat : left = c.capacity - fee
    BY <1>3, <1>4, <1>6, <1>15, <1>18
  <2>2. payer = "none" /\ o = [m EXCEPT !.capacity = left]
    BY <1>1, <1>4, <1>18, <2>1 DEF PayerAndOutput
  <2>3. o \in Output /\ o.asset = c.asset /\ o.lock = lock /\ o.data = c.data /\ o.capacity = left
    BY <1>12, <2>2
  <2>4. Occupied(o) = need
    BY <1>13, <2>3
  <2>5. c.capacity - left = fee /\ left >= need
    BY <1>3, <1>4, <1>6, <1>15, <1>18, <2>1
  <2> QED BY <2>2, <2>3, <2>4, <2>5
<1> QED BY <1>16, <1>17, <1>18

LEMMA InvImpliesNothingStuck == ASSUME CellsInv, UtxosInv PROVE NothingStuck
<1>1. \A c \in cells : c \in Cell /\ c.capacity >= Occupied(c)
  BY DEF CellsInv
<1>2. ASSUME NEW u \in utxos, NEW fee \in Fees, NEW to \in Owner, NEW c \in SporeCells(u),
             NEW lock \in {Rgbpp(Placeholder, 1), BtcTime(Placeholder, to)}
      PROVE  CapacitySufficient(<<PayerAndOutput(Moved(c, lock), fee)[2]>>)
  <2>1. c \in cells /\ c.lock = Rgbpp(u.tx, u.vout) /\ c.asset.kind = "spore"
    BY DEF SporeCells, CellsOf
  <2>2. c.lock.kind = "rgbpp"
    BY <2>1 DEF Rgbpp
  <2>3. lock \in Locks /\ lock.kind \in {"rgbpp", "time"}
    BY DEF Rgbpp, BtcTime, Placeholder, Locks
  <2>4. PICK payer, o : PayerAndOutput(Moved(c, lock), fee) = <<payer, o>>
    BY DEF PayerAndOutput
  <2>5. o.capacity >= Occupied(o)
    BY <1>1, <2>1, <2>2, <2>3, <2>4, MovedOutput
  <2>6. PayerAndOutput(Moved(c, lock), fee)[2] = o
    BY <2>4
  <2> QED BY <2>5, <2>6 DEF CapacitySufficient
<1>3. \A tx \in flying : tx.payer = "paymaster" => PaymasterCovers(tx)
  BY DEF UtxosInv, Formed
<1> QED BY <1>1, <1>2, <1>3 DEF NothingStuck

LEMMA TimeCellsOfInv ==
    ASSUME CellsInv, NEW cs \in SUBSET {c \in cells : c.lock.kind = "time"} PROVE TimeCells(cs)
<1>1. cs \subseteq cells /\ cells \subseteq Cell /\ IsFiniteSet(cells)
  BY DEF CellsInv
<1>2. cs \in SUBSET Cell /\ IsFiniteSet(cs)
  BY <1>1, FS_Subset
<1>3. \A c \in cs : c.lock.kind = "time" /\ c.asset.kind = "spore" /\ c.out[2] = 1
  BY DEF CellsInv
<1>4. ASSUME NEW c \in cs, NEW d \in cs, c.out[1] = d.out[1] PROVE c = d
  <2>1. c.out \in Nat \X Nat /\ d.out \in Nat \X Nat
    BY <1>2 DEF Cell
  <2>2. c.out = d.out
    BY <1>3, <1>4, <2>1
  <2> QED BY <1>1, <2>2 DEF CellsInv
<1> QED BY <1>2, <1>3, <1>4 DEF TimeCells

LEMMA InvImpliesWitnessesInPlace == ASSUME CellsInv, UtxosInv PROVE WitnessesInPlace
<1>1. ASSUME NEW fee \in Fees, NEW tx \in flying, NEW done \in Completed(tx, fee)
      PROVE  WellWitnessed(done)
  <2>1. Formed(tx)
    BY DEF UtxosInv
  <2> QED BY <2>1, CompletedShape DEF Shaped
<1>2. ASSUME NEW fee \in Fees, NEW cs \in SUBSET {c \in cells : c.lock.kind = "time"}
      PROVE  WellWitnessed(Unlocked(cs, fee))
  BY TimeCellsOfInv, UnlockedShape
<1> QED BY <1>1, <1>2 DEF WitnessesInPlace

LEMMA InvImpliesCommitmentKept == ASSUME UtxosInv PROVE CommitmentKept
<1>1. ASSUME NEW tx \in flying, NEW fee \in Fees, NEW done \in Completed(tx, fee)
      PROVE  /\ IsPrefix(WithRealBtcTxId([tx EXCEPT !.outputs = tx.committed]), done.outputs)
             /\ Sum(done.inputs) - Sum(done.outputs) \in Fees
  <2>1. Formed(tx)
    BY DEF UtxosInv
  <2> QED BY <2>1, CompletedShape DEF Shaped
<1> QED BY <1>1 DEF CommitmentKept

LEMMA InvImpliesEveryAssetOwned == ASSUME CellsInv, OwnersInv PROVE EveryAssetOwned
<1>1. ASSUME NEW a \in Assets PROVE Cardinality({c \in cells : c.asset = a}) = 1
  <2>1. PICK w \in wanted : w[1] = a
    BY DEF Assets
  <2>2. a \in AssetIds
    BY <2>1 DEF OwnersInv
  <2>3. a # Plain
    BY <2>2 DEF AssetIds, Plain
  <2>4. PICK c \in cells : c.asset = a
    BY <2>1 DEF OwnersInv
  <2>5. \A d \in cells : d.asset = a => d = c
    BY <2>3, <2>4 DEF CellsInv
  <2>6. {d \in cells : d.asset = a} = {c}
    BY <2>4, <2>5
  <2> QED BY <2>6, FS_Singleton
<1> QED BY <1>1 DEF EveryAssetOwned, OwnersInv

-----------------------------------------------------------------------------
(* The initial states.                                                     *)

LEMMA InitCells == Init => CellsInv
<1> SUFFICES ASSUME Init PROVE CellsInv
  OBVIOUS
<1>1. PICK full : full = calculateRgbppClusterCellCapacity
  OBVIOUS
<1>2. PICK c : c = [out |-> <<1, 1>>, asset |-> Plain, lock |-> Rgbpp(1, 1), data |-> 0,
                    capacity |-> full]
  OBVIOUS
<1>3. cells = {c} /\ flying = {} /\ number = 2
  BY <1>1, <1>2 DEF Init
<1>4. /\ c.out = <<1, 1>> /\ c.asset = Plain /\ c.lock = Rgbpp(1, 1) /\ c.data = 0
      /\ c.capacity = full
  BY <1>2
<1>5. c.lock.kind = "rgbpp" /\ c.lock.tx = 1
  BY <1>4 DEF Rgbpp
<1>6. full \in Nat /\ full >= Occupied(c)
  <2>1. PICK lock \in Nat, size \in Nat, type \in Nat, data \in Nat :
            /\ lock = LockSize["rgbpp"] /\ size = CapacitySize /\ type = TypeSize /\ data = ClusterData
    BY Sizes
  <2>2. full = Unit * (lock + type + size + data + 1)
    BY <1>1, <2>1 DEF calculateRgbppClusterCellCapacity
  <2>3. Occupied(c) = Unit * (lock + size)
    BY <1>4, <1>5, <2>1 DEF Occupied
  <2>4. lock + type + size + data + 1 = (lock + size) + (type + data + 1)
    BY <2>1
  <2>5. lock + size \in Nat /\ type + data + 1 \in Nat
    BY <2>1
  <2>6. Unit * ((lock + size) + (type + data + 1)) = Unit * (lock + size) + Unit * (type + data + 1)
        /\ Unit * (lock + size) \in Nat /\ Unit * (type + data + 1) \in Nat
    BY <2>5, Times
  <2> QED BY <2>2, <2>3, <2>4, <2>6
<1>7. c \in Cell
  <2>1. Rgbpp(1, 1) \in Locks
    BY DEF Rgbpp, Locks
  <2> QED BY <1>2, <1>6, <2>1 DEF Cell
<1>8. Settled(1)
  BY <1>3 DEF Settled, Flying
<1>9. IsFiniteSet(cells)
  BY <1>3, FS_Singleton
<1> QED BY <1>3, <1>4, <1>5, <1>6, <1>7, <1>8, <1>9 DEF CellsInv

LEMMA InitUtxos == Init => UtxosInv
<1> SUFFICES ASSUME Init PROVE UtxosInv
  OBVIOUS
<1>1. /\ utxos = {[tx |-> 1, vout |-> 1, owner |-> Creator]}
                 \cup {[tx |-> 1, vout |-> k + 1, owner |-> Kept[k]] : k \in DOMAIN Kept}
      /\ flying = {} /\ number = 2
  BY DEF Init
<1>2. Creator \in Owner /\ \A k \in DOMAIN Kept : k \in Nat /\ k >= 1 /\ Kept[k] \in Owner
  <2>1. Creator \in Owner /\ Kept \in Seq(Owner)
    BY SizeAssumption
  <2> QED BY <2>1
<1>3. \A u \in utxos :
        \/ u.vout = 1 /\ u = [tx |-> 1, vout |-> 1, owner |-> Creator]
        \/ \E k \in DOMAIN Kept : u.vout = k + 1 /\ u = [tx |-> 1, vout |-> k + 1, owner |-> Kept[k]]
  BY <1>1
<1>4. \A u \in utxos : u \in Utxos /\ u.tx = 1
  BY <1>2, <1>3 DEF Utxos
<1>5. ASSUME NEW u \in utxos, NEW v \in utxos, u.vout = v.vout PROVE u = v
  <2>1. CASE u.vout = 1
    <3>1. \A w \in {u, v} : w = [tx |-> 1, vout |-> 1, owner |-> Creator]
      <4>1. ASSUME NEW w \in {u, v}, NEW k \in DOMAIN Kept PROVE w.vout # k + 1
        <5>1. w.vout = 1 /\ k \in Nat /\ k >= 1
          BY <1>2, <1>5, <2>1
        <5> QED BY <5>1
      <4> QED BY <1>3, <4>1
    <3> QED BY <3>1
  <2>2. CASE u.vout # 1
    <3>1. PICK k \in DOMAIN Kept : u.vout = k + 1 /\ u = [tx |-> 1, vout |-> k + 1, owner |-> Kept[k]]
      BY <1>3, <2>2
    <3>2. PICK j \in DOMAIN Kept : v.vout = j + 1 /\ v = [tx |-> 1, vout |-> j + 1, owner |-> Kept[j]]
      BY <1>3, <1>5, <2>2
    <3>3. j = k
      <4>1. j \in Nat /\ k \in Nat /\ j + 1 = k + 1
        BY <1>2, <1>5, <3>1, <3>2
      <4> QED BY <4>1
    <3> QED BY <3>1, <3>2, <3>3
  <2> QED BY <2>1, <2>2
<1> QED BY <1>1, <1>4, <1>5 DEF UtxosInv

LEMMA InitOwners == Init => OwnersInv
<1> SUFFICES ASSUME Init PROVE OwnersInv
  OBVIOUS
<1>1. PICK u : u = [tx |-> 1, vout |-> 1, owner |-> Creator]
  OBVIOUS
<1>2. u \in utxos /\ u.tx = 1 /\ u.vout = 1 /\ wanted = {}
  BY <1>1 DEF Init
<1>3. \A c \in cells : c.lock = Rgbpp(1, 1) /\ c.asset = Plain
  BY DEF Init
<1>4. \A c \in cells : u \in Bound(c) /\ c.lock.kind = "rgbpp"
  BY <1>2, <1>3 DEF Bound, Rgbpp
<1> QED BY <1>2, <1>3, <1>4 DEF OwnersInv

-----------------------------------------------------------------------------
(* Building.                                                               *)

\* What a transaction that is built has to be: from a cell of the UTXO, with what Formed
\* asks of its outputs, their receivers and who pays.
Offer(u, c, outputs, tos, payer) ==
    LET tx == [inputs |-> <<c>>, outputs |-> outputs, tos |-> tos]
    IN  /\ c \in cells /\ c.lock = Rgbpp(u.tx, u.vout)
        /\ outputs \in Seq(Output) /\ Len(outputs) > 0
        /\ tos \in Seq(Owner) /\ Len(tos) = Len(outputs)
        /\ payer \in {"none", "paymaster", "issuer"}
        /\ AssetsOfCell(tx) /\ LocksInPlace(tx)
        /\ payer = "none" => Sum(<<c>>) - Sum(outputs) \in Fees
        /\ payer = "paymaster" => PaymasterCovers(tx)

LEMMA BuiltPreserves ==
    ASSUME IInv, NEW u \in utxos, NEW c, NEW outputs, NEW tos, NEW payer,
           Offer(u, c, outputs, tos, payer), Built(u, c, outputs, tos, payer)
    PROVE  IInv'
<1>1. PICK tx : tx = [number |-> number, utxo |-> u, inputs |-> <<c>>, outputs |-> outputs,
                      tos |-> tos, payer |-> payer, committed |-> outputs,
                      witnesses |-> <<Unlock, CoBuild(outputs)>>, accepted |-> FALSE]
  OBVIOUS
<1>2. /\ flying' = flying \cup {tx} /\ number' = number + 1 /\ CapacitySufficient(outputs)
      /\ cells' = cells /\ utxos' = utxos /\ wanted' = wanted
  BY <1>1 DEF Built
<1>3. /\ tx.number = number /\ tx.utxo = u /\ tx.inputs = <<c>> /\ tx.outputs = outputs
      /\ tx.tos = tos /\ tx.payer = payer /\ tx.committed = outputs
      /\ tx.witnesses = <<Unlock, CoBuild(outputs)>> /\ tx.accepted = FALSE
  BY <1>1
<1>4. /\ c \in cells /\ c.lock = Rgbpp(u.tx, u.vout) /\ c \in Cell /\ number \in Nat /\ u \in Utxos
      /\ outputs \in Seq(Output) /\ Len(outputs) > 0
      /\ tos \in Seq(Owner) /\ Len(tos) = Len(outputs) /\ payer \in {"none", "paymaster", "issuer"}
      /\ payer = "none" => Sum(<<c>>) - Sum(outputs) \in Fees
  BY DEF Offer, IInv, CellsInv, UtxosInv
<1>5. c.lock.kind = "rgbpp" /\ c.lock.tx = u.tx
  BY <1>4 DEF Rgbpp
<1>6. Spent(tx) = c
  BY <1>3 DEF Spent
<1>7. Formed(tx)
  <2>1. tx \in Flight
    <3>1. <<c>> \in Seq(Cell)
      BY <1>4
    <3>2. <<Unlock, CoBuild(outputs)>> \in {<<Unlock, CoBuild(o)>> : o \in Seq(Output)}
      BY <1>4
    <3> QED BY <1>1, <1>4, <3>1, <3>2 DEF Flight
  <2>2. AssetsOfCell(tx) /\ LocksInPlace(tx) /\ (payer = "paymaster" => PaymasterCovers(tx))
    BY <1>3 DEF Offer, AssetsOfCell, LocksInPlace, PaymasterCovers, Spent
  <2>3. Len(tx.inputs) = 1
    BY <1>3
  <2> QED BY <1>2, <1>3, <1>4, <1>6, <2>1, <2>2, <2>3 DEF Formed
<1>8. \A n : Settled(n) => Settled(n)'
  BY <1>2, <1>3, <1>4 DEF Settled, Flying
<1>9. CellsInv'
  BY <1>2, <1>8 DEF IInv, CellsInv
<1>10. UtxosInv'
  <2>1. Settled(u.tx)
    BY <1>4, <1>5 DEF IInv, CellsInv
  <2>2. \A t \in flying : /\ Formed(t) /\ t.number < number /\ t.number \in Nat /\ Settled(t.utxo.tx)
                          /\ \A s \in flying : s.number = t.number => s = t
    BY FormedFields DEF IInv, UtxosInv
  <2>3. \A v \in utxos : v.tx < number /\ v.tx \in Nat
    BY DEF IInv, UtxosInv, Utxos
  <2>4. \A t \in flying' : \A s \in flying' : s.number = t.number => s = t
    BY <1>2, <1>3, <1>4, <2>2
  <2>5. \A t \in flying' : Formed(t) /\ t.number < number' /\ Settled(t.utxo.tx)'
    BY <1>2, <1>3, <1>4, <1>7, <1>8, <2>1, <2>2
  <2>6. \A t \in flying' :
          IF t.accepted
          THEN /\ NewUtxos(t) \subseteq utxos
               /\ \A v \in utxos : ~(v.tx = t.utxo.tx /\ v.vout = t.utxo.vout)
          ELSE /\ \A v \in utxos : v.tx # t.number
               /\ t.utxo \in utxos => Spent(t) \in cells
    <3>1. \A v \in utxos : v.tx # number
      BY <1>4, <2>3
    <3> QED BY <1>2, <1>3, <1>4, <1>6, <3>1 DEF IInv, UtxosInv
  <2>7. utxos' \subseteq Utxos /\ number' \in Nat /\ \A v \in utxos' : v.tx < number'
    BY <1>2, <1>4, <2>3 DEF IInv, UtxosInv
  <2>8. \A v, w \in utxos' : v.tx = w.tx /\ v.vout = w.vout => v = w
    BY <1>2 DEF IInv, UtxosInv
  <2> QED BY <1>2, <2>4, <2>5, <2>6, <2>7, <2>8 DEF UtxosInv
<1>11. OwnersInv'
  BY <1>2 DEF IInv, OwnersInv, Bound
<1> QED BY <1>9, <1>10, <1>11 DEF IInv

\* A cell of a UTXO, when the invariant holds.
LEMMA CellOfUtxo ==
    ASSUME IInv, NEW u \in utxos, NEW c \in CellsOf(u)
    PROVE  /\ c \in cells /\ c \in Cell /\ c.lock = Rgbpp(u.tx, u.vout) /\ c.lock.kind = "rgbpp"
           /\ u.owner \in Owner /\ c.out \in Nat \X Nat /\ c.capacity \in Nat /\ c.data \in Nat
           /\ c.asset \in AssetIds \cup {Plain} /\ c.capacity >= Occupied(c)
           /\ c.asset # Plain => c.asset \in AssetIds /\ c.asset.id[1] # c.out
           /\ \A kind \in {"cluster", "spore"}, i \in Nat :
                Id(kind, c, i) \in AssetIds /\ Id(kind, c, i) # Plain
<1>1. c \in cells /\ c \in Cell /\ c.lock = Rgbpp(u.tx, u.vout) /\ u \in Utxos
  BY DEF CellsOf, IInv, CellsInv, UtxosInv
<1>2. c.lock.kind = "rgbpp" /\ u.owner \in Owner
  BY <1>1 DEF Rgbpp, Utxos
<1>3. /\ c.out \in Nat \X Nat /\ c.capacity \in Nat /\ c.data \in Nat
      /\ c.asset \in AssetIds \cup {Plain}
  BY <1>1 DEF Cell
<1>4. c.asset # Plain => c.asset \in AssetIds /\ c.asset.id[1] # c.out
  BY <1>1, <1>3 DEF IInv, CellsInv
<1>5. \A kind \in {"cluster", "spore"}, i \in Nat : Id(kind, c, i) \in AssetIds
  BY <1>3 DEF Id, AssetIds
<1>6. \A kind \in {"cluster", "spore"}, i \in Nat : Id(kind, c, i) # Plain
  BY DEF Id, Plain
<1> QED BY <1>1, <1>2, <1>3, <1>4, <1>5, <1>6 DEF IInv, CellsInv

LEMMA CreateClusterPreserves ==
    ASSUME IInv, NEW u \in utxos, NEW fee \in Fees, CreateCluster(u, fee) PROVE IInv'
<1>1. PICK c \in CellsOf(u) :
        /\ c.asset = Plain
        /\ Built(u, c, <<[asset |-> Id("cluster", c, 0), lock |-> Rgbpp(Placeholder, 1),
                          data |-> ClusterData, capacity |-> c.capacity - fee]>>,
                 <<u.owner>>, "none")
  BY DEF CreateCluster
<1>2. PICK o : o = [asset |-> Id("cluster", c, 0), lock |-> Rgbpp(Placeholder, 1),
                    data |-> ClusterData, capacity |-> c.capacity - fee]
  OBVIOUS
<1>3. /\ c \in cells /\ c \in Cell /\ c.lock = Rgbpp(u.tx, u.vout) /\ u.owner \in Owner
      /\ c.capacity \in Nat /\ Id("cluster", c, 0) \in AssetIds
  BY CellOfUtxo
<1>4. fee \in Nat /\ ClusterData \in Nat
  BY Sizes
<1>5. /\ o.asset = Id("cluster", c, 0) /\ o.lock = Rgbpp(Placeholder, 1)
      /\ o.data = ClusterData /\ o.capacity = c.capacity - fee /\ o.capacity \in Int
  BY <1>2, <1>3, <1>4
<1>6. PICK outputs : outputs = <<o>>
  OBVIOUS
<1>7. PICK tos : tos = <<u.owner>>
  OBVIOUS
<1>8. Built(u, c, outputs, tos, "none")
  BY <1>1, <1>2, <1>6, <1>7
<1>9. outputs[1] = o /\ Len(outputs) = 1 /\ DOMAIN outputs = {1}
  BY <1>6
<1>10. o.capacity \in Nat
  <2>1. o.capacity >= Occupied(o)
    BY <1>8, <1>9 DEF Built, CapacitySufficient
  <2>2. Occupied(o) \in Nat
    BY <1>4, <1>5, OccupiedBytes DEF Rgbpp
  <2> QED BY <1>5, <2>1, <2>2
<1>11. o \in Output
  <2>1. Rgbpp(Placeholder, 1) \in Locks
    BY DEF Rgbpp, Placeholder, Locks
  <2> QED BY <1>2, <1>3, <1>4, <1>5, <1>10, <2>1 DEF Output
<1>12. outputs \in Seq(Output) /\ tos \in Seq(Owner) /\ Len(tos) = 1
  BY <1>3, <1>6, <1>7, <1>11
<1>13. PICK tx : tx = [inputs |-> <<c>>, outputs |-> outputs, tos |-> tos]
  OBVIOUS
<1>14. tx.outputs = outputs /\ tx.tos = tos /\ Spent(tx) = c
  BY <1>13 DEF Spent
<1>15. AssetsOfCell(tx)
  BY <1>1, <1>5, <1>9, <1>14 DEF AssetsOfCell
<1>16. LocksInPlace(tx)
  BY <1>5, <1>9, <1>14 DEF LocksInPlace
<1>17. Sum(<<c>>) - Sum(outputs) \in Fees
  <2>1. Sum(<<c>>) = c.capacity /\ Sum(outputs) = c.capacity - fee
    BY <1>3, <1>5, <1>6, SumOfOne
  <2>2. Sum(<<c>>) - Sum(outputs) = fee
    BY <1>3, <1>4, <2>1
  <2> QED BY <2>2
<1>18. Offer(u, c, outputs, tos, "none")
  BY <1>3, <1>9, <1>12, <1>13, <1>15, <1>16, <1>17 DEF Offer
<1> QED BY <1>8, <1>18, BuiltPreserves

LEMMA CreateSporesPreserves ==
    ASSUME IInv, NEW u \in utxos, NEW receivers \in Receivers, CreateSpores(u, receivers) PROVE IInv'
<1>1. PICK c \in CellsOf(u) :
        /\ c.asset.kind = "cluster"
        /\ Built(u, c,
                 <<[asset |-> c.asset, lock |-> Rgbpp(Placeholder, 1), data |-> c.data,
                    capacity |-> c.capacity]>> \o SporeOutputs(c, receivers),
                 <<u.owner>> \o [i \in DOMAIN receivers |-> receivers[i].to], "issuer")
  BY DEF CreateSpores
<1>2. PICK o : o = [asset |-> c.asset, lock |-> Rgbpp(Placeholder, 1), data |-> c.data,
                    capacity |-> c.capacity]
  OBVIOUS
<1>3. /\ c \in cells /\ c \in Cell /\ c.lock = Rgbpp(u.tx, u.vout) /\ u.owner \in Owner
      /\ c.capacity \in Nat /\ c.data \in Nat
      /\ c.asset # Plain => c.asset \in AssetIds /\ c.asset.id[1] # c.out
      /\ \A i \in Nat : Id("spore", c, i) \in AssetIds
  BY CellOfUtxo
<1>4. c.asset # Plain
  BY <1>1 DEF Plain
<1>5. \A i \in Nat : Rgbpp(Placeholder, i) \in Locks
  BY DEF Rgbpp, Placeholder, Locks
<1>6. /\ o.asset = c.asset /\ o.lock = Rgbpp(Placeholder, 1) /\ o \in Output
  BY <1>2, <1>3, <1>4, <1>5 DEF Output
<1>7. PICK n \in Nat : receivers \in [1..n -> [to : Owner, data : Data]]
  <2>1. MaxSpores \in Nat
    BY SizeAssumption
  <2>2. PICK n \in 1..MaxSpores : receivers \in [1..n -> [to : Owner, data : Data]]
    BY Zenon DEF Receivers
  <2>3. n \in Nat
    BY <2>1
  <2> QED BY <2>2, <2>3
<1>8. \A i \in 1..n : receivers[i].to \in Owner /\ receivers[i].data \in Nat
  <2>1. Data \subseteq Nat
    BY SizeAssumption
  <2> QED BY <1>7, <2>1
<1>9. PICK s : s = SporeOutputs(c, receivers)
  OBVIOUS
<1>10. PICK q : q = [i \in DOMAIN receivers |-> receivers[i].to]
  OBVIOUS
<1>11. /\ DOMAIN s = 1..n
       /\ \A i \in 1..n :
            s[i] = [asset |-> Id("spore", c, i), lock |-> Rgbpp(Placeholder, SporeVout(i - 1)),
                    data |-> receivers[i].data,
                    capacity |-> calculateRgbppSporeCellCapacity(receivers[i].data)]
       /\ s = [i \in 1..n |-> s[i]]
  BY <1>7, <1>9 DEF SporeOutputs
<1>12. ASSUME NEW i \in 1..n
       PROVE  /\ s[i] \in Output /\ s[i].asset = Id("spore", c, i)
              /\ s[i].lock = Rgbpp(Placeholder, i + 1)
  <2>1. SporeVout(i - 1) = i + 1
    BY DEF SporeVout
  <2>2. calculateRgbppSporeCellCapacity(receivers[i].data) \in Nat
    BY <1>8, BytesOfLocks
  <2>3. Rgbpp(Placeholder, i + 1) \in Locks
    BY <1>5
  <2> QED BY <1>3, <1>8, <1>11, <2>1, <2>2, <2>3 DEF Output
<1>13. s \in Seq(Output) /\ Len(s) = n
  BY <1>11, <1>12
<1>14. q \in Seq(Owner) /\ Len(q) = n
  BY <1>7, <1>8, <1>10
<1>15. PICK outputs : outputs = <<o>> \o s
  OBVIOUS
<1>16. PICK tos : tos = <<u.owner>> \o q
  OBVIOUS
<1>17. /\ outputs \in Seq(Output) /\ Len(outputs) = 1 + n /\ DOMAIN outputs = 1..(1 + n)
       /\ outputs[1] = o /\ \A i \in 2..(1 + n) : outputs[i] = s[i - 1]
  BY <1>6, <1>13, <1>15
<1>18. tos \in Seq(Owner) /\ Len(tos) = 1 + n
  BY <1>3, <1>14, <1>16
<1>19. ASSUME NEW i \in 2..(1 + n)
       PROVE  outputs[i].asset = Id("spore", c, i - 1) /\ outputs[i].lock = Rgbpp(Placeholder, i)
  <2>1. i - 1 \in 1..n /\ (i - 1) + 1 = i
    OBVIOUS
  <2> QED BY <1>12, <1>17, <2>1
<1>20. PICK tx : tx = [inputs |-> <<c>>, outputs |-> outputs, tos |-> tos]
  OBVIOUS
<1>21. tx.outputs = outputs /\ tx.tos = tos /\ Spent(tx) = c
  BY <1>20 DEF Spent
<1>22. \A i \in DOMAIN outputs : i = 1 \/ i \in 2..(1 + n)
  BY <1>17
<1>23. AssetsOfCell(tx)
  <2>1. \A i \in DOMAIN outputs : i > 1 => i \in 2..(1 + n)
    BY <1>17
  <2> QED BY <1>3, <1>4, <1>6, <1>17, <1>19, <1>21, <2>1 DEF AssetsOfCell
<1>24. LocksInPlace(tx)
  BY <1>6, <1>17, <1>19, <1>21, <1>22 DEF LocksInPlace
<1>25. Offer(u, c, outputs, tos, "issuer")
  <2>1. Len(outputs) > 0 /\ Len(tos) = Len(outputs)
    BY <1>17, <1>18
  <2> QED BY <1>3, <1>17, <1>18, <1>20, <1>23, <1>24, <2>1 DEF Offer
<1>26. Built(u, c, outputs, tos, "issuer")
  BY <1>1, <1>2, <1>9, <1>10, <1>15, <1>16
<1> QED BY <1>25, <1>26, BuiltPreserves

LEMMA MoveSporePreserves ==
    ASSUME IInv, NEW u \in utxos, NEW fee \in Fees, NEW to \in Owner,
           NEW lock \in {Rgbpp(Placeholder, 1), BtcTime(Placeholder, to)}, MoveSpore(u, lock, fee, to)
    PROVE  IInv'
<1>1. PICK c \in SporeCells(u) :
        Built(u, c, <<PayerAndOutput(Moved(c, lock), fee)[2]>>, <<to>>,
              PayerAndOutput(Moved(c, lock), fee)[1])
  BY DEF MoveSpore
<1>2. PICK payer, o : PayerAndOutput(Moved(c, lock), fee) = <<payer, o>>
  BY DEF PayerAndOutput
<1>3. c \in CellsOf(u) /\ c.asset.kind = "spore"
  BY DEF SporeCells
<1>4. /\ c \in cells /\ c \in Cell /\ c.lock = Rgbpp(u.tx, u.vout) /\ c.lock.kind = "rgbpp"
      /\ c.capacity \in Nat /\ c.capacity >= Occupied(c)
      /\ c.asset # Plain => c.asset \in AssetIds /\ c.asset.id[1] # c.out
  BY <1>3, CellOfUtxo
<1>5. c.asset # Plain
  BY <1>3 DEF Plain
<1>6. lock \in Locks /\ lock.kind \in {"rgbpp", "time"}
  BY DEF Rgbpp, BtcTime, Placeholder, Locks
<1>7. /\ o \in Output /\ o.asset = c.asset /\ o.lock = lock
      /\ payer \in {"none", "paymaster"}
      /\ payer = "none" => c.capacity - o.capacity \in Fees
      /\ payer = "paymaster" => c.capacity + PaymasterCapacity > o.capacity + MinCapacity
  BY <1>2, <1>3, <1>4, <1>6, MovedOutput
<1>8. PICK outputs : outputs = <<o>>
  OBVIOUS
<1>9. PICK tos : tos = <<to>>
  OBVIOUS
<1>10. Built(u, c, outputs, tos, payer)
  <2>1. PayerAndOutput(Moved(c, lock), fee)[2] = o /\ PayerAndOutput(Moved(c, lock), fee)[1] = payer
    BY <1>2
  <2> QED BY <1>1, <1>8, <1>9, <2>1
<1>11. /\ outputs \in Seq(Output) /\ Len(outputs) = 1 /\ DOMAIN outputs = {1} /\ outputs[1] = o
       /\ tos \in Seq(Owner) /\ Len(tos) = 1 /\ tos[1] = to
  BY <1>7, <1>8, <1>9
<1>12. PICK tx : tx = [inputs |-> <<c>>, outputs |-> outputs, tos |-> tos]
  OBVIOUS
<1>13. tx.inputs = <<c>> /\ tx.outputs = outputs /\ tx.tos = tos /\ Spent(tx) = c
  BY <1>12 DEF Spent
<1>14. AssetsOfCell(tx)
  BY <1>4, <1>5, <1>7, <1>11, <1>13 DEF AssetsOfCell
<1>15. LocksInPlace(tx)
  BY <1>3, <1>7, <1>11, <1>13 DEF LocksInPlace
<1>16. Sum(<<c>>) = c.capacity /\ Sum(outputs) = o.capacity
  <2>1. o.capacity \in Int
    BY <1>7 DEF Output
  <2> QED BY <1>4, <1>8, <2>1, SumOfOne
<1>17. payer = "paymaster" => PaymasterCovers(tx)
  BY <1>7, <1>13, <1>16 DEF PaymasterCovers
<1>18. Offer(u, c, outputs, tos, payer)
  BY <1>4, <1>7, <1>11, <1>12, <1>14, <1>15, <1>16, <1>17 DEF Offer
<1> QED BY <1>10, <1>18, BuiltPreserves

-----------------------------------------------------------------------------
(* Bitcoin.                                                                *)

\* The new UTXOs of a transaction are its own, one for each output behind the commitment.
LEMMA NewUtxosOf ==
    ASSUME NEW tx, Formed(tx)
    PROVE  /\ \A u \in NewUtxos(tx) : u \in Utxos /\ u.tx = tx.number
           /\ \A u, v \in NewUtxos(tx) : u.vout = v.vout => u = v
           /\ \A i \in DOMAIN tx.outputs : tx.outputs[i].lock.kind = "rgbpp" =>
                [tx |-> tx.number, vout |-> i, owner |-> tx.tos[i]] \in NewUtxos(tx)
<1>1. PICK n \in Nat : n = Len(tx.outputs)
  BY FormedFields
<1>2. DOMAIN tx.outputs = 1..n /\ \A i \in 1..n : tx.tos[i] \in Owner
  BY <1>1, FormedFields
<1>3. tx.number \in Nat
  BY FormedFields
<1>4. PICK S : S = {i \in DOMAIN tx.outputs : tx.outputs[i].lock.kind = "rgbpp"}
  OBVIOUS
<1>5. PICK bound : bound = InOrder(S)
  OBVIOUS
<1>6. NewUtxos(tx) = {[tx |-> tx.number, vout |-> v, owner |-> tx.tos[bound[v]]] : v \in DOMAIN bound}
  BY <1>4, <1>5 DEF NewUtxos
<1>7. S \in SUBSET Nat /\ S \subseteq 1..n /\ IsFiniteSet(S)
  <2>1. S \subseteq 1..n /\ IsFiniteSet(1..n)
    BY <1>2, <1>4, FS_Interval
  <2>2. IsFiniteSet(S)
    BY <2>1, FS_Subset
  <2> QED BY <2>1, <2>2
<1>8. PICK m \in Nat : m = Cardinality(S)
  BY <1>7, FS_CardinalityType
<1>9. DOMAIN bound = 1..m /\ \A v \in 1..m : bound[v] \in 1..n
  <2>1. DOMAIN bound = 1..m
    BY <1>5, <1>8 DEF InOrder
  <2>2. \A v \in 1..m : bound[v] \in S
    BY <1>5, <1>7, <1>8, InOrderPlaces
  <2> QED BY <1>7, <2>1, <2>2
<1>10. \A u \in NewUtxos(tx) : \E v \in 1..m :
         u = [tx |-> tx.number, vout |-> v, owner |-> tx.tos[bound[v]]]
  BY <1>6, <1>9
<1>11. ASSUME NEW u \in NewUtxos(tx) PROVE u \in Utxos /\ u.tx = tx.number
  <2>1. PICK v \in 1..m : u = [tx |-> tx.number, vout |-> v, owner |-> tx.tos[bound[v]]]
    BY <1>10
  <2>2. tx.tos[bound[v]] \in Owner
    BY <1>2, <1>9
  <2> QED BY <1>3, <2>1, <2>2 DEF Utxos
<1>12. ASSUME NEW u \in NewUtxos(tx), NEW w \in NewUtxos(tx), u.vout = w.vout PROVE u = w
  <2>1. PICK v \in 1..m : u = [tx |-> tx.number, vout |-> v, owner |-> tx.tos[bound[v]]]
    BY <1>10
  <2>2. PICK x \in 1..m : w = [tx |-> tx.number, vout |-> x, owner |-> tx.tos[bound[x]]]
    BY <1>10
  <2>3. v = x
    BY <1>12, <2>1, <2>2
  <2> QED BY <2>1, <2>2, <2>3
<1>13. ASSUME NEW i \in DOMAIN tx.outputs, tx.outputs[i].lock.kind = "rgbpp"
       PROVE  [tx |-> tx.number, vout |-> i, owner |-> tx.tos[i]] \in NewUtxos(tx)
  <2>1. \A j \in 1..n : tx.outputs[j].lock.kind = "rgbpp"
    <3>1. \/ \A j \in DOMAIN tx.outputs : tx.outputs[j].lock = Rgbpp(Placeholder, j)
          \/ Len(tx.outputs) = 1
      BY DEF Formed, LocksInPlace
    <3>2. CASE \A j \in DOMAIN tx.outputs : tx.outputs[j].lock = Rgbpp(Placeholder, j)
      <4>1. \A j : Rgbpp(Placeholder, j).kind = "rgbpp"
        BY DEF Rgbpp
      <4>2. \A j \in 1..n : tx.outputs[j].lock = Rgbpp(Placeholder, j)
        BY <1>2, <3>2
      <4> QED BY <4>1, <4>2
    <3>3. CASE Len(tx.outputs) = 1
      <4>1. \A j \in 1..n : j = i
        BY <1>1, <1>2, <3>3
      <4> QED BY <1>13, <4>1
    <3> QED BY <3>1, <3>2, <3>3
  <2>2. S = 1..n
    BY <1>2, <1>4, <2>1
  <2>3. bound = [k \in 1..n |-> k]
    <3>1. PICK a \in Nat : a = 0
      OBVIOUS
    <3>2. (a + 1)..(a + n) = 1..n /\ [k \in 1..n |-> a + k] = [k \in 1..n |-> k]
      BY <3>1
    <3> QED BY <1>5, <2>2, <3>2, IntervalInOrder
  <2>4. i \in DOMAIN bound /\ bound[i] = i
    BY <1>2, <2>3
  <2> QED BY <1>6, <2>4
<1> QED BY <1>11, <1>12, <1>13

LEMMA FlyingFacts ==
    ASSUME IInv, NEW tx \in flying
    PROVE  /\ Formed(tx) /\ tx.number \in Nat /\ tx.number < number /\ ~Settled(tx.number)
           /\ Settled(tx.utxo.tx) /\ tx.utxo \in Utxos /\ tx.accepted \in BOOLEAN
           /\ \A t \in flying : t.number = tx.number => t = tx
           /\ tx.accepted => /\ NewUtxos(tx) \subseteq utxos
                             /\ \A u \in utxos : ~(u.tx = tx.utxo.tx /\ u.vout = tx.utxo.vout)
           /\ ~tx.accepted => /\ \A u \in utxos : u.tx # tx.number
                              /\ tx.utxo \in utxos => Spent(tx) \in cells
<1>1. Formed(tx)
  BY DEF IInv, UtxosInv
<1>2. tx.number \in Nat /\ tx.utxo \in Utxos /\ tx.accepted \in BOOLEAN
  BY <1>1, FormedFields
<1>3. ~Settled(tx.number)
  BY DEF Settled, Flying
<1>4. \A t \in flying : t.number = tx.number => t = tx
  BY DEF IInv, UtxosInv
<1>5. tx.number < number /\ Settled(tx.utxo.tx)
  BY DEF IInv, UtxosInv
<1>6. /\ tx.accepted => /\ NewUtxos(tx) \subseteq utxos
                        /\ \A u \in utxos : ~(u.tx = tx.utxo.tx /\ u.vout = tx.utxo.vout)
      /\ ~tx.accepted => /\ \A u \in utxos : u.tx # tx.number
                         /\ tx.utxo \in utxos => Spent(tx) \in cells
  BY DEF IInv, UtxosInv
<1> QED BY <1>1, <1>2, <1>3, <1>4, <1>5, <1>6

LEMMA AcceptedForm ==
    ASSUME NEW tx, Formed(tx)
    PROVE  LET t == [tx EXCEPT !.accepted = TRUE] IN
           /\ Formed(t) /\ t.accepted /\ t.number = tx.number /\ t.utxo = tx.utxo
           /\ t.inputs = tx.inputs /\ NewUtxos(t) = NewUtxos(tx)
<1>1. PICK t : t = [tx EXCEPT !.accepted = TRUE]
  OBVIOUS
<1>2. tx \in Flight
  BY DEF Formed
<1>3. /\ t \in Flight /\ t.number = tx.number /\ t.utxo = tx.utxo /\ t.inputs = tx.inputs
      /\ t.outputs = tx.outputs /\ t.tos = tx.tos /\ t.payer = tx.payer
      /\ t.committed = tx.committed /\ t.witnesses = tx.witnesses /\ t.accepted
  BY <1>1, <1>2 DEF Flight
<1>4. Spent(t) = Spent(tx)
  BY <1>3 DEF Spent
<1>5. /\ AssetsOfCell(t) <=> AssetsOfCell(tx)
      /\ LocksInPlace(t) <=> LocksInPlace(tx)
      /\ PaymasterCovers(t) <=> PaymasterCovers(tx)
      /\ NewUtxos(t) = NewUtxos(tx)
  BY <1>3, <1>4 DEF AssetsOfCell, LocksInPlace, PaymasterCovers, NewUtxos
<1>6. Formed(t)
  BY <1>3, <1>4, <1>5 DEF Formed
<1> QED BY <1>1, <1>3, <1>5, <1>6

LEMMA AcceptPreserves ==
    ASSUME IInv, NEW tx \in flying, ~tx.accepted, tx.utxo \in utxos,
           utxos' = (utxos \ {tx.utxo}) \cup NewUtxos(tx),
           flying' = (flying \ {tx}) \cup {[tx EXCEPT !.accepted = TRUE]},
           UNCHANGED <<cells, wanted, number>>
    PROVE  IInv'
<1>1. PICK t : t = [tx EXCEPT !.accepted = TRUE]
  OBVIOUS
<1>2. /\ Formed(tx) /\ tx.number \in Nat /\ tx.number < number /\ ~Settled(tx.number)
      /\ Settled(tx.utxo.tx) /\ tx.utxo \in Utxos
      /\ \A s \in flying : s.number = tx.number => s = tx
      /\ \A u \in utxos : u.tx # tx.number
      /\ Spent(tx) \in cells
  BY FlyingFacts
<1>3. /\ Formed(t) /\ t.accepted /\ t.number = tx.number /\ t.utxo = tx.utxo
      /\ t.inputs = tx.inputs /\ NewUtxos(t) = NewUtxos(tx)
  BY <1>1, <1>2, AcceptedForm
<1>4. /\ flying' = (flying \ {tx}) \cup {t} /\ cells' = cells /\ wanted' = wanted
      /\ number' = number
  BY <1>1
<1>5. /\ \A u \in NewUtxos(tx) : u \in Utxos /\ u.tx = tx.number
      /\ \A u, v \in NewUtxos(tx) : u.vout = v.vout => u = v
  BY <1>2, NewUtxosOf
<1>6. \A n : Settled(n)' <=> Settled(n)
  BY <1>3, <1>4 DEF Settled, Flying
<1>7. CellsInv'
  BY <1>4, <1>6 DEF IInv, CellsInv
<1>8. UtxosInv'
  <2>1. utxos' \subseteq Utxos /\ number' \in Nat /\ \A u \in utxos' : u.tx < number'
    BY <1>2, <1>4, <1>5 DEF IInv, UtxosInv
  <2>2. \A u, v \in utxos' : u.tx = v.tx /\ u.vout = v.vout => u = v
    BY <1>2, <1>5 DEF IInv, UtxosInv
  <2>3. ASSUME NEW s \in flying'
        PROVE  /\ Formed(s) /\ s.number < number' /\ Settled(s.utxo.tx)'
               /\ \A r \in flying' : r.number = s.number => r = s
    BY <1>2, <1>3, <1>4, <1>6, FlyingFacts
  <2>4. ASSUME NEW s \in flying', s.accepted
        PROVE  /\ NewUtxos(s) \subseteq utxos'
               /\ \A u \in utxos' : ~(u.tx = s.utxo.tx /\ u.vout = s.utxo.vout)
    <3>1. CASE s = t
      <4>1. NewUtxos(s) \subseteq utxos'
        BY <1>3, <3>1
      <4>2. ASSUME NEW u \in utxos', u.tx = s.utxo.tx, u.vout = s.utxo.vout PROVE FALSE
        <5>1. u.tx # tx.number
          BY <1>2, <1>3, <3>1, <4>2
        <5>2. u \in utxos /\ u # tx.utxo
          BY <1>5, <5>1
        <5> QED BY <1>3, <3>1, <4>2, <5>2 DEF IInv, UtxosInv
      <4> QED BY <4>1, <4>2
    <3>2. CASE s # t
      <4>1. s \in flying /\ s # tx
        BY <1>4, <3>2
      <4>2. /\ NewUtxos(s) \subseteq utxos /\ Formed(s) /\ ~Settled(s.number) /\ Settled(s.utxo.tx)
            /\ \A u \in utxos : ~(u.tx = s.utxo.tx /\ u.vout = s.utxo.vout)
        BY <2>4, <4>1, FlyingFacts
      <4>3. \A u \in NewUtxos(s) : u.tx = s.number
        BY <4>2, NewUtxosOf
      <4>4. NewUtxos(s) \subseteq utxos'
        BY <1>2, <4>2, <4>3
      <4>5. \A u \in NewUtxos(tx) : u.tx # s.utxo.tx
        BY <1>2, <1>5, <4>2
      <4> QED BY <4>2, <4>4, <4>5
    <3> QED BY <3>1, <3>2
  <2>5. ASSUME NEW s \in flying', ~s.accepted
        PROVE  /\ \A u \in utxos' : u.tx # s.number
               /\ s.utxo \in utxos' => Spent(s) \in cells'
    <3>1. s \in flying /\ s # tx
      BY <1>3, <1>4, <2>5
    <3>2. /\ s.number # tx.number /\ Settled(s.utxo.tx) /\ \A u \in utxos : u.tx # s.number
          /\ s.utxo \in utxos => Spent(s) \in cells
      BY <1>2, <2>5, <3>1, FlyingFacts
    <3>3. s.utxo \notin NewUtxos(tx)
      BY <1>2, <1>5, <3>2
    <3> QED BY <1>4, <1>5, <3>2, <3>3
  <2> QED BY <2>1, <2>2, <2>3, <2>4, <2>5 DEF UtxosInv
<1>9. OwnersInv'
  <2>1. ASSUME NEW c \in cells', c.lock.kind = "rgbpp"
        PROVE  \/ \E s \in flying' : s.accepted /\ s.inputs = <<c>>
               \/ \E u \in Bound(c)' : c.asset = Plain \/ <<c.asset, u.owner>> \in wanted'
    <3>1. c \in cells
      BY <1>4
    <3>2. CASE \E s \in flying : s.accepted /\ s.inputs = <<c>>
      BY <1>4, <3>2
    <3>3. CASE \E u \in Bound(c) : c.asset = Plain \/ <<c.asset, u.owner>> \in wanted
      <4>1. PICK u \in utxos : /\ c.lock = Rgbpp(u.tx, u.vout)
                               /\ c.asset = Plain \/ <<c.asset, u.owner>> \in wanted
        BY <3>3 DEF Bound
      <4>2. CASE u = tx.utxo
        <5>1. Spent(tx).lock = Rgbpp(u.tx, u.vout) /\ tx.inputs = <<Spent(tx)>>
          BY <1>2, <4>2, FormedFields DEF Formed
        <5>2. Spent(tx) = c
          BY <1>2, <2>1, <3>1, <4>1, <5>1 DEF IInv, CellsInv
        <5> QED BY <1>3, <1>4, <5>1, <5>2
      <4>3. CASE u # tx.utxo
        BY <1>4, <4>1, <4>3 DEF Bound
      <4> QED BY <4>2, <4>3
    <3> QED BY <2>1, <3>1, <3>2, <3>3 DEF IInv, OwnersInv
  <2> QED BY <1>4, <2>1 DEF IInv, OwnersInv
<1> QED BY <1>7, <1>8, <1>9 DEF IInv

LEMMA DropPreserves ==
    ASSUME IInv, NEW tx \in flying, ~tx.accepted, flying' = flying \ {tx},
           UNCHANGED <<cells, utxos, wanted, number>>
    PROVE  IInv'
<1>1. flying' = flying \ {tx} /\ cells' = cells /\ wanted' = wanted /\ number' = number
      /\ utxos' = utxos
  OBVIOUS
<1>2. \A n : Settled(n) => Settled(n)'
  BY <1>1 DEF Settled, Flying
<1>3. CellsInv'
  BY <1>1, <1>2 DEF IInv, CellsInv
<1>4. UtxosInv'
  <2>1. \A s \in flying' : s \in flying
    BY <1>1
  <2> QED BY <1>1, <1>2, <2>1 DEF IInv, UtxosInv
<1>5. OwnersInv'
  <2>1. \A s \in flying : s.accepted => s \in flying'
    BY <1>1
  <2> QED BY <1>1, <2>1 DEF IInv, OwnersInv, Bound
<1> QED BY <1>3, <1>4, <1>5 DEF IInv

LEMMA BroadcastPreserves ==
    ASSUME IInv, NEW tx \in flying, Broadcast(tx) PROVE IInv'
<1>1. CASE tx.utxo \in utxos
  BY <1>1, AcceptPreserves DEF Broadcast
<1>2. CASE tx.utxo \notin utxos
  BY <1>2, DropPreserves DEF Broadcast
<1> QED BY <1>1, <1>2

-----------------------------------------------------------------------------
(* CKB.                                                                    *)

\* The cells of transaction n, in the place of those that are gone.
Fresh(new, gone, n) ==
    /\ new \subseteq Cell /\ IsFiniteSet(new)
    /\ \A c \in new :
        /\ c.out[1] = n
        /\ c.lock.kind = "rgbpp" =>
            c.lock.tx = n \/ (Settled(c.lock.tx) /\ \A d \in cells : d.lock # c.lock)
        /\ c.asset # Plain /\ Settled(c.asset.id[1][1])
        /\ c.lock.kind # "rgbpp" => c.asset.kind = "spore"
        /\ c.lock.kind = "time" => c.out[2] = 1
        /\ c.capacity >= Occupied(c)
        /\ c.lock.kind = "ckb" => c.capacity >= Unit * Bytes("time", c.data)
        /\ \A d \in cells \ gone : d.asset # c.asset /\ c.asset.id[1] # d.out
    /\ \A c, d \in new :
        /\ c.out = d.out => c = d
        /\ c.asset = d.asset => c = d
        /\ c.lock = d.lock /\ c.lock.kind = "rgbpp" => c = d

LEMMA ReplacedCells ==
    ASSUME CellsInv, NEW new, NEW gone, NEW n, Fresh(new, gone, n), cells' = (cells \ gone) \cup new,
           ~Settled(n), Settled(n)', \A m : Settled(m) => Settled(m)'
    PROVE  CellsInv'
<1>1. cells' \subseteq Cell /\ IsFiniteSet(cells')
  <2>1. IsFiniteSet(cells \ gone) /\ IsFiniteSet(new)
    BY FS_Subset DEF CellsInv, Fresh
  <2>2. IsFiniteSet(cells')
    BY <2>1, FS_Union
  <2> QED BY <2>2 DEF CellsInv, Fresh
<1>2. ASSUME NEW c \in cells'
      PROVE  /\ Settled(c.out[1])'
             /\ c.lock.kind = "rgbpp" => Settled(c.lock.tx)'
             /\ c.asset # Plain => Settled(c.asset.id[1][1])'
             /\ c.lock.kind # "rgbpp" => c.asset.kind = "spore"
             /\ c.lock.kind = "time" => c.out[2] = 1
             /\ c.capacity >= Occupied(c)
             /\ c.lock.kind = "ckb" => c.capacity >= Unit * Bytes("time", c.data)
  <2>1. CASE c \in cells
    BY <2>1 DEF CellsInv
  <2>2. CASE c \in new
    BY <2>2 DEF Fresh
  <2> QED BY <2>1, <2>2
<1>3. ASSUME NEW c \in cells', NEW d \in cells'
      PROVE  /\ c.out = d.out => c = d
             /\ c.asset = d.asset /\ c.asset # Plain => c = d
             /\ c.lock = d.lock /\ c.lock.kind = "rgbpp" => c = d
             /\ c.asset # Plain => c.asset.id[1] # d.out
  <2>1. CASE c \in cells /\ d \in cells
    BY <2>1 DEF CellsInv
  <2>2. ASSUME NEW a \in new, NEW b \in cells \ gone
        PROVE  /\ a.out # b.out /\ a.asset # b.asset
               /\ a.lock.kind = "rgbpp" => a.lock # b.lock
               /\ a.asset.id[1] # b.out
               /\ b.asset # Plain => b.asset.id[1] # a.out
    <3>1. a.out[1] = n /\ Settled(b.out[1])
      BY DEF Fresh, CellsInv
    <3>2. b.asset # Plain => Settled(b.asset.id[1][1])
      BY DEF CellsInv
    <3>3. b.lock.kind = "rgbpp" => Settled(b.lock.tx)
      BY DEF CellsInv
    <3>4. a.lock.kind = "rgbpp" => a.lock # b.lock
      BY <3>3 DEF Fresh
    <3> QED BY <3>1, <3>2, <3>4 DEF Fresh
  <2>3. CASE c \in new /\ d \in new
    <3>1. c.asset.id[1] # d.out
      BY <2>3 DEF Fresh
    <3> QED BY <2>3, <3>1 DEF Fresh
  <2> QED BY <2>1, <2>2, <2>3
<1> QED BY <1>1, <1>2, <1>3 DEF CellsInv

\* What completion adds to CKB.
NewCells(tx) ==
    {[out |-> <<tx.number, i>>, asset |-> WithRealBtcTxId(tx)[i].asset,
      lock |-> WithRealBtcTxId(tx)[i].lock, data |-> WithRealBtcTxId(tx)[i].data,
      capacity |-> WithRealBtcTxId(tx)[i].capacity] : i \in DOMAIN tx.outputs}

LEMMA CompletedCells ==
    ASSUME CellsInv, NEW tx, Formed(tx), Spent(tx) \in cells, NEW fee \in Fees,
           NEW done \in Completed(tx, fee)
    PROVE  /\ (cells \ ToSet(done.inputs)) \cup CellsAt(tx.number, done.outputs)
                  = (cells \ {Spent(tx)}) \cup NewCells(tx)
           /\ \A i \in DOMAIN tx.outputs :
                i \in DOMAIN done.outputs /\ done.outputs[i].asset = tx.outputs[i].asset
           /\ \A i \in DOMAIN done.outputs : i \notin DOMAIN tx.outputs => done.outputs[i].asset = Plain
<1>1. Shaped(tx, done)
  BY CompletedShape
<1>2. \A c \in cells : c \notin PayCell
  <2>1. \A x \in PayCell : x.lock.kind = "ckb" /\ x.asset = Plain
    BY DEF PayCell, Ckb
  <2>2. \A c \in cells : c.lock.kind # "rgbpp" => c.asset.kind = "spore"
    BY DEF CellsInv
  <2>3. Plain.kind # "spore"
    BY DEF Plain
  <2> QED BY <2>1, <2>2, <2>3
<1>3. cells \ ToSet(done.inputs) = cells \ {Spent(tx)}
  BY <1>1, <1>2 DEF Shaped
<1>4. {j \in DOMAIN done.outputs : done.outputs[j].asset # Plain} = DOMAIN tx.outputs
  BY <1>1 DEF Shaped
<1>5. \A i \in DOMAIN tx.outputs : done.outputs[i] = WithRealBtcTxId(tx)[i]
  BY <1>1 DEF Shaped
<1>6. CellsAt(tx.number, done.outputs) = NewCells(tx)
  BY <1>4, <1>5 DEF CellsAt, NewCells
<1>7. \A i \in DOMAIN tx.outputs : WithRealBtcTxId(tx)[i].asset = tx.outputs[i].asset
  BY RealOutputs
<1> QED BY <1>1, <1>3, <1>5, <1>6, <1>7 DEF Shaped

\* The assets that a transaction makes are new: only its own cell has one of them.
LEMMA NewAssets ==
    ASSUME CellsInv, NEW tx, Formed(tx), Spent(tx) \in cells, NEW i \in DOMAIN tx.outputs
    PROVE  /\ tx.outputs[i].asset \in AssetIds /\ tx.outputs[i].asset # Plain
           /\ Settled(tx.outputs[i].asset.id[1][1])
           /\ \A d \in cells \ {Spent(tx)} :
                d.asset # tx.outputs[i].asset /\ tx.outputs[i].asset.id[1] # d.out
           /\ \A j \in DOMAIN tx.outputs : tx.outputs[i].asset = tx.outputs[j].asset => i = j
<1>1. PICK c \in cells : c = Spent(tx)
  OBVIOUS
<1>2. c \in Cell /\ Settled(c.out[1]) /\ (c.asset # Plain => Settled(c.asset.id[1][1]))
  BY DEF CellsInv
<1>3. PICK n \in Nat : n = Len(tx.outputs) /\ DOMAIN tx.outputs = 1..n
  BY FormedFields
<1>4. \A j \in 1..n : tx.outputs[j] \in Output
  BY <1>3, FormedFields
<1>5. \A o \in Output : o.asset \in AssetIds /\ o.asset # Plain
  BY DEF Output, AssetIds, Plain
<1>6. \A j \in 1..n : tx.outputs[j].asset \in AssetIds /\ tx.outputs[j].asset # Plain
  BY <1>4, <1>5
<1>7. \A j : Id("spore", c, j).id = <<c.out, j>> /\ Id("cluster", c, j).id = <<c.out, j>>
  BY DEF Id
<1>8. \A j \in 1..n : j > 1 => tx.outputs[j].asset = Id("spore", c, j - 1)
  BY <1>1, <1>3 DEF Formed, AssetsOfCell
<1>9. IF c.asset = Plain
      THEN tx.outputs[1].asset = Id("cluster", c, 0) /\ n = 1
      ELSE tx.outputs[1].asset = c.asset /\ c.asset.id[1] # c.out
  BY <1>1, <1>3 DEF Formed, AssetsOfCell
<1>10. \A d \in cells \ {c} : d.out # c.out /\ (d.asset # Plain => d.asset.id[1] # c.out)
  BY DEF CellsInv
<1>11. CASE i > 1 \/ c.asset = Plain
  <2>1. PICK j, kind : tx.outputs[i].asset = Id(kind, c, j) /\ kind \in {"cluster", "spore"}
    <3>1. CASE i > 1
      BY <1>3, <1>8, <3>1
    <3>2. CASE c.asset = Plain
      BY <1>3, <1>9, <3>2
    <3> QED BY <1>11, <3>1, <3>2
  <2>2. tx.outputs[i].asset.id[1] = c.out
    BY <1>7, <2>1
  <2>3. ASSUME NEW d \in cells \ {c}
        PROVE  d.asset # tx.outputs[i].asset /\ tx.outputs[i].asset.id[1] # d.out
    BY <1>3, <1>6, <1>10, <2>2
  <2>4. ASSUME NEW j2 \in 1..n, tx.outputs[i].asset = tx.outputs[j2].asset PROVE i = j2
    <3>1. CASE c.asset = Plain
      <4>1. n = 1 /\ i \in 1..n
        BY <1>3, <1>9, <3>1
      <4> QED BY <4>1
    <3>2. CASE c.asset # Plain
      <4>1. i > 1 /\ j2 # 1
        BY <1>9, <1>11, <2>2, <2>4, <3>2
      <4>2. tx.outputs[i].asset = Id("spore", c, i - 1) /\ tx.outputs[j2].asset = Id("spore", c, j2 - 1)
        BY <1>3, <1>8, <4>1
      <4>3. <<c.out, i - 1>> = <<c.out, j2 - 1>>
        BY <1>7, <2>4, <4>2
      <4>4. i - 1 = j2 - 1
        BY <4>3
      <4> QED BY <1>3, <4>4
    <3> QED BY <3>1, <3>2
  <2> QED BY <1>1, <1>2, <1>3, <1>6, <2>2, <2>3, <2>4
<1>12. CASE ~(i > 1) /\ c.asset # Plain
  <2>1. i = 1 /\ tx.outputs[i].asset = c.asset /\ c.asset.id[1] # c.out
    BY <1>3, <1>9, <1>12
  <2>2. ASSUME NEW d \in cells \ {c}
        PROVE  d.asset # tx.outputs[i].asset /\ tx.outputs[i].asset.id[1] # d.out
    BY <1>12, <2>1 DEF CellsInv
  <2>3. ASSUME NEW j \in 1..n, tx.outputs[i].asset = tx.outputs[j].asset PROVE i = j
    <3>1. j # 1 => tx.outputs[j].asset = Id("spore", c, j - 1)
      BY <1>8
    <3>2. j # 1 => tx.outputs[j].asset.id[1] = c.out
      BY <1>7, <3>1
    <3> QED BY <2>1, <2>3, <3>2
  <2> QED BY <1>1, <1>2, <1>3, <1>6, <1>12, <2>1, <2>2, <2>3
<1> QED BY <1>11, <1>12

LEMMA NewCellsFresh ==
    ASSUME CellsInv, UtxosInv, NEW tx \in flying, Spent(tx) \in cells
    PROVE  Fresh(NewCells(tx), {Spent(tx)}, tx.number)
<1>1. Formed(tx)
  BY DEF UtxosInv
<1>2. PICK real : real = WithRealBtcTxId(tx)
  OBVIOUS
<1>3. PICK n \in Nat : n = Len(tx.outputs) /\ DOMAIN tx.outputs = 1..n
  BY <1>1, FormedFields
<1>4. tx.number \in Nat /\ \A i \in 1..n : tx.outputs[i] \in Output /\ tx.tos[i] \in Owner
  BY <1>1, <1>3, FormedFields
<1>5. ASSUME NEW i \in 1..n
      PROVE  /\ real[i] \in Output /\ real[i].asset = tx.outputs[i].asset
             /\ real[i].lock = Rgbpp(tx.number, i)
                \/ (real[i].lock = BtcTime(tx.number, tx.tos[i]) /\ i = 1 /\ real[i].asset.kind = "spore")
             /\ real[i].capacity >= Occupied(real[i])
  <2>1. /\ real \in Seq(Output) /\ Len(real) = n
        /\ real[i].asset = tx.outputs[i].asset /\ real[i].capacity = tx.outputs[i].capacity
        /\ Occupied(real[i]) = Occupied(tx.outputs[i])
        /\ real[i].lock = IF tx.outputs[i].lock.kind = "rgbpp" THEN Rgbpp(tx.number, i)
                          ELSE BtcTime(tx.number, tx.tos[i])
        /\ real[i].lock.kind = "rgbpp"
           \/ (real[i].lock.kind = "time" /\ i = 1 /\ real[i].asset.kind = "spore")
    BY <1>1, <1>2, <1>3, RealOutputs
  <2>2. tx.outputs[i].capacity >= Occupied(tx.outputs[i])
    BY <1>1, <1>3 DEF Formed, CapacitySufficient
  <2>3. real[i] \in Output
    BY <2>1
  <2>4. BtcTime(tx.number, tx.tos[i]).kind = "time"
    BY DEF BtcTime
  <2> QED BY <2>1, <2>2, <2>3, <2>4
<1>6. \A a, b : Rgbpp(a, b).kind = "rgbpp" /\ Rgbpp(a, b).tx = a /\ Rgbpp(a, b).vout = b
                /\ BtcTime(a, b).kind = "time" /\ BtcTime(a, b).tx = a
  BY DEF Rgbpp, BtcTime
<1> DEFINE At(i) == [out |-> <<tx.number, i>>, asset |-> real[i].asset, lock |-> real[i].lock,
                     data |-> real[i].data, capacity |-> real[i].capacity]
<1>7. NewCells(tx) = {At(i) : i \in 1..n}
  BY <1>2, <1>3 DEF NewCells
<1>8. ASSUME NEW i \in 1..n
      PROVE  /\ At(i) \in Cell /\ At(i).out = <<tx.number, i>> /\ At(i).asset = tx.outputs[i].asset
             /\ At(i).lock = real[i].lock /\ At(i).capacity = real[i].capacity
             /\ Occupied(At(i)) = Occupied(real[i])
  <2>1. /\ real[i].asset \in AssetIds /\ real[i].lock \in Locks /\ real[i].data \in Nat
        /\ real[i].capacity \in Nat
    BY <1>5 DEF Output
  <2>2. <<tx.number, i>> \in Nat \X Nat
    BY <1>4
  <2>3. At(i) \in Cell
    BY <2>1, <2>2 DEF Cell
  <2>4. Occupied(At(i)) = Occupied(real[i])
    BY DEF Occupied
  <2> QED BY <1>5, <2>3, <2>4
<1>9. ASSUME NEW i \in 1..n
      PROVE  /\ At(i).out[1] = tx.number /\ At(i).out[2] = i
             /\ At(i).lock.kind = "rgbpp" => At(i).lock.tx = tx.number /\ At(i).lock.vout = i
             /\ At(i).lock.kind # "rgbpp" => At(i).lock.kind = "time" /\ i = 1
                                             /\ At(i).asset.kind = "spore"
             /\ At(i).lock.kind # "ckb"
             /\ At(i).capacity >= Occupied(At(i))
  <2>1. CASE real[i].lock = Rgbpp(tx.number, i)
    BY <1>5, <1>6, <1>8, <2>1
  <2>2. CASE real[i].lock = BtcTime(tx.number, tx.tos[i]) /\ i = 1 /\ real[i].asset.kind = "spore"
    BY <1>5, <1>6, <1>8, <2>2
  <2> QED BY <1>5, <2>1, <2>2
<1>10. ASSUME NEW i \in 1..n
       PROVE  /\ At(i).asset # Plain /\ Settled(At(i).asset.id[1][1])
              /\ \A d \in cells \ {Spent(tx)} : d.asset # At(i).asset /\ At(i).asset.id[1] # d.out
              /\ \A j \in 1..n : At(i).asset = At(j).asset => i = j
  <2>1. /\ tx.outputs[i].asset # Plain /\ Settled(tx.outputs[i].asset.id[1][1])
        /\ \A d \in cells \ {Spent(tx)} :
             d.asset # tx.outputs[i].asset /\ tx.outputs[i].asset.id[1] # d.out
        /\ \A j \in 1..n : tx.outputs[i].asset = tx.outputs[j].asset => i = j
    BY <1>1, <1>3, NewAssets
  <2>2. \A j \in 1..n : At(j).asset = tx.outputs[j].asset
    BY <1>8
  <2> HIDE DEF At
  <2> QED BY <2>1, <2>2
<1> HIDE DEF At
<1>11. IsFiniteSet(NewCells(tx))
  <2> DEFINE f == [i \in 1..n |-> At(i)]
  <2>1. f \in Surjection(1..n, NewCells(tx))
    BY <1>7 DEF Surjection
  <2>2. IsFiniteSet(1..n)
    BY FS_Interval
  <2> HIDE DEF f
  <2> QED BY <2>1, <2>2, FS_Surjection
<1>12. NewCells(tx) \subseteq Cell
  BY <1>7, <1>8
<1>13. ASSUME NEW c \in NewCells(tx)
       PROVE  /\ c.out[1] = tx.number
              /\ c.lock.kind = "rgbpp" => c.lock.tx = tx.number
              /\ c.asset # Plain /\ Settled(c.asset.id[1][1])
              /\ c.lock.kind # "rgbpp" => c.asset.kind = "spore"
              /\ c.lock.kind = "time" => c.out[2] = 1
              /\ c.capacity >= Occupied(c)
              /\ c.lock.kind # "ckb"
              /\ \A d \in cells \ {Spent(tx)} : d.asset # c.asset /\ c.asset.id[1] # d.out
  <2>1. PICK i \in 1..n : c = At(i)
    BY <1>7
  <2>2. c.lock.kind = "time" => c.lock.kind # "rgbpp"
    OBVIOUS
  <2> QED BY <1>9, <1>10, <2>1, <2>2
<1>14. ASSUME NEW c \in NewCells(tx), NEW d \in NewCells(tx)
       PROVE  /\ c.out = d.out => c = d
              /\ c.asset = d.asset => c = d
              /\ c.lock = d.lock /\ c.lock.kind = "rgbpp" => c = d
  <2>1. PICK i \in 1..n : c = At(i)
    BY <1>7
  <2>2. PICK j \in 1..n : d = At(j)
    BY <1>7
  <2>3. c.out = d.out => i = j
    BY <1>9, <2>1, <2>2
  <2>4. c.asset = d.asset => i = j
    BY <1>10, <2>1, <2>2
  <2>5. c.lock = d.lock /\ c.lock.kind = "rgbpp" => i = j
    BY <1>9, <2>1, <2>2
  <2> QED BY <2>1, <2>2, <2>3, <2>4, <2>5
<1> QED BY <1>11, <1>12, <1>13, <1>14 DEF Fresh

LEMMA CompletePreserves ==
    ASSUME IInv, NEW tx \in flying, NEW fee \in Fees, Complete(tx, fee) PROVE IInv'
<1>1. tx.accepted /\ ToSet(tx.inputs) \subseteq cells /\ flying' = flying \ {tx}
      /\ utxos' = utxos /\ number' = number
  BY DEF Complete
<1>2. PICK done \in Completed(tx, fee) :
        /\ cells' = (cells \ ToSet(done.inputs)) \cup CellsAt(tx.number, done.outputs)
        /\ wanted' = {w \in wanted : \A i \in DOMAIN done.outputs : done.outputs[i].asset # w[1]}
                     \cup {<<done.outputs[i].asset, tx.tos[i]>> : i \in DOMAIN tx.tos}
  BY DEF Complete
<1>3. /\ Formed(tx) /\ tx.number \in Nat /\ tx.number < number /\ ~Settled(tx.number)
      /\ \A t \in flying : t.number = tx.number => t = tx
      /\ NewUtxos(tx) \subseteq utxos
      /\ \A u \in utxos : ~(u.tx = tx.utxo.tx /\ u.vout = tx.utxo.vout)
  BY <1>1, FlyingFacts
<1>4. PICK c0 : c0 = Spent(tx)
  OBVIOUS
<1>5. c0 \in cells /\ tx.inputs = <<c0>> /\ c0.lock = Rgbpp(tx.utxo.tx, tx.utxo.vout)
  <2>1. tx.inputs = <<c0>>
    BY <1>3, <1>4, FormedFields
  <2>2. c0 \in ToSet(tx.inputs)
    BY <2>1 DEF ToSet
  <2> QED BY <1>1, <1>3, <1>4, <2>1, <2>2 DEF Formed
<1>6. CellsInv /\ UtxosInv /\ OwnersInv
  BY DEF IInv
<1>7. /\ cells' = (cells \ {c0}) \cup NewCells(tx)
      /\ \A i \in DOMAIN tx.outputs :
           i \in DOMAIN done.outputs /\ done.outputs[i].asset = tx.outputs[i].asset
      /\ \A i \in DOMAIN done.outputs : i \notin DOMAIN tx.outputs => done.outputs[i].asset = Plain
  BY <1>2, <1>3, <1>4, <1>5, <1>6, CompletedCells
<1>8. PICK n \in Nat : n = Len(tx.outputs) /\ DOMAIN tx.outputs = 1..n /\ DOMAIN tx.tos = 1..n
  BY <1>3, FormedFields
<1>9. wanted' = {w \in wanted : \A i \in 1..n : tx.outputs[i].asset # w[1]}
                \cup {<<tx.outputs[i].asset, tx.tos[i]>> : i \in 1..n}
  <2>1. \A w \in wanted : w[1] # Plain
    <3>1. \A a \in AssetIds : a # Plain
      BY DEF AssetIds, Plain
    <3> QED BY <1>6, <3>1 DEF OwnersInv
  <2>2. \A w \in wanted : (\A i \in DOMAIN done.outputs : done.outputs[i].asset # w[1])
                          <=> \A i \in 1..n : tx.outputs[i].asset # w[1]
    BY <1>7, <1>8, <2>1
  <2>3. {<<done.outputs[i].asset, tx.tos[i]>> : i \in DOMAIN tx.tos}
          = {<<tx.outputs[i].asset, tx.tos[i]>> : i \in 1..n}
    BY <1>7, <1>8
  <2> QED BY <1>2, <2>2, <2>3
<1>10. \A m : Settled(m) => Settled(m)'
  BY <1>1 DEF Settled, Flying
<1>11. Settled(tx.number)'
  BY <1>1, <1>3 DEF Settled, Flying
<1>12. CellsInv'
  <2>1. Fresh(NewCells(tx), {c0}, tx.number)
    BY <1>4, <1>5, <1>6, NewCellsFresh
  <2> QED BY <1>3, <1>6, <1>7, <1>10, <1>11, <2>1, ReplacedCells
<1>13. UtxosInv'
  <2>1. \A t \in flying' : t \in flying
    BY <1>1
  <2>2. ASSUME NEW t \in flying', ~t.accepted, t.utxo \in utxos PROVE Spent(t) \in cells'
    <3>1. Spent(t) \in cells /\ Spent(t).lock = Rgbpp(t.utxo.tx, t.utxo.vout)
      BY <2>1, <2>2, FlyingFacts DEF Formed
    <3>2. Spent(t) # c0
      <4>1. SUFFICES ASSUME Spent(t) = c0 PROVE FALSE
        OBVIOUS
      <4>2. Rgbpp(t.utxo.tx, t.utxo.vout) = Rgbpp(tx.utxo.tx, tx.utxo.vout)
        BY <1>5, <3>1, <4>1
      <4>3. t.utxo.tx = tx.utxo.tx /\ t.utxo.vout = tx.utxo.vout
        BY <4>2 DEF Rgbpp
      <4> QED BY <1>3, <2>2, <4>3
    <3> QED BY <1>7, <3>1, <3>2
  <2> QED BY <1>1, <1>6, <1>10, <2>1, <2>2 DEF UtxosInv
<1>14. ASSUME NEW i \in 1..n
       PROVE  /\ tx.outputs[i].asset \in AssetIds /\ tx.tos[i] \in Owner
              /\ \A d \in cells \ {c0} : d.asset # tx.outputs[i].asset
              /\ \E c \in NewCells(tx) : c.asset = tx.outputs[i].asset
              /\ <<tx.outputs[i].asset, tx.tos[i]>> \in wanted'
  <2>1. tx.outputs[i].asset \in AssetIds /\ tx.tos[i] \in Owner
    BY <1>3, <1>4, <1>5, <1>6, <1>8, NewAssets, FormedFields
  <2>2. \A d \in cells \ {c0} : d.asset # tx.outputs[i].asset
    BY <1>3, <1>4, <1>5, <1>6, <1>8, NewAssets
  <2>3. WithRealBtcTxId(tx)[i].asset = tx.outputs[i].asset
    BY <1>3, <1>8, RealOutputs
  <2>4. \E c \in NewCells(tx) : c.asset = tx.outputs[i].asset
    <3>1. PICK c : c = [out |-> <<tx.number, i>>, asset |-> WithRealBtcTxId(tx)[i].asset,
                        lock |-> WithRealBtcTxId(tx)[i].lock, data |-> WithRealBtcTxId(tx)[i].data,
                        capacity |-> WithRealBtcTxId(tx)[i].capacity]
      OBVIOUS
    <3>2. c \in NewCells(tx)
      BY <1>8, <3>1 DEF NewCells
    <3>3. c.asset = tx.outputs[i].asset
      BY <2>3, <3>1
    <3> QED BY <3>2, <3>3
  <2>5. <<tx.outputs[i].asset, tx.tos[i]>> \in wanted'
    BY <1>9
  <2> QED BY <2>1, <2>2, <2>4, <2>5
<1>15. ASSUME NEW c \in cells \ {c0}, NEW w \in wanted, w[1] = c.asset PROVE w \in wanted'
  <2>1. ASSUME NEW i \in 1..n PROVE tx.outputs[i].asset # w[1]
    <3>1. \A d \in cells \ {c0} : d.asset # tx.outputs[i].asset
      BY <1>14
    <3> QED BY <1>15, <3>1
  <2> QED BY <1>9, <1>15, <2>1
<1>16. OwnersInv'
  <2>1. wanted' \subseteq AssetIds \X Owner
    BY <1>6, <1>9, <1>14 DEF OwnersInv
  <2>2. ASSUME NEW w \in wanted' PROVE \E c \in cells' : c.asset = w[1]
    <3>1. CASE \E i \in 1..n : w = <<tx.outputs[i].asset, tx.tos[i]>>
      BY <1>7, <1>14, <3>1
    <3>2. CASE w \in wanted /\ \A i \in 1..n : tx.outputs[i].asset # w[1]
      <4>1. PICK c \in cells : c.asset = w[1]
        BY <1>6, <3>2 DEF OwnersInv
      <4>2. c # c0
        <5>1. w[1] # Plain
          <6>1. w[1] \in AssetIds
            BY <1>6, <3>2 DEF OwnersInv
          <6> QED BY <6>1 DEF AssetIds, Plain
        <5>2. c0.asset # Plain => tx.outputs[1].asset = c0.asset /\ 1 \in 1..n
          BY <1>3, <1>4, <1>8 DEF Formed, AssetsOfCell
        <5> QED BY <3>2, <4>1, <5>1, <5>2
      <4> QED BY <1>7, <4>1, <4>2
    <3> QED BY <1>9, <3>1, <3>2
  <2>3. ASSUME NEW c \in NewCells(tx)
        PROVE  /\ c.lock.kind = "rgbpp" =>
                    \E u \in utxos' : c.lock = Rgbpp(u.tx, u.vout) /\ <<c.asset, u.owner>> \in wanted'
               /\ c.lock.kind \in {"time", "ckb"} => <<c.asset, c.lock.to>> \in wanted'
    <3>1. PICK i \in 1..n :
            c = [out |-> <<tx.number, i>>, asset |-> WithRealBtcTxId(tx)[i].asset,
                 lock |-> WithRealBtcTxId(tx)[i].lock, data |-> WithRealBtcTxId(tx)[i].data,
                 capacity |-> WithRealBtcTxId(tx)[i].capacity]
      BY <1>8 DEF NewCells
    <3>2. /\ c.asset = tx.outputs[i].asset
          /\ c.lock = IF tx.outputs[i].lock.kind = "rgbpp" THEN Rgbpp(tx.number, i)
                      ELSE BtcTime(tx.number, tx.tos[i])
          /\ c.lock.kind = tx.outputs[i].lock.kind
      BY <1>3, <1>8, <3>1, RealOutputs
    <3>3. CASE tx.outputs[i].lock.kind = "rgbpp"
      <4>1. PICK u : u = [tx |-> tx.number, vout |-> i, owner |-> tx.tos[i]]
        OBVIOUS
      <4>2. u \in NewUtxos(tx)
        BY <1>3, <1>8, <3>3, <4>1, NewUtxosOf
      <4>3. u.tx = tx.number /\ u.vout = i /\ u.owner = tx.tos[i]
        BY <4>1
      <4> QED BY <1>1, <1>3, <1>14, <3>2, <3>3, <4>2, <4>3
    <3>4. CASE tx.outputs[i].lock.kind # "rgbpp"
      <4>1. c.lock.to = tx.tos[i]
        BY <3>2, <3>4 DEF BtcTime
      <4> QED BY <1>14, <3>2, <3>4, <4>1
    <3> QED BY <3>3, <3>4
  <2>4. ASSUME NEW c \in cells \ {c0}
        PROVE  /\ c.lock.kind = "rgbpp" =>
                    \/ \E t \in flying' : t.accepted /\ t.inputs = <<c>>
                    \/ \E u \in utxos' : /\ c.lock = Rgbpp(u.tx, u.vout)
                                         /\ c.asset = Plain \/ <<c.asset, u.owner>> \in wanted'
               /\ c.lock.kind \in {"time", "ckb"} => <<c.asset, c.lock.to>> \in wanted'
    <3>1. \A x : <<c.asset, x>> \in wanted => <<c.asset, x>> \in wanted'
      BY <1>15
    <3>2. tx.inputs # <<c>>
      <4>1. <<c0>>[1] # <<c>>[1]
        OBVIOUS
      <4> QED BY <1>5, <4>1
    <3>3. c.lock.kind = "rgbpp" =>
            \/ \E t \in flying : t.accepted /\ t.inputs = <<c>>
            \/ \E u \in utxos : /\ c.lock = Rgbpp(u.tx, u.vout)
                                /\ c.asset = Plain \/ <<c.asset, u.owner>> \in wanted
      BY <1>6 DEF OwnersInv, Bound
    <3>4. c.lock.kind \in {"time", "ckb"} => <<c.asset, c.lock.to>> \in wanted
      BY <1>6 DEF OwnersInv
    <3> QED BY <1>1, <3>1, <3>2, <3>3, <3>4
  <2> QED BY <1>7, <2>1, <2>2, <2>3, <2>4 DEF OwnersInv, Bound
<1> QED BY <1>12, <1>13, <1>16 DEF IInv

\* A transaction of CKB alone: cells that are not bound to Bitcoin give way to new ones with
\* the same assets, each its owner's.
LEMMA MovedOnCkb ==
    ASSUME IInv, NEW new, NEW gone, Fresh(new, gone, number), cells' = (cells \ gone) \cup new,
           number' = number + 1, UNCHANGED <<utxos, flying, wanted>>,
           \A c \in gone : c.lock.kind # "rgbpp" /\ \E d \in new : d.asset = c.asset,
           \A d \in new :
             /\ d.lock.kind = "rgbpp" =>
                  \E u \in utxos : d.lock = Rgbpp(u.tx, u.vout) /\ <<d.asset, u.owner>> \in wanted
             /\ d.lock.kind \in {"time", "ckb"} => <<d.asset, d.lock.to>> \in wanted
    PROVE  IInv'
<1>1. CellsInv /\ UtxosInv /\ OwnersInv /\ number \in Nat
  BY DEF IInv, UtxosInv
<1>2. utxos' = utxos /\ flying' = flying /\ wanted' = wanted /\ number' = number + 1
  OBVIOUS
<1>3. \A m : Settled(m) => Settled(m)'
  <2>1. \A m \in Nat : m < number => m < number'
    BY <1>1, <1>2
  <2> QED BY <1>2, <2>1 DEF Settled, Flying
<1>4. ~Settled(number)
  BY <1>1 DEF Settled
<1>5. \A t \in flying : t.number # number
  BY <1>1, FlyingFacts
<1>6. \A t \in flying' : t.number # number
  BY <1>2, <1>5
<1>7. number \in Nat /\ number < number'
  BY <1>1, <1>2
<1>8. CellsInv'
  <2>1. PICK n \in Nat : n = number
    BY <1>1
  <2>2. Settled(n)'
    BY <1>6, <1>7, <2>1 DEF Settled, Flying
  <2>3. ~Settled(n) /\ Fresh(new, gone, n)
    BY <1>4, <2>1
  <2> QED BY <1>1, <1>3, <2>2, <2>3, ReplacedCells
<1>9. UtxosInv'
  <2>1. ASSUME NEW t \in flying
        PROVE  /\ Formed(t) /\ t.number < number' /\ Settled(t.utxo.tx)'
               /\ \A s \in flying : s.number = t.number => s = t
               /\ t.accepted => /\ NewUtxos(t) \subseteq utxos
                                /\ \A u \in utxos : ~(u.tx = t.utxo.tx /\ u.vout = t.utxo.vout)
               /\ ~t.accepted => /\ \A u \in utxos : u.tx # t.number
                                 /\ t.utxo \in utxos => Spent(t) \in cells'
    <3>1. Formed(t) /\ t.number \in Nat /\ t.number < number /\ Settled(t.utxo.tx)
      BY FlyingFacts
    <3>2. t.number < number' /\ Settled(t.utxo.tx)'
      BY <1>1, <1>2, <1>3, <3>1
    <3>3. Spent(t).lock.kind = "rgbpp"
      BY <3>1, FormedFields
    <3>4. Spent(t) \in cells => Spent(t) \in cells'
      BY <3>3
    <3> QED BY <3>1, <3>2, <3>4, FlyingFacts
  <2>2. \A u \in utxos : u \in Utxos /\ u.tx \in Nat /\ u.tx < number
    BY <1>1 DEF UtxosInv, Utxos
  <2>3. number' \in Nat /\ \A u \in utxos : u.tx < number'
    BY <1>1, <1>2, <2>2
  <2>4. utxos \subseteq Utxos /\ \A u, v \in utxos : u.tx = v.tx /\ u.vout = v.vout => u = v
    BY <1>1 DEF UtxosInv
  <2> QED BY <1>2, <2>1, <2>3, <2>4 DEF UtxosInv
<1>10. OwnersInv'
  <2>1. ASSUME NEW w \in wanted PROVE \E c \in cells' : c.asset = w[1]
    <3>1. PICK c \in cells : c.asset = w[1]
      BY <1>1 DEF OwnersInv
    <3>2. CASE c \in gone
      BY <3>1, <3>2
    <3>3. CASE c \notin gone
      BY <3>1, <3>3
    <3> QED BY <3>2, <3>3
  <2>2. ASSUME NEW c \in cells'
        PROVE  /\ c.lock.kind = "rgbpp" =>
                    \/ \E t \in flying : t.accepted /\ t.inputs = <<c>>
                    \/ \E u \in utxos : /\ c.lock = Rgbpp(u.tx, u.vout)
                                        /\ c.asset = Plain \/ <<c.asset, u.owner>> \in wanted
               /\ c.lock.kind \in {"time", "ckb"} => <<c.asset, c.lock.to>> \in wanted
    <3>1. CASE c \in cells
      BY <1>1, <3>1 DEF OwnersInv, Bound
    <3>2. CASE c \in new
      BY <3>2
    <3> QED BY <3>1, <3>2
  <2> QED BY <1>1, <1>2, <2>1, <2>2 DEF OwnersInv, Bound
<1> QED BY <1>8, <1>9, <1>10 DEF IInv

LEMMA UnlockTimeCellsPreserves ==
    ASSUME IInv, NEW cs \in SUBSET {c \in cells : c.lock.kind = "time"}, NEW fee \in Fees,
           UnlockTimeCells(cs, fee)
    PROVE  IInv'
<1>1. PICK new : new = CellsAt(number, Unlocked(cs, fee).outputs)
  OBVIOUS
<1>2. /\ cells' = (cells \ cs) \cup new /\ number' = number + 1
      /\ UNCHANGED <<utxos, flying, wanted>>
  BY <1>1 DEF UnlockTimeCells
<1>3. CellsInv /\ OwnersInv /\ number \in Nat
  BY DEF IInv, UtxosInv
<1>4. TimeCells(cs)
  BY <1>3, TimeCellsOfInv
<1>5. cs \in SUBSET Cell /\ IsFiniteSet(cs) /\ \A c, d \in cs : c.out[1] = d.out[1] => c = d
  BY <1>4 DEF TimeCells
<1>6. PICK s \in Seq(cs) : s = Sorted(cs)
  BY <1>5, SortedCells
<1>7. PICK n \in Nat : n = Len(s) /\ DOMAIN s = 1..n
  BY <1>6
<1>8. /\ \A k \in 1..n : s[k] \in cs
      /\ \A c \in cs : \E k \in 1..n : s[k] = c
      /\ \A j, k \in 1..n : s[j] = s[k] => j = k
  BY <1>5, <1>6, <1>7, SortedCells
<1>9. PICK outputs : outputs = Unlocked(cs, fee).outputs
  OBVIOUS
<1>10. /\ DOMAIN outputs = 1..(1 + n)
       /\ \A i \in DOMAIN outputs : outputs[i].asset = Plain \/ (i > 1 /\ i - 1 \in 1..n)
       /\ \A k \in 1..n : outputs[1 + k] = Moved(s[k], Ckb(s[k].lock.to))
  BY <1>4, <1>6, <1>7, <1>9, UnlockedShape
<1>11. ASSUME NEW c \in cs
       PROVE  /\ c \in cells /\ c \in Cell /\ c.lock.kind = "time" /\ c.asset.kind = "spore"
              /\ c.asset # Plain /\ c.lock.to \in Owner /\ Ckb(c.lock.to) \in Locks
              /\ Ckb(c.lock.to).kind = "ckb" /\ Ckb(c.lock.to).to = c.lock.to
              /\ c.data \in Nat /\ c.capacity \in Nat /\ c.asset \in AssetIds
  <2>1. c \in cells /\ c \in Cell /\ c.lock.kind = "time" /\ c.asset.kind = "spore"
    BY <1>4, <1>5 DEF TimeCells
  <2>2. c.asset # Plain
    BY <2>1 DEF Plain
  <2>3. c.lock \in Locks /\ c.data \in Nat /\ c.capacity \in Nat /\ c.asset \in AssetIds
    BY <2>1, <2>2 DEF Cell
  <2>4. c.lock.to \in Owner
    BY <2>1, <2>3 DEF Locks
  <2>5. Ckb(c.lock.to) \in Locks
    BY <2>4 DEF Ckb, Locks
  <2> QED BY <2>1, <2>2, <2>3, <2>4, <2>5 DEF Ckb
<1> DEFINE At(k) == [out |-> <<number, 1 + k>>, asset |-> s[k].asset, lock |-> Ckb(s[k].lock.to),
                     data |-> s[k].data, capacity |-> s[k].capacity]
<1>12. new = {At(k) : k \in 1..n}
  <2>1. ASSUME NEW k \in 1..n
        PROVE  /\ outputs[1 + k].asset = s[k].asset /\ outputs[1 + k].lock = Ckb(s[k].lock.to)
               /\ outputs[1 + k].data = s[k].data /\ outputs[1 + k].capacity = s[k].capacity
    <3>1. PICK c : c = s[k]
      OBVIOUS
    <3>2. PICK lock : lock = Ckb(s[k].lock.to)
      OBVIOUS
    <3>3. outputs[1 + k] = Moved(c, lock)
      <4>1. outputs[1 + k] = Moved(s[k], Ckb(s[k].lock.to))
        BY <1>10
      <4> QED BY <3>1, <3>2, <4>1
    <3>4. PICK o : o = outputs[1 + k]
      OBVIOUS
    <3>5. o = [asset |-> c.asset, lock |-> lock, data |-> c.data, capacity |-> c.capacity]
      BY <3>3, <3>4 DEF Moved
    <3>6. o.asset = c.asset /\ o.lock = lock /\ o.data = c.data /\ o.capacity = c.capacity
      BY <3>5
    <3> QED BY <3>1, <3>2, <3>4, <3>6
  <2>2. {j \in DOMAIN outputs : outputs[j].asset # Plain} = {1 + k : k \in 1..n}
    <3>1. ASSUME NEW j \in DOMAIN outputs, outputs[j].asset # Plain
          PROVE  \E k \in 1..n : j = 1 + k
      <4>1. j - 1 \in 1..n /\ j = 1 + (j - 1)
        BY <1>10, <3>1
      <4> QED BY <4>1
    <3>2. ASSUME NEW k \in 1..n PROVE 1 + k \in DOMAIN outputs /\ outputs[1 + k].asset # Plain
      <4>1. PICK c \in cs : c = s[k]
        BY <1>8
      <4>2. outputs[1 + k].asset = c.asset
        BY <2>1, <4>1
      <4> QED BY <1>10, <1>11, <4>2
    <3> QED BY <3>1, <3>2
  <2>3. ASSUME NEW k \in 1..n
        PROVE  [out |-> <<number, 1 + k>>, asset |-> outputs[1 + k].asset,
                lock |-> outputs[1 + k].lock, data |-> outputs[1 + k].data,
                capacity |-> outputs[1 + k].capacity] = At(k)
    BY <2>1
  <2>4. new = {[out |-> <<number, i>>, asset |-> outputs[i].asset, lock |-> outputs[i].lock,
                data |-> outputs[i].data, capacity |-> outputs[i].capacity] : i \in {1 + k : k \in 1..n}}
    BY <1>1, <1>9, <2>2 DEF CellsAt
  <2> HIDE DEF At
  <2> QED BY <2>3, <2>4
<1>13. ASSUME NEW k \in 1..n
       PROVE  /\ At(k) \in Cell /\ At(k).out[1] = number /\ At(k).out[2] = 1 + k
              /\ At(k).asset = s[k].asset /\ At(k).lock = Ckb(s[k].lock.to)
              /\ At(k).lock.kind = "ckb" /\ At(k).lock.to = s[k].lock.to
              /\ At(k).capacity >= Occupied(At(k))
              /\ At(k).capacity >= Unit * Bytes("time", At(k).data)
  <2>1. PICK c \in cs : c = s[k]
    BY <1>8
  <2>2. PICK d : d = At(k)
    OBVIOUS
  <2>3. d = [out |-> <<number, 1 + k>>, asset |-> c.asset, lock |-> Ckb(c.lock.to), data |-> c.data,
             capacity |-> c.capacity]
    BY <2>1, <2>2
  <2>4. /\ d.asset = c.asset /\ d.lock = Ckb(c.lock.to) /\ d.out = <<number, 1 + k>>
        /\ d.data = c.data /\ d.capacity = c.capacity
    BY <2>3
  <2>5. d.lock.kind = "ckb" /\ d.lock.to = c.lock.to
    BY <1>11, <2>4
  <2>6. d \in Cell
    <3>1. <<number, 1 + k>> \in Nat \X Nat
      BY <1>3
    <3> QED BY <1>11, <2>3, <3>1 DEF Cell
  <2>7. c.capacity >= Unit * Bytes("time", c.data)
    <3>1. Occupied(c) = Unit * Bytes("time", c.data)
      BY <1>11, OccupiedBytes
    <3> QED BY <1>3, <1>11, <3>1 DEF CellsInv
  <2>8. d.capacity >= Occupied(d)
    <3>1. PICK small \in Nat, mid \in Nat, large \in Nat :
            /\ small = Unit * Bytes("ckb", c.data) /\ mid = Unit * Bytes("rgbpp", c.data)
            /\ large = Unit * Bytes("time", c.data)
      BY <1>11, BytesOfLocks
    <3>2. small <= mid /\ mid + Unit <= large /\ Unit \in Nat
      BY <1>11, <3>1, BytesOfLocks, Sizes
    <3>3. Occupied(d) = small
      BY <1>11, <2>4, <2>5, <3>1, OccupiedBytes
    <3> QED BY <1>11, <2>4, <2>7, <3>1, <3>2, <3>3
  <2> QED BY <2>1, <2>2, <2>4, <2>5, <2>6, <2>7, <2>8
<1> HIDE DEF At
<1>14. Fresh(new, cs, number)
  <2>1. IsFiniteSet(new)
    <3> DEFINE f == [k \in 1..n |-> At(k)]
    <3>1. f \in Surjection(1..n, new)
      BY <1>12 DEF Surjection
    <3>2. IsFiniteSet(1..n)
      BY FS_Interval
    <3> HIDE DEF f
    <3> QED BY <3>1, <3>2, FS_Surjection
  <2>2. new \subseteq Cell
    BY <1>12, <1>13
  <2>3. ASSUME NEW c \in new
        PROVE  /\ c.out[1] = number /\ c.lock.kind = "ckb"
               /\ c.asset # Plain /\ Settled(c.asset.id[1][1]) /\ c.asset.kind = "spore"
               /\ c.capacity >= Occupied(c) /\ c.capacity >= Unit * Bytes("time", c.data)
               /\ \A d \in cells \ cs : d.asset # c.asset /\ c.asset.id[1] # d.out
    <3>1. PICK k \in 1..n : c = At(k)
      BY <1>12
    <3>2. PICK b \in cs : b = s[k]
      BY <1>8
    <3>3. c.asset = b.asset
      BY <1>13, <3>1, <3>2
    <3>4. /\ c.out[1] = number /\ c.lock.kind = "ckb"
          /\ c.capacity >= Occupied(c) /\ c.capacity >= Unit * Bytes("time", c.data)
      BY <1>13, <3>1
    <3>5. b \in cells /\ b.asset # Plain /\ b.asset.kind = "spore"
      BY <1>11
    <3>6. Settled(b.asset.id[1][1])
      BY <1>3, <3>5 DEF CellsInv
    <3>7. \A d \in cells \ cs : d.asset # b.asset /\ b.asset.id[1] # d.out
      BY <1>3, <3>5 DEF CellsInv
    <3> QED BY <3>3, <3>4, <3>5, <3>6, <3>7
  <2>4. ASSUME NEW c \in new, NEW d \in new
        PROVE  /\ c.out = d.out => c = d
               /\ c.asset = d.asset => c = d
    <3>1. PICK k \in 1..n : c = At(k)
      BY <1>12
    <3>2. PICK j \in 1..n : d = At(j)
      BY <1>12
    <3>3. c.out = d.out => k = j
      <4>1. c.out[2] = 1 + k /\ d.out[2] = 1 + j
        BY <1>13, <3>1, <3>2
      <4> QED BY <4>1
    <3>4. c.asset = d.asset => k = j
      <4>1. c.asset = s[k].asset /\ d.asset = s[j].asset
        BY <1>13, <3>1, <3>2
      <4>2. s[k] \in cells /\ s[j] \in cells /\ s[k].asset # Plain
        BY <1>8, <1>11
      <4>3. s[k].asset = s[j].asset => s[k] = s[j]
        BY <1>3, <4>2 DEF CellsInv
      <4> QED BY <1>8, <4>1, <4>3
    <3> QED BY <3>1, <3>2, <3>3, <3>4
  <2> QED BY <2>1, <2>2, <2>3, <2>4 DEF Fresh
<1>15. ASSUME NEW c \in cs PROVE c.lock.kind # "rgbpp" /\ \E d \in new : d.asset = c.asset
  <2>1. PICK k \in 1..n : s[k] = c
    BY <1>8
  <2>2. At(k) \in new /\ At(k).asset = c.asset
    BY <1>12, <1>13, <2>1
  <2> QED BY <1>11, <2>2
<1>16. ASSUME NEW d \in new
       PROVE  d.lock.kind = "ckb" /\ <<d.asset, d.lock.to>> \in wanted
  <2>1. PICK k \in 1..n : d = At(k)
    BY <1>12
  <2>2. PICK c \in cs : c = s[k]
    BY <1>8
  <2>3. <<c.asset, c.lock.to>> \in wanted
    BY <1>3, <1>11 DEF OwnersInv
  <2> QED BY <1>13, <2>1, <2>2, <2>3
<1> QED BY <1>2, <1>14, <1>15, <1>16, MovedOnCkb

LEMMA LeapToBtcPreserves ==
    ASSUME IInv, NEW c \in cells, NEW u \in utxos, NEW fee \in Fees, LeapToBtc(c, u, fee)
    PROVE  IInv'
<1>1. /\ c.lock.kind = "ckb" /\ u.owner = c.lock.to /\ CellsOf(u) = {}
      /\ \A tx \in flying : tx.number # u.tx
      /\ number' = number + 1 /\ UNCHANGED <<utxos, flying, wanted>>
  BY DEF LeapToBtc
<1>2. PICK o : o = [Moved(c, Rgbpp(u.tx, u.vout)) EXCEPT !.capacity = @ - fee]
  OBVIOUS
<1>3. PICK new : new = CellsAt(number, <<o>>)
  OBVIOUS
<1>4. cells' = (cells \ {c}) \cup new
  BY <1>2, <1>3 DEF LeapToBtc
<1>5. CellsInv /\ OwnersInv /\ number \in Nat /\ c \in Cell /\ u \in Utxos /\ u.tx < number
  BY DEF IInv, CellsInv, UtxosInv
<1>6. c.asset.kind = "spore" /\ c.capacity >= Unit * Bytes("time", c.data)
  BY <1>1, <1>5 DEF CellsInv
<1>7. c.asset # Plain
  BY <1>6 DEF Plain
<1>8. c.asset \in AssetIds /\ c.data \in Nat /\ c.capacity \in Nat /\ c.out \in Nat \X Nat
  BY <1>5, <1>7 DEF Cell
<1>9. /\ o.asset = c.asset /\ o.lock = Rgbpp(u.tx, u.vout) /\ o.data = c.data
      /\ o.capacity = c.capacity - fee
  BY <1>2 DEF Moved
<1>10. PICK d : d = [out |-> <<number, 1>>, asset |-> o.asset, lock |-> o.lock, data |-> o.data,
                     capacity |-> o.capacity]
  OBVIOUS
<1>11. new = {d}
  <2>1. PICK list : list = <<o>>
    OBVIOUS
  <2>2. DOMAIN list = {1} /\ list[1] = o
    BY <2>1
  <2>3. {j \in DOMAIN list : list[j].asset # Plain} = {1}
    BY <1>7, <1>9, <2>2
  <2>4. new = {[out |-> <<number, i>>, asset |-> list[i].asset, lock |-> list[i].lock,
                data |-> list[i].data, capacity |-> list[i].capacity] : i \in {1}}
    BY <1>3, <2>1, <2>3 DEF CellsAt
  <2> QED BY <1>10, <2>2, <2>4
<1>12. /\ d.out = <<number, 1>> /\ d.asset = c.asset /\ d.lock = Rgbpp(u.tx, u.vout)
       /\ d.data = c.data /\ d.capacity = c.capacity - fee
  BY <1>9, <1>10
<1>13. d.lock.kind = "rgbpp" /\ d.lock.tx = u.tx /\ Rgbpp(u.tx, u.vout) \in Locks /\ u.tx \in Nat
  BY <1>5, <1>12 DEF Rgbpp, Locks, Utxos
<1>14. d.capacity \in Nat /\ d.capacity >= Occupied(d)
  <2>1. PICK mid \in Nat, large \in Nat :
          mid = Unit * Bytes("rgbpp", c.data) /\ large = Unit * Bytes("time", c.data)
    BY <1>8, BytesOfLocks
  <2>2. mid + Unit <= large /\ Unit \in Nat /\ fee \in Nat /\ fee <= Unit
    BY <1>8, <2>1, BytesOfLocks, Sizes
  <2>3. Occupied(d) = mid
    BY <1>7, <1>8, <1>12, <1>13, <2>1, OccupiedBytes
  <2> QED BY <1>6, <1>8, <1>12, <2>1, <2>2, <2>3
<1>15. d \in Cell
  <2>1. <<number, 1>> \in Nat \X Nat
    BY <1>5
  <2>2. d = [out |-> <<number, 1>>, asset |-> c.asset, lock |-> Rgbpp(u.tx, u.vout), data |-> c.data,
             capacity |-> d.capacity]
    BY <1>9, <1>10
  <2> QED BY <1>8, <1>13, <1>14, <2>1, <2>2 DEF Cell
<1>16. Fresh(new, {c}, number)
  <2>1. Settled(u.tx)
    BY <1>1, <1>5, <1>13 DEF Settled, Flying
  <2>2. \A e \in cells : e.lock # d.lock
    BY <1>1, <1>12 DEF CellsOf
  <2>3. Settled(c.asset.id[1][1])
    BY <1>5, <1>7 DEF CellsInv
  <2>4. \A e \in cells \ {c} : e.asset # c.asset /\ c.asset.id[1] # e.out
    BY <1>5, <1>7 DEF CellsInv
  <2>5. d.out[1] = number
    BY <1>12
  <2>6. IsFiniteSet(new)
    BY <1>11, FS_Singleton
  <2> QED BY <1>7, <1>11, <1>12, <1>13, <1>14, <1>15, <2>1, <2>2, <2>3, <2>4, <2>5, <2>6 DEF Fresh
<1>17. <<d.asset, u.owner>> \in wanted
  BY <1>1, <1>5, <1>12 DEF OwnersInv
<1>18. \A e \in {c} : e.lock.kind # "rgbpp" /\ \E x \in new : x.asset = e.asset
  BY <1>1, <1>11, <1>12
<1>19. \A e \in new :
         /\ e.lock.kind = "rgbpp" =>
              \E v \in utxos : e.lock = Rgbpp(v.tx, v.vout) /\ <<e.asset, v.owner>> \in wanted
         /\ e.lock.kind \in {"time", "ckb"} => <<e.asset, e.lock.to>> \in wanted
  BY <1>11, <1>12, <1>13, <1>17
<1> QED BY <1>1, <1>4, <1>16, <1>18, <1>19, MovedOnCkb

-----------------------------------------------------------------------------
(* Every step preserves the invariant.                                     *)

LEMMA InitIInv == Init => IInv
BY InitCells, InitUtxos, InitOwners DEF IInv

LEMMA IInvStutters == IInv /\ UNCHANGED vars => IInv'
<1> SUFFICES ASSUME IInv, UNCHANGED vars PROVE IInv'
  OBVIOUS
<1>1. cells' = cells /\ utxos' = utxos /\ flying' = flying /\ wanted' = wanted /\ number' = number
  BY DEF vars
<1>2. \A n : Settled(n)' <=> Settled(n)
  BY <1>1 DEF Settled, Flying
<1>3. CellsInv'
  BY <1>1, <1>2 DEF IInv, CellsInv
<1>4. UtxosInv'
  BY <1>1, <1>2 DEF IInv, UtxosInv
<1>5. OwnersInv'
  BY <1>1 DEF IInv, OwnersInv, Bound
<1> QED BY <1>3, <1>4, <1>5 DEF IInv

LEMMA IInvNext == IInv /\ [Next]_vars => IInv'
<1> SUFFICES ASSUME IInv, [Next]_vars PROVE IInv'
  OBVIOUS
<1>1. ASSUME NEW u \in utxos, NEW fee \in Fees, CreateCluster(u, fee) PROVE IInv'
  BY <1>1, CreateClusterPreserves
<1>2. ASSUME NEW u \in utxos, NEW receivers \in Receivers, CreateSpores(u, receivers) PROVE IInv'
  BY <1>2, CreateSporesPreserves
<1>3. ASSUME NEW u \in utxos, NEW to \in Owner, NEW fee \in Fees, TransferSpore(u, to, fee) PROVE IInv'
  BY <1>3, MoveSporePreserves DEF TransferSpore
<1>4. ASSUME NEW u \in utxos, NEW to \in Owner, NEW fee \in Fees, LeapToCkb(u, to, fee) PROVE IInv'
  BY <1>4, MoveSporePreserves DEF LeapToCkb
<1>5. ASSUME NEW tx \in flying, Broadcast(tx) PROVE IInv'
  BY <1>5, BroadcastPreserves
<1>6. ASSUME NEW tx \in flying, NEW fee \in Fees, Complete(tx, fee) PROVE IInv'
  BY <1>6, CompletePreserves
<1>7. ASSUME NEW cs \in SUBSET {c \in cells : c.lock.kind = "time"}, NEW fee \in Fees,
             UnlockTimeCells(cs, fee)
      PROVE  IInv'
  BY <1>7, UnlockTimeCellsPreserves
<1>8. ASSUME NEW c \in cells, NEW u \in utxos, NEW fee \in Fees, LeapToBtc(c, u, fee) PROVE IInv'
  BY <1>8, LeapToBtcPreserves
<1>9. CASE UNCHANGED vars
  BY <1>9, IInvStutters
<1> QED BY <1>1, <1>2, <1>3, <1>4, <1>5, <1>6, <1>7, <1>8, <1>9 DEF Next

\* The cells, the UTXOs and the owners stay consistent with each other, whatever is built,
\* dropped by Bitcoin for a rival, completed late, unlocked or leaped back.
THEOREM InvariantHolds == Spec => []IInv
<1> QED BY InitIInv, IInvNext, PTL DEF Spec

\* A cell always holds what it occupies, the next move of a spore passes
\* calculateCommitment's check of the capacities, and the paymaster's cell covers what a
\* spore that cannot pay lacks.
THEOREM NothingGetsStuck == Spec => []NothingStuck
<1>1. IInv => NothingStuck
  BY InvImpliesNothingStuck DEF IInv
<1> QED BY <1>1, InvariantHolds, PTL

\* What the client, the paymaster or the issuer completes has a witness of the right kind
\* for every input, and behind them the cobuild witness of the real locks; so have the
\* transactions that unlock time cells.
THEOREM WitnessesStay == Spec => []WitnessesInPlace
<1>1. IInv => WitnessesInPlace
  BY InvImpliesWitnessesInPlace DEF IInv
<1> QED BY <1>1, InvariantHolds, PTL

\* CKB gets the outputs Bitcoin committed to with the real transaction id in their locks,
\* and a completed transaction pays its fee.
THEOREM CommitmentStays == Spec => []CommitmentKept
<1>1. IInv => CommitmentKept
  BY InvImpliesCommitmentKept DEF IInv
<1> QED BY <1>1, InvariantHolds, PTL

\* Every cluster and spore is in one cell, which belongs to the receiver the caller named
\* or is spent by a transaction on its way to CKB.
THEOREM AssetsAreOwned == Spec => []EveryAssetOwned
<1>1. IInv => EveryAssetOwned
  BY InvImpliesEveryAssetOwned DEF IInv
<1> QED BY <1>1, InvariantHolds, PTL

=============================================================================
