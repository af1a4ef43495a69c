-------------------------------- MODULE Spore -------------------------------
(***************************************************************************)
(* Clusters and spores (packages/ckb/src/spore): a cluster is made from a  *)
(* prepared cell, spores are made from the cluster, a spore moves between  *)
(* Bitcoin owners, leaps to CKB into a time cell, is unlocked, and leaps   *)
(* back.                                                                   *)
(*                                                                         *)
(* A call reads the cells of one UTXO and returns a virtual transaction.   *)
(* Bitcoin accepts the transaction that commits to it, or a rival that     *)
(* spends the same UTXO; then the client or the queue puts the real        *)
(* transaction id into the lock args, rewrites the cobuild witness, adds   *)
(* who pays, and sends it to CKB.                                          *)
(*                                                                         *)
(* Capacity is counted in fee units: Unit of them for one byte.            *)
(***************************************************************************)
EXTENDS Sums, Orders, FiniteSets, Sequences, SequencesExt

CONSTANTS
    Owner, Creator,
    Kept,               \* owners of UTXOs that are kept for leaps to Bitcoin
    Data,               \* sizes of spore data
    ClusterData,
    MaxSpores,          \* receivers of one call
    LockSize,           \* bytes of a lock, by kind
    TypeSize, CapacitySize, BtcTimeCellIncreasedSize,
    Unit, Fees, MinCapacity, PaymasterCapacity,
    MaxTx,              \* bound: transactions
    MaxFlying           \* bound: transactions built and not yet settled

ASSUME SizeAssumption ==
    /\ LockSize \in [{"rgbpp", "time", "ckb"} -> Nat]
    /\ LockSize["ckb"] <= LockSize["rgbpp"] /\ LockSize["rgbpp"] < LockSize["time"]
    /\ LockSize["time"] <= LockSize["rgbpp"] + BtcTimeCellIncreasedSize
    /\ {TypeSize, CapacitySize, BtcTimeCellIncreasedSize, ClusterData, Unit} \subseteq Nat
    /\ Data \subseteq Nat /\ Fees \subseteq 1..Unit
    /\ {MinCapacity, PaymasterCapacity, MaxSpores, MaxTx, MaxFlying} \subseteq Nat
    /\ PaymasterCapacity > MinCapacity + Unit * (BtcTimeCellIncreasedSize + 1)
    /\ Creator \in Owner /\ Kept \in Seq(Owner)

VARIABLES
    cells,     \* live cells of CKB
    utxos,     \* unspent outputs of Bitcoin, with their owners
    flying,    \* transactions that are built, or accepted by Bitcoin and not by CKB
    wanted,    \* what the callers asked for: pairs of an asset and its receiver
    number     \* of the next transaction

vars == <<cells, utxos, flying, wanted, number>>

Plain == [kind |-> "plain", id |-> <<>>]
Rgbpp(tx, vout) == [kind |-> "rgbpp", tx |-> tx, vout |-> vout]
BtcTime(tx, to) == [kind |-> "time", tx |-> tx, to |-> to]
Ckb(to) == [kind |-> "ckb", to |-> to]
Placeholder == 0      \* RGBPP_TX_ID_PLACEHOLDER

Sum(outputs) == SumTo([i \in DOMAIN outputs |-> outputs[i].capacity], Len(outputs))

\* calculateCellOccupiedCapacity
Occupied(o) ==
    Unit * (LockSize[o.lock.kind] + CapacitySize + o.data
            + IF o.asset = Plain THEN 0 ELSE TypeSize)

calculateRgbppClusterCellCapacity ==
    Unit * (LockSize["rgbpp"] + TypeSize + CapacitySize + ClusterData + 1)

calculateRgbppSporeCellCapacity(data) ==
    Unit * (LockSize["rgbpp"] + TypeSize + CapacitySize + data + BtcTimeCellIncreasedSize + 1)

\* calculateCommitment refuses an output that cannot hold what it occupies.
CapacitySufficient(outputs) == \A i \in DOMAIN outputs : outputs[i].capacity >= Occupied(outputs[i])

\* generateClusterId, generateSporeId
Id(kind, c, index) == [kind |-> kind, id |-> <<c.out, index>>]

CellsOf(u) == {c \in cells : c.lock = Rgbpp(u.tx, u.vout)}

Unlock == [kind |-> "unlock"]
Sign   == [kind |-> "sign"]
Empty  == [kind |-> "empty"]

\* The cobuild witness describes the assets with their locks.
CoBuild(outputs) == [kind |-> "cobuild", moved |->
    [i \in DOMAIN outputs |-> [asset |-> outputs[i].asset, lock |-> outputs[i].lock]]]

Init ==
    /\ cells = {[out |-> <<1, 1>>, asset |-> Plain, lock |-> Rgbpp(1, 1), data |-> 0,
                 capacity |-> calculateRgbppClusterCellCapacity]}
    /\ utxos = {[tx |-> 1, vout |-> 1, owner |-> Creator]}
               \cup {[tx |-> 1, vout |-> k + 1, owner |-> Kept[k]] : k \in DOMAIN Kept}
    /\ flying = {} /\ wanted = {} /\ number = 2

-----------------------------------------------------------------------------
(* Virtual transactions *)

Built(u, c, outputs, tos, payer) ==
    /\ CapacitySufficient(outputs)
    /\ Cardinality(flying) < MaxFlying /\ number <= MaxTx
    /\ flying' = flying \cup
         {[number |-> number, utxo |-> u, inputs |-> <<c>>, outputs |-> outputs, tos |-> tos,
           payer |-> payer, committed |-> outputs, witnesses |-> <<Unlock, CoBuild(outputs)>>,
           accepted |-> FALSE]}
    /\ number' = number + 1
    /\ UNCHANGED <<cells, utxos, wanted>>

\* genCreateClusterCkbVirtualTx: the first empty cell of the UTXO
CreateCluster(u, fee) ==
    \E c \in CellsOf(u) :
        /\ c.asset = Plain
        /\ Built(u, c, <<[asset |-> Id("cluster", c, 0), lock |-> Rgbpp(Placeholder, 1),
                          data |-> ClusterData, capacity |-> c.capacity - fee]>>,
                 <<u.owner>>, "none")

\* [bug] the spores start at the vout of the cluster.
SporeVoutOfCluster(i) == i + 1

\* Vouts[0] is OP_RETURN, Vouts[1] the cluster.
SporeVout(i) == i + 2

SporeOutputs(c, receivers) ==
    [i \in DOMAIN receivers |->
        [asset |-> Id("spore", c, i), lock |-> Rgbpp(Placeholder, SporeVout(i - 1)),
         data |-> receivers[i].data,
         capacity |-> calculateRgbppSporeCellCapacity(receivers[i].data)]]

\* genCreateSporeCkbVirtualTx; the issuer pays later.
CreateSpores(u, receivers) ==
    \E c \in CellsOf(u) :
        /\ CellsOf(u) = {c} /\ c.asset.kind = "cluster"
        /\ Built(u, c,
                 <<[asset |-> c.asset, lock |-> Rgbpp(Placeholder, 1), data |-> c.data,
                    capacity |-> c.capacity]>> \o SporeOutputs(c, receivers),
                 <<u.owner>> \o [i \in DOMAIN receivers |-> receivers[i].to], "issuer")

\* [bug] the fee is taken without a look at what the cell occupies.
PayerForOneOutput(o, fee) ==
    IF o.capacity <= Occupied(o)
    THEN <<"paymaster", [o EXCEPT !.capacity = calculateRgbppSporeCellCapacity(o.data)]>>
    ELSE IF o.capacity < fee THEN <<"paymaster", o>>
    ELSE <<"none", [o EXCEPT !.capacity = @ - fee]>>

\* Who pays the fee of a moved spore, and its output then: a full cell from the paymaster,
\* the same cell, or a cell that pays by itself.
PayerAndOutput(o, fee) ==
    IF o.capacity <= Occupied(o)
    THEN <<"paymaster", [o EXCEPT !.capacity = calculateRgbppSporeCellCapacity(o.data)]>>
    ELSE IF o.capacity < fee + Occupied(o) THEN <<"paymaster", o>>
    ELSE <<"none", [o EXCEPT !.capacity = @ - fee]>>

\* throwErrorWhenSporeCellsInvalid
SporeCells(u) == {c \in CellsOf(u) : CellsOf(u) = {c} /\ c.asset.kind = "spore"}

Moved(c, lock) == [asset |-> c.asset, lock |-> lock, data |-> c.data, capacity |-> c.capacity]

MoveSpore(u, lock, fee, to) ==
    \E c \in SporeCells(u) :
        LET p == PayerAndOutput(Moved(c, lock), fee)
        IN  Built(u, c, <<p[2]>>, <<to>>, p[1])

\* genTransferSporeCkbVirtualTx
TransferSpore(u, to, fee) == MoveSpore(u, Rgbpp(Placeholder, 1), fee, to)

\* genLeapSporeFromBtcToCkbVirtualTx
LeapToCkb(u, to, fee) == MoveSpore(u, BtcTime(Placeholder, to), fee, to)

-----------------------------------------------------------------------------
(* The two chains *)

\* createSendRgbppUtxosBuilder: an output for every RGB++ lock, in their order.
NewUtxos(tx) ==
    LET bound == InOrder({i \in DOMAIN tx.outputs : tx.outputs[i].lock.kind = "rgbpp"})
    IN  {[tx |-> tx.number, vout |-> v, owner |-> tx.tos[bound[v]]] : v \in DOMAIN bound}

\* A transaction whose UTXO is gone is dropped.
Broadcast(tx) ==
    /\ ~tx.accepted
    /\ IF tx.utxo \in utxos
       THEN /\ utxos' = (utxos \ {tx.utxo}) \cup NewUtxos(tx)
            /\ flying' = (flying \ {tx}) \cup {[tx EXCEPT !.accepted = TRUE]}
       ELSE /\ flying' = flying \ {tx} /\ UNCHANGED utxos
    /\ UNCHANGED <<cells, wanted, number>>

\* updateCkbTxWithRealBtcTxId
WithRealBtcTxId(tx) ==
    [i \in DOMAIN tx.outputs |->
        IF tx.outputs[i].lock.kind \in {"rgbpp", "time"}
        THEN [tx.outputs[i] EXCEPT !.lock.tx = tx.number] ELSE tx.outputs[i]]

\* The client replaces the last witness: the locks have changed.
WithCoBuild(witnesses, outputs) == Front(witnesses) \o <<CoBuild(outputs)>>

\* [bug] appended, as for a batch transfer.
IssuerWitnessesAppended(witnesses) == witnesses \o <<Sign, Empty>>

\* appendIssuerCellToSporesCreateUnsignedTx: before the cobuild witness
IssuerWitnesses(witnesses) == Front(witnesses) \o <<Sign, Empty, Last(witnesses)>>

\* appendPaymasterCellAndSignCkbTx: behind the witnesses of the inputs
PaymasterWitnesses(witnesses) == <<witnesses[1], Sign>> \o Tail(witnesses)

PayingCell(capacity) == [asset |-> Plain, lock |-> Ckb(Creator), data |-> 0, capacity |-> capacity]
Change(inputs, outputs, fee) == PayingCell(Sum(inputs) - Sum(outputs) - fee)

CellsAt(n, outputs) ==
    {[out |-> <<n, i>>, asset |-> outputs[i].asset, lock |-> outputs[i].lock,
      data |-> outputs[i].data, capacity |-> outputs[i].capacity] :
        i \in {j \in DOMAIN outputs : outputs[j].asset # Plain}}

\* The queue's cell is of one size; without enough of it the transaction stays where it is.
PaymasterCovers(tx) ==
    Sum(tx.inputs) + PaymasterCapacity > Sum(tx.outputs) + MinCapacity

\* [bug] the change is put in front of the outputs Bitcoin committed to.
PaidChangeFirst(tx, paying, outputs, witnesses, fee) ==
    [inputs |-> tx.inputs \o paying, witnesses |-> witnesses,
     outputs |-> <<Change(tx.inputs \o paying, outputs, fee)>> \o outputs]

\* The cells of those who pay are the last inputs, the change is the last output.
Paid(tx, paying, outputs, witnesses, fee) ==
    [inputs |-> tx.inputs \o paying, witnesses |-> witnesses,
     outputs |-> outputs \o <<Change(tx.inputs \o paying, outputs, fee)>>]

\* The transaction the client or the queue sends to CKB: none while it cannot be paid.
Completed(tx, fee) ==
    LET outputs == WithRealBtcTxId(tx)
        witnesses == WithCoBuild(tx.witnesses, outputs)
        need == Sum(outputs) - Sum(tx.inputs) + MinCapacity + fee
    IN  CASE tx.payer = "none" ->
               {[inputs |-> tx.inputs, witnesses |-> witnesses, outputs |-> outputs]}
          [] tx.payer = "paymaster" ->
               {done \in {Paid(tx, <<PayingCell(PaymasterCapacity)>>, outputs,
                     PaymasterWitnesses(witnesses), fee)} : PaymasterCovers(tx)}
          [] tx.payer = "issuer" ->      \* two cells, as an example; CkbFunding collects them
               {Paid(tx, <<PayingCell(need), PayingCell(MinCapacity)>>, outputs,
                     IssuerWitnesses(witnesses), fee)}

\* CKB takes it; the cells of those who pay are not kept in "cells".
Complete(tx, fee) ==
    /\ tx.accepted /\ ToSet(tx.inputs) \subseteq cells
    /\ \E done \in Completed(tx, fee) :
        /\ cells' = (cells \ ToSet(done.inputs)) \cup CellsAt(tx.number, done.outputs)
        /\ wanted' = {w \in wanted : \A i \in DOMAIN done.outputs : done.outputs[i].asset # w[1]}
                     \cup {<<done.outputs[i].asset, tx.tos[i]>> : i \in DOMAIN tx.tos}
    /\ flying' = flying \ {tx}
    /\ UNCHANGED <<utxos, number>>

\* Cells with the same lock args are one group.
TimeWitnesses(inputs) ==
    [i \in DOMAIN inputs |->
        IF \E j \in 1..(i - 1) : inputs[j].lock = inputs[i].lock THEN Empty ELSE Unlock]

UnlockWitnesses(inputs, outputs) == TimeWitnesses(inputs) \o <<CoBuild(outputs)>>

\* compareInputs; a transaction makes at most one time cell.
Sorted(cs) ==
    LET numbers == InOrder({c.out[1] : c \in cs})
    IN  [k \in DOMAIN numbers |-> CHOOSE c \in cs : c.out[1] = numbers[k]]

\* buildSporeBtcTimeCellsSpentTx: the time cells, sorted, go to the locks in their lock
\* args. prepareBtcTimeCellSpentUnsignedTx puts a cell that pays in front of them.
Unlocked(cs, fee) ==
    LET inputs == Sorted(cs)
        outputs == [i \in DOMAIN inputs |-> Moved(inputs[i], Ckb(inputs[i].lock.to))]
    IN  [inputs |-> <<PayingCell(MinCapacity + fee)>> \o inputs,
         outputs |-> <<PayingCell(MinCapacity)>> \o outputs,
         witnesses |-> <<Sign>> \o UnlockWitnesses(inputs, outputs)]

UnlockTimeCells(cs, fee) ==
    /\ cs # {} /\ \A c \in cs : c.lock.kind = "time"
    /\ cells' = (cells \ cs) \cup CellsAt(number, Unlocked(cs, fee).outputs)
    /\ number <= MaxTx /\ number' = number + 1
    /\ UNCHANGED <<utxos, flying, wanted>>

\* genLeapSporeFromCkbToBtcRawTx, signed by the owner: the cell pays the fee.
LeapToBtc(c, u, fee) ==
    /\ c.lock.kind = "ckb" /\ u.owner = c.lock.to
    /\ CellsOf(u) = {} /\ \A tx \in flying : tx.number # u.tx      \* kept for this leap
    /\ number <= MaxTx /\ number' = number + 1
    /\ cells' = (cells \ {c}) \cup
         CellsAt(number, <<[Moved(c, Rgbpp(u.tx, u.vout)) EXCEPT !.capacity = @ - fee]>>)
    /\ UNCHANGED <<utxos, flying, wanted>>

-----------------------------------------------------------------------------
Receivers == UNION {[1..n -> [to : Owner, data : Data]] : n \in 1..MaxSpores}

Next ==
    \/ \E u \in utxos, fee \in Fees : CreateCluster(u, fee)
    \/ \E u \in utxos, receivers \in Receivers : CreateSpores(u, receivers)
    \/ \E u \in utxos, to \in Owner, fee \in Fees : TransferSpore(u, to, fee) \/ LeapToCkb(u, to, fee)
    \/ \E tx \in flying : Broadcast(tx)
    \/ \E tx \in flying, fee \in Fees : Complete(tx, fee)
    \/ \E cs \in SUBSET {c \in cells : c.lock.kind = "time"}, fee \in Fees : UnlockTimeCells(cs, fee)
    \/ \E c \in cells, u \in utxos, fee \in Fees : LeapToBtc(c, u, fee)

Spec == Init /\ [][Next]_vars

-----------------------------------------------------------------------------
(* Properties *)

\* However often a spore moves and whoever paid before, its cell holds what it occupies,
\* the checks of the next move do not refuse it for its capacity, and the paymaster's one
\* cell covers what is missing.
NothingStuck ==
    /\ \A c \in cells : c.capacity >= Occupied(c)
    /\ \A u \in utxos, fee \in Fees, to \in Owner : \A c \in SporeCells(u) :
        \A lock \in {Rgbpp(Placeholder, 1), BtcTime(Placeholder, to)} :
            CapacitySufficient(<<PayerAndOutput(Moved(c, lock), fee)[2]>>)
    /\ \A tx \in flying : tx.payer = "paymaster" => PaymasterCovers(tx)

\* What is sent to CKB holds one witness for each input, in their order, and behind them
\* the cobuild witness of the locks the assets really get; every lock finds its witness at
\* its first input.
SignKind(lock) == IF lock.kind = "ckb" THEN "sign" ELSE "unlock"
MovedAssets(outputs) ==
    LET at == InOrder({i \in DOMAIN outputs : outputs[i].asset # Plain})
    IN  [k \in DOMAIN at |-> outputs[at[k]]]
WellWitnessed(tx) ==
    /\ Len(tx.witnesses) = Len(tx.inputs) + 1
    /\ \A i \in DOMAIN tx.inputs :
        tx.witnesses[i].kind =
            IF \E j \in 1..(i - 1) : tx.inputs[j].lock = tx.inputs[i].lock
            THEN "empty" ELSE SignKind(tx.inputs[i].lock)
    /\ Last(tx.witnesses) = CoBuild(MovedAssets(tx.outputs))
WitnessesInPlace ==
    \A fee \in Fees :
        /\ \A tx \in flying : \A done \in Completed(tx, fee) : WellWitnessed(done)
        /\ \A cs \in SUBSET {c \in cells : c.lock.kind = "time"} :
            cs # {} => WellWitnessed(Unlocked(cs, fee))

\* What the Bitcoin transaction committed to is what CKB gets, whoever completes it, and
\* the fee is paid.
CommitmentKept ==
    \A tx \in flying, fee \in Fees : \A done \in Completed(tx, fee) :
        /\ IsPrefix(WithRealBtcTxId([tx EXCEPT !.outputs = tx.committed]), done.outputs)
        /\ Sum(done.inputs) - Sum(done.outputs) \in Fees

Bound(c) == {u \in utxos : c.lock = Rgbpp(u.tx, u.vout)}
Assets == {w[1] : w \in wanted}

\* Every cluster and spore is in one cell; the cell's UTXO belongs to the receiver the caller
\* named, or a transaction that spends both is on its way to CKB.
EveryAssetOwned ==
    /\ \A a \in Assets : Cardinality({c \in cells : c.asset = a}) = 1
    /\ \A c \in cells : c.lock.kind = "rgbpp" =>
        \/ \E tx \in flying : tx.accepted /\ tx.inputs = <<c>>
        \/ \E u \in Bound(c) : c.asset = Plain \/ <<c.asset, u.owner>> \in wanted
    /\ \A c \in cells : c.lock.kind \in {"time", "ckb"} => <<c.asset, c.lock.to>> \in wanted
=============================================================================
