--------------------------- MODULE RgbppTransfer ----------------------------
(***************************************************************************)
(* One RGB++ transaction of packages/ckb and packages/btc, from the choice *)
(* of BTC UTXOs to the CKB transaction that moves the cells bound to them: *)
(*                                                                         *)
(*   gen...CkbVirtualTx   reads the cells bound to the chosen UTXOs and    *)
(*                        builds the virtual CKB transaction;              *)
(*   createSendRgbppUtxosBuilder  builds the Bitcoin transaction that      *)
(*                        spends the UTXOs and has one output per new      *)
(*                        RGB++ cell;                                      *)
(*   Bitcoin accepts it; the RGB++ queue writes its id into the lock args, *)
(*                        adds witnesses and a paymaster cell, and sends   *)
(*                        the CKB transaction.                             *)
(*                                                                         *)
(* The two chains move while the client works: another wallet of the same  *)
(* user may spend a UTXO and then its cells, and anyone may bind a new     *)
(* cell to a UTXO (a leap from CKB).  A cell whose UTXO is spent by a      *)
(* transaction that does not consume it is lost.                           *)
(***************************************************************************)
EXTENDS Sums, Orders, Sequences, SequencesExt

CONSTANTS
    NumCell,                   \* cells, numbered in the order of compareInputs
    UtxoOf, TypeOf, Amount, Capacity,   \* of each cell: the UTXO in its lock args, ...
    Late,                      \* cells that are bound only after the start
    Supported,                 \* type scripts that isUDTTypeSupported accepts
    MinCapacity,               \* occupied capacity of an RGB++ xUDT cell
    MinTimeCapacity,           \* occupied capacity of the BTC time cell
    CellCapacity,              \* calculateRgbppCellCapacity(xudtType)
    DefaultCellCapacity,       \* calculateRgbppCellCapacity()
    MinChange,                 \* MIN_CAPACITY
    CkbFee,                    \* estimated fee of a CKB transaction
    PaymasterCapacity,         \* capacity of the queue's paymaster cell
    MaxInputs,                 \* RGBPP_TX_INPUTS_MAX_LENGTH
    From,                      \* the sender's Bitcoin address
    Requests                   \* the calls under consideration

Cell == 1..NumCell
Utxo == {UtxoOf[c] : c \in Cell}
Kinds == {"transfer", "split", "batch", "jump"}

ASSUME CellsAssumption ==
    /\ NumCell \in Nat
    /\ Amount \in [Cell -> Nat] /\ Capacity \in [Cell -> Nat]
    /\ {MinCapacity, MinTimeCapacity, CellCapacity, DefaultCellCapacity, MinChange,
        CkbFee, PaymasterCapacity, MaxInputs} \subseteq Nat
    /\ Late \subseteq Cell
    /\ \A c \in Cell : Capacity[c] >= MinCapacity    \* CKB's rule
    /\ MinCapacity <= CellCapacity /\ MinTimeCapacity <= CellCapacity

\* A cell's standard capacity is at least the default, and the queue's cell pays for one
\* cell and its own change.
ASSUME PaymasterAssumption ==
    /\ DefaultCellCapacity <= CellCapacity /\ 0 < CkbFee
    /\ PaymasterCapacity > CellCapacity + MinChange

\* "locks" is rgbppLockArgsList without duplicates.  The batch transfer has one amount
\* per receiver, the split (noMergeOutputCells) none.  tos are receiving addresses: one
\* for a transfer, at most one for each lock in a split, one per receiver in a batch
\* transfer; a leap to CKB names nobody but the sender.
ASSUME RequestsAssumption ==
    \A r \in Requests :
        /\ r.kind \in Kinds
        /\ r.locks \in Seq(Utxo) /\ IsInjective(r.locks) /\ r.locks # <<>>
        /\ r.amounts \in Seq(Nat \ {0})
        /\ r.kind = "transfer" => DOMAIN r.tos \subseteq {1}
        /\ r.kind = "split" => DOMAIN r.tos \subseteq DOMAIN r.locks
        /\ r.kind = "batch" => DOMAIN r.tos \subseteq DOMAIN r.amounts
        /\ r.kind = "jump" => \A i \in DOMAIN r.tos : r.tos[i] = From

VARIABLES
    live,        \* CKB cells that exist
    unspent,     \* Bitcoin UTXOs that are not spent
    rivals,      \* UTXOs another wallet has spent, whose cells it has still to move
    leapt,       \* the cells of Late that were bound
    request, step,
    read,        \* locks read so far
    found,       \* cells getCells has answered so far
    tx,          \* the virtual CKB transaction
    paymaster,   \* needPaymasterCell
    btcOutputs   \* outputs of the Bitcoin transaction; vout v is btcOutputs[v + 1]

world == <<live, unspent, rivals, leapt>>
vars == <<world, request, step, read, found, tx, paymaster, btcOutputs>>

Steps == {"collect", "lookup", "complete", "broadcast", "accepted", "queued",
          "committed", "rejected", "unposted", "stuck"}
-----------------------------------------------------------------------------
(* The cells of the call.                                                  *)

Total(f, S) == SumTo([c \in Cell |-> IF c \in S THEN f[c] ELSE 0], NumCell)

\* The amounts of transferAmount or of rgbppReceivers.
Wanted == SumTo(request.amounts, Len(request.amounts))

\* [bug] stops at the wanted amount, as for an ordinary lock.
CollectedUntilEnough(cells) ==
    {c \in cells : Total(Amount, {d \in cells : d < c}) < Wanted}

\* collectUdtInputs takes every cell of an RGB++ lock, whatever amount is needed:
\* spending the UTXO unbinds all of them.
Collected(cells) == cells

Target == Collected({c \in found : TypeOf[c] = request.type})
Others == {c \in found : TypeOf[c] # request.type}

\* throwErrorWhenRgbppCellsInvalid, for the cells of one lock.
Valid(cells) ==
    /\ \E c \in cells : TypeOf[c] = request.type
    /\ \A c \in cells : TypeOf[c] \in Supported

Change == Total(Amount, Target) - Wanted
\* [bug] a change of one unit is not returned.
NeedRgbppChangeAboveOne == Change > 1
NeedRgbppChange == Change > 0
-----------------------------------------------------------------------------
(* The virtual transaction.  An output with an RGB++ lock names the output *)
(* of the Bitcoin transaction it is bound to.                              *)

Rgbpp(vout, amount, capacity) ==
    [lock |-> "rgbpp", vout |-> vout, type |-> request.type,
     amount |-> amount, capacity |-> capacity]

BtcTime(amount, capacity) ==
    [Rgbpp(1, amount, capacity) EXCEPT !.lock = "btcTime", !.vout = 0]

Occupied(output) == IF output.lock = "btcTime" THEN MinTimeCapacity ELSE MinCapacity

\* [bug] continues at the last output of the target asset.
NonTargetOverlapping(n) == [k \in 1..Cardinality(Others) |->
    LET c == InOrder(Others)[k]
    IN  [Rgbpp(n + k - 1, Amount[c], Capacity[c]) EXCEPT !.type = TypeOf[c]]]

\* handleNonTargetRgbppCells: the cells of other types, behind n outputs.
NonTarget(n) == [k \in 1..Cardinality(Others) |->
    LET c == InOrder(Others)[k]
    IN  [Rgbpp(n + k, Amount[c], Capacity[c]) EXCEPT !.type = TypeOf[c]]]

\* How the capacity of the target cells is divided when the receiver's output occupies
\* at least "least": everything to the receiver without a change output, otherwise as
\* much as the first cell holds, if the rest suffices for the change.
InputCapacity == Total(Capacity, Target)
FirstCapacity == Capacity[InOrder(Target)[1]]

ReceiverCapacity(least) ==
    LET held == IF NeedRgbppChange THEN FirstCapacity ELSE InputCapacity
    IN  IF held > least THEN held ELSE CellCapacity

SufficientForChange(least) == InputCapacity > ReceiverCapacity(least) + DefaultCellCapacity
ChangeCapacity(least) ==
    IF SufficientForChange(least) THEN InputCapacity - ReceiverCapacity(least)
                                  ELSE CellCapacity

NeedPaymaster(least) ==
    IF NeedRgbppChange THEN ~SufficientForChange(least)
                       ELSE InputCapacity < ReceiverCapacity(least)

\* The outputs of genBtcTransferCkbVirtualTx (merged, and noMergeOutputCells), of
\* genBtcBatchTransferCkbVirtualTx and of genBtcJumpCkbVirtualTx.
TransferOutputs ==
    LET target == <<Rgbpp(1, Wanted, ReceiverCapacity(MinCapacity))>> \o
            (IF NeedRgbppChange THEN <<Rgbpp(2, Change, ChangeCapacity(MinCapacity))>> ELSE <<>>)
    IN  target \o NonTarget(Len(target))

SplitOutputs ==
    [k \in 1..Cardinality(Target) |->
        LET c == InOrder(Target)[k] IN Rgbpp(k, Amount[c], Capacity[c])]
    \o NonTarget(Cardinality(Target))

BatchOutputs ==
    LET n == Len(request.amounts)
    IN  [k \in 1..n |-> Rgbpp(k, request.amounts[k], CellCapacity)] \o
        (IF NeedRgbppChange THEN <<Rgbpp(n + 1, Change, CellCapacity)>> ELSE <<>>)

JumpOutputs ==
    LET target == <<BtcTime(Wanted, ReceiverCapacity(MinTimeCapacity))>> \o
            (IF NeedRgbppChange THEN <<Rgbpp(1, Change, ChangeCapacity(MinTimeCapacity))>> ELSE <<>>)
    IN  target \o NonTarget(Len(target))

\* adjustVirtualTxForTxFee: the last output pays the fee if it can.
LastPaysFee(outputs) ==
    outputs[Len(outputs)].capacity >= CkbFee + Occupied(outputs[Len(outputs)])
MinusFee(outputs) == [outputs EXCEPT ![Len(outputs)].capacity = @ - CkbFee]

Virtual(outputs) ==
    [inputs |-> InOrder(Target) \o InOrder(Others), outputs |-> outputs]
NoTx == [inputs |-> <<>>, outputs |-> <<>>]
-----------------------------------------------------------------------------
(* The client.                                                             *)

\* Any await of the client may reject, and so may a check it makes: nothing has been
\* signed yet.
Reject ==
    /\ step \in {"collect", "lookup", "complete"}
    /\ step' = "rejected"
    /\ UNCHANGED <<world, request, read, found, tx, paymaster, btcOutputs>>

\* getCells for the next lock.  The batch transfer asks for the target type only.
ReadLock ==
    /\ step = "collect" /\ read < Len(request.locks)
    /\ LET cells == {c \in live : /\ UtxoOf[c] = request.locks[read + 1]
                                  /\ request.kind = "batch" => TypeOf[c] = request.type}
       IN  /\ Valid(cells)
           /\ found' = found \cup cells
    /\ read' = read + 1
    /\ UNCHANGED <<world, request, step, tx, paymaster, btcOutputs>>

\* The outputs built for the request, whether they need a paymaster cell before the fee
\* is considered, and the checks of the amount and of the number of inputs.
Built(outputs, needPaymaster) ==
    /\ paymaster' = (needPaymaster \/ (request.kind # "batch" /\ ~LastPaysFee(outputs)))
    /\ tx' = Virtual(IF paymaster' \/ request.kind = "batch" THEN outputs ELSE MinusFee(outputs))
    /\ \A i \in DOMAIN tx'.outputs : tx'.outputs[i].capacity >= Occupied(tx'.outputs[i])
    /\ step' = "lookup"
    /\ UNCHANGED <<world, request, read, found, btcOutputs>>

AllRead == step = "collect" /\ read = Len(request.locks)
Affordable == Change >= 0 /\ Cardinality(Target) <= MaxInputs

BuildTransfer ==
    /\ AllRead /\ request.kind = "transfer" /\ Affordable
    /\ Built(TransferOutputs, NeedPaymaster(MinCapacity))
BuildSplit == AllRead /\ request.kind = "split" /\ Built(SplitOutputs, FALSE)
BuildBatch == AllRead /\ request.kind = "batch" /\ Affordable /\ Built(BatchOutputs, FALSE)
BuildJump ==
    /\ AllRead /\ request.kind = "jump" /\ Affordable
    /\ Built(JumpOutputs, NeedPaymaster(MinTimeCapacity))

\* createSendRgbppUtxosBuilder reads the input cells again: a dead one has no lock to
\* unpack, which throws.  Spent UTXOs are still found by getUtxo.
LookUpInputs ==
    /\ step = "lookup"
    /\ ToSet(tx.inputs) \subseteq live
    /\ step' = "complete"
    /\ UNCHANGED <<world, request, read, found, tx, paymaster, btcOutputs>>

\* [bug] spends the UTXO of the first cell only.
BtcInputsOfFirst == {UtxoOf[tx.inputs[1]]}
BtcInputs == {UtxoOf[c] : c \in ToSet(tx.inputs)}

\* checkCkbTxInputsCapacitySufficient, for callers that do not pass needPaymaster.
OutputCapacity == SumTo([i \in DOMAIN tx.outputs |-> tx.outputs[i].capacity], Len(tx.outputs))
\* [bug] exactly the capacity of the outputs leaves nothing for the fee.
InputsReachOutputs == Total(Capacity, ToSet(tx.inputs)) >= OutputCapacity
InputsSufficient == Total(Capacity, ToSet(tx.inputs)) > OutputCapacity

\* getMergedBtcOutputs: the commitment, one output per RGB++ cell, the paymaster's.
\* "cell" is the CKB output a Bitcoin output was made for.
ToFrom(kind) == [to |-> From, cell |-> 0, what |-> kind]
Commitment == <<ToFrom("commitment")>>
CellOutputs ==
    LET bound == InOrder({i \in DOMAIN tx.outputs : tx.outputs[i].lock = "rgbpp"})
    IN  [k \in DOMAIN bound |->
            [to |-> IF bound[k] \in DOMAIN request.tos THEN request.tos[bound[k]] ELSE From,
             cell |-> bound[k], what |-> "cell"]]
PaymasterOutput ==
    IF request.kind # "batch" /\ ~InputsSufficient THEN <<ToFrom("paymaster")>> ELSE <<>>

\* createSendUtxosBuilder keeps the leading fixed outputs (LeadingFixedKept of module
\* TxBuilder) and may append a change output.
CompleteBtcTx ==
    /\ step = "complete"
    /\ ToSet(tx.inputs) \subseteq live      \* getLiveCell of the capacity check
    /\ \E change \in {<<>>, <<ToFrom("change")>>} :
           btcOutputs' = Commitment \o CellOutputs \o PaymasterOutput \o change
    /\ step' = "broadcast"
    /\ UNCHANGED <<world, request, read, found, tx, paymaster>>

\* sendBtcTransaction: Bitcoin rejects a transaction with a spent input.
Broadcast ==
    /\ step = "broadcast"
    /\ IF BtcInputs \subseteq unspent
       THEN unspent' = unspent \ BtcInputs /\ step' = "accepted"
       ELSE UNCHANGED unspent /\ step' = "rejected"
    /\ UNCHANGED <<live, rivals, leapt, request, read, found, tx, paymaster, btcOutputs>>

\* sendRgbppCkbTransaction hands the virtual transaction to the queue, or fails:
\* sendRgbppTxGroups then reports an error and goes on with the next group.
PostToQueue ==
    /\ step = "accepted"
    /\ step' \in {"queued", "unposted"}
    /\ UNCHANGED <<world, request, read, found, tx, paymaster, btcOutputs>>

\* The queue: appendPaymasterCellAndSignCkbTx throws if the paymaster cell does not
\* cover the missing capacity; otherwise the CKB transaction is sent.  The batch
\* transfer is completed with cells of the issuer, which are not modelled here.
PaymasterCovers ==
    Total(Capacity, ToSet(tx.inputs)) + PaymasterCapacity > OutputCapacity + MinChange
SendCkbTx ==
    /\ step = "queued"
    /\ IF paymaster /\ ~PaymasterCovers
       THEN step' = "stuck" /\ UNCHANGED live
       ELSE /\ ToSet(tx.inputs) \subseteq live
            /\ live' = live \ ToSet(tx.inputs)
            /\ step' = "committed"
    /\ UNCHANGED <<unspent, rivals, leapt, request, read, found, tx, paymaster, btcOutputs>>
-----------------------------------------------------------------------------
(* The chains.                                                             *)

RivalSpends(u) ==
    /\ u \in unspent
    /\ unspent' = unspent \ {u}
    /\ rivals' = rivals \cup {u}
    /\ UNCHANGED <<live, leapt, request, step, read, found, tx, paymaster, btcOutputs>>

RivalMovesCells(u) ==
    /\ u \in rivals
    /\ rivals' = rivals \ {u}
    /\ live' = {c \in live : UtxoOf[c] # u}
    /\ UNCHANGED <<unspent, leapt, request, step, read, found, tx, paymaster, btcOutputs>>

LeapToBtc(c) ==
    /\ c \in Late \ leapt
    /\ leapt' = leapt \cup {c}
    /\ live' = live \cup {c}
    /\ UNCHANGED <<unspent, rivals, request, step, read, found, tx, paymaster, btcOutputs>>

Init ==
    /\ live = Cell \ Late /\ unspent = Utxo /\ rivals = {} /\ leapt = {}
    /\ request \in Requests
    /\ step = "collect" /\ read = 0 /\ found = {}
    /\ tx = NoTx /\ paymaster = FALSE /\ btcOutputs = <<>>

Next ==
    \/ Reject \/ ReadLock
    \/ BuildTransfer \/ BuildSplit \/ BuildBatch \/ BuildJump
    \/ LookUpInputs \/ CompleteBtcTx \/ Broadcast \/ PostToQueue \/ SendCkbTx
    \/ \E u \in Utxo : RivalSpends(u) \/ RivalMovesCells(u)
    \/ \E c \in Late : LeapToBtc(c)

Spec == Init /\ [][Next]_vars
-----------------------------------------------------------------------------
(* Correctness.                                                            *)

Started == step \notin {"collect", "rejected"}

\* Nothing is lost on the way: a cell whose UTXO the call spends is consumed by its
\* CKB transaction.  Two kinds of cells are lost: one bound after its lock was read, and,
\* in a batch transfer, which asks for one type, one of another type.
Forgotten == (Late \ found) \cup
             {c \in Cell : request.kind = "batch" /\ TypeOf[c] # request.type}
NoCellStranded ==
    step \in {"accepted", "queued", "unposted", "committed"} =>
        \A c \in live \ Forgotten : UtxoOf[c] \in BtcInputs => c \in ToSet(tx.inputs)

\* Once Bitcoin has accepted the transaction nobody else can move its cells: the CKB
\* transaction that completes it stays valid until the queue sends it.
InputsStayLive == step \in {"accepted", "queued", "unposted"} => ToSet(tx.inputs) \subseteq live

\* The virtual transaction moves every asset: per type the outputs hold what the inputs
\* held, change included.
AmountsConserved ==
    Started => \A t \in Supported :
        Total(Amount, {c \in ToSet(tx.inputs) : TypeOf[c] = t}) =
        SumTo([i \in DOMAIN tx.outputs |->
                  IF tx.outputs[i].type = t THEN tx.outputs[i].amount ELSE 0], Len(tx.outputs))

\* Every CKB transaction can pay: without a paymaster cell the inputs hold the outputs and
\* the fee; with one, the queue's cell covers what is missing (if the first cell holds
\* more than the receiver's output occupies), and the Bitcoin transaction has paid for
\* it.  Otherwise the transaction is stuck after Bitcoin took its half.
SelfPaying == Total(Capacity, ToSet(tx.inputs)) >= OutputCapacity + CkbFee
PaymasterPaid ==
    paymaster <=> \E v \in DOMAIN btcOutputs : btcOutputs[v].what = "paymaster"
CapacityPaid ==
    Started =>
        /\ request.kind # "batch" /\ ~paymaster => SelfPaying
        /\ paymaster /\ FirstCapacity > Occupied(tx.outputs[1]) => PaymasterCovers
        /\ btcOutputs # <<>> => PaymasterPaid

\* A new RGB++ cell is bound to the Bitcoin output made for it, and only what is
\* transferred leaves the sender.
Transferred(i) ==
    CASE request.kind = "transfer" -> i = 1
      [] request.kind = "split" -> i <= Cardinality(Target)
      [] request.kind = "batch" -> i <= Len(request.amounts)
      [] request.kind = "jump" -> FALSE
BindingCorrect ==
    btcOutputs # <<>> =>
        \A i \in DOMAIN tx.outputs : tx.outputs[i].lock = "rgbpp" =>
            LET v == tx.outputs[i].vout + 1
            IN  /\ v \in DOMAIN btcOutputs
                /\ btcOutputs[v].cell = i
                /\ Transferred(i) \/ btcOutputs[v].to = From

\* The same except for a leap to CKB that carries cells of other types: their lock args
\* count the BTC time cell, which has no Bitcoin output.
BindingCorrectUnlessMixedJump ==
    ~(request.kind = "jump" /\ Others # {}) => BindingCorrect
=============================================================================
