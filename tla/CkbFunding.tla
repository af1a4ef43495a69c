----------------------------- MODULE CkbFunding -----------------------------
(***************************************************************************)
(* The CKB transactions of packages/ckb that are paid from ordinary cells  *)
(* of one address:                                                         *)
(*                                                                         *)
(*   jump     gen(Batch)CkbJumpBtcVirtualTx: xUDT cells of the address go  *)
(*            to RGB++ cells, plain cells pay;                             *)
(*   launch   genRgbppLaunchCkbVirtualTx: the cells of the owner's UTXO    *)
(*            become the first xUDT cell and the token info cell;          *)
(*   transfer, timeCell and issue   the scripts of examples/xudt-on-ckb:   *)
(*            xUDT cells of the address go to receivers or to a BTC time   *)
(*            cell; plain cells become a token's first cells;              *)
(*   split    splitMultiCellsWithSecp256k1: paymaster cells;               *)
(*   issuer   appendIssuerCellToBtcBatchTransferToSign, and its twin for   *)
(*            Spores: the issuer pays for a finished virtual transaction;  *)
(*   unlock   prepareBtcTimeCellSpentUnsignedTx: one cell of the master    *)
(*            address pays for spending BTC time cells.                    *)
(*                                                                         *)
(* Collector.getCells reads the cells page by page, and CKB moves between  *)
(* two pages: cells are spent and new ones appear behind all others.       *)
(***************************************************************************)
EXTENDS Sums, FiniteSets, Sequences

CONSTANTS
    NumCell,            \* cells of the address, numbered in the indexer's order
    Kind, Capacity, Amount,   \* of each cell
    NumFirst,           \* the first of them exist at the start
    PageSize,           \* GET_CELLS_PAGE_SIZE
    MinCapacity,        \* MIN_CAPACITY, SECP256K1_MIN_CAPACITY: what a plain cell occupies
    MaxFee,             \* MAX_FEE, put aside until the size is known
    Fees,               \* fees that calculateTransactionFee estimates
    RgbppCapacity,      \* calculateRgbppCellCapacity(xudtType)
    RgbppOccupied,      \* what an RGB++ xUDT cell occupies
    UdtCapacity,        \* calculateUdtCellCapacity(fromLock, xudtType)
    UdtOccupied,        \* what the sender's xUDT cell occupies
    TimeOccupied,       \* what a BTC time cell occupies
    InfoCapacity,       \* calculateRgbppTokenInfoCellCapacity(rgbppTokenInfo)
    Requests            \* the calls under consideration

Cell == 1..NumCell

\* "asset" cells hold the xUDT, "plain" cells nothing, "typed" cells a type script and no
\* data, "data" cells data and no type script of this asset.
Kinds == {"asset", "plain", "typed", "data"}

ASSUME CellsAssumption ==
    /\ NumCell \in Nat /\ NumFirst \in 0..NumCell /\ PageSize \in Nat \ {0}
    /\ Kind \in [Cell -> Kinds]
    /\ Capacity \in [Cell -> Nat] /\ Amount \in [Cell -> Nat]
    /\ \A c \in Cell : Kind[c] = "plain" => Amount[c] = 0

ASSUME CapacityAssumption ==
    /\ {MinCapacity, MaxFee, RgbppCapacity, RgbppOccupied, UdtCapacity, UdtOccupied,
        TimeOccupied, InfoCapacity} \subseteq Nat
    /\ Fees \subseteq 1..MaxFee

\* The calculators of ckb-tx.ts add to what a cell occupies: 95 CKB to an RGB++ cell, so
\* that it can become a BTC time cell, and one CKB to the sender's xUDT cell.
ASSUME OccupiedAssumption ==
    /\ RgbppOccupied + MaxFee <= RgbppCapacity /\ TimeOccupied <= RgbppCapacity
    /\ UdtOccupied <= UdtCapacity

\* The calls that move xUDT cells.
Moves == {"jump", "transfer", "timeCell"}

\* "amounts" are the xUDT amounts of the receivers of a move, or the capacities of the
\* cells of a split; "given" and "asked" are the capacities of the inputs and outputs of
\* the transaction that an issuer or a master address completes, and 0 otherwise.
ASSUME RequestsAssumption ==
    /\ Requests \subseteq [kind: Moves \cup {"issue", "launch", "split", "issuer", "unlock"},
                           amounts: Seq(Nat \ {0}), given: Nat, asked: Nat]
    /\ \A r \in Requests : r.kind # "issuer" => r.given = r.asked

VARIABLES
    live,        \* cells that exist
    tip,         \* the newest cell so far: a new cell is behind all others
    request, step,
    cursor,      \* last_cursor, as the number of the last cell read
    answer,      \* allCells of getCells
    complete,    \* ~hasMoreCells
    assets,      \* inputs that collectUdtInputs chose
    tx           \* the transaction

call == <<request, step, cursor, answer, complete, assets, tx>>
chain == <<live, tip>>
vars == <<chain, call>>

Steps == {"assets", "funds", "built", "poor", "failed"}
-----------------------------------------------------------------------------
(* The Collector.                                                          *)

Total(f, S) == SumTo([c \in Cell |-> IF c \in S THEN f[c] ELSE 0], NumCell)

\* The cells that match the search key: with the type script, or with empty data.
Searched == IF step = "assets" THEN {c \in Cell : Kind[c] = "asset"}
            ELSE {c \in Cell : Kind[c] \in {"plain", "typed"}}

\* [bug] one cell behind the cursor is lost.
BehindSkipping == {c \in live \cap Searched : c > cursor + 1}

\* The next page of the indexer: the first cells behind the cursor.
Behind == {c \in live \cap Searched : c > cursor}
Page == {c \in Behind : Cardinality({d \in Behind : d < c}) < PageSize}

\* [bug] a full page ends the listing as well.
LastPageEvenIfFull == Cardinality(Page) <= PageSize
LastPage == Cardinality(Page) < PageSize

\* The shortest run of cells, in the indexer's order, that reaches the target.
Shortest(f, cells, target) == {c \in cells : Total(f, {d \in cells : d < c}) < target}

\* emptyCells.filter((cell) => !cell.output.type)
PlainUnfiltered == answer    \* [bug]
Plain == {c \in answer : Kind[c] = "plain"}

\* collectInputs; the cells of an RGB++ lock (the launch) are taken together.
CollectTarget(need) == need + MinCapacity + MaxFee
Collected(need) ==
    IF request.kind = "launch" THEN Plain ELSE Shortest(Capacity, Plain, CollectTarget(need))
-----------------------------------------------------------------------------
(* The transactions.                                                       *)

Output(capacity, occupied, amount) ==
    [capacity |-> capacity, occupied |-> occupied, amount |-> amount]
PlainCell(capacity) == Output(capacity, MinCapacity, 0)
Tx(inputs, outputs) == [inputs |-> inputs, outputs |-> outputs]
NoTx == Tx({}, <<>>)

Sum(s) == SumTo(s, Len(s))
Asked == Sum(request.amounts)
NumReceivers == Len(request.amounts)

\* The cell of a receiver.
ReceiverCapacity == IF request.kind = "transfer" THEN UdtCapacity ELSE RgbppCapacity
ReceiverOccupied ==
    CASE request.kind = "transfer" -> UdtOccupied
      [] request.kind = "timeCell" -> TimeOccupied
      [] OTHER -> RgbppOccupied

\* gen(Batch)CkbJumpBtcVirtualTx; what MAX_FEE put aside too much returns to the change. The
\* other moves take the fee off the change at once.
AssetChange == Total(Amount, assets') - Asked
\* [bug] the plain change pays for the xUDT change as well.
MoveOutputsForgetful(inputs, fee) ==
    [k \in 1..NumReceivers |-> Output(ReceiverCapacity, ReceiverOccupied, request.amounts[k])]
    \o (IF AssetChange > 0 THEN <<Output(UdtCapacity, UdtOccupied, AssetChange)>> ELSE <<>>)
    \o <<PlainCell(Total(Capacity, inputs) - NumReceivers * ReceiverCapacity - fee)>>
MoveOutputs(inputs, fee) ==
    LET udtCapacity == IF AssetChange > 0 THEN UdtCapacity ELSE 0
        changeCapacity ==
            Total(Capacity, inputs) - NumReceivers * ReceiverCapacity - MaxFee - udtCapacity
    IN  [k \in 1..NumReceivers |-> Output(ReceiverCapacity, ReceiverOccupied, request.amounts[k])]
        \o (IF AssetChange > 0 THEN <<Output(UdtCapacity, UdtOccupied, AssetChange)>> ELSE <<>>)
        \o <<PlainCell(changeCapacity + (MaxFee - fee))>>

\* genRgbppLaunchCkbVirtualTx: the xUDT cell holds what the token info cell leaves. The
\* amounts that a launch and an issue mint are left out.
LaunchOutputs(inputs, fee) ==
    <<Output(Total(Capacity, inputs) - InfoCapacity - fee, RgbppOccupied, 0),
      Output(InfoCapacity, InfoCapacity, 0)>>

\* 1-issue-xudt: the token's first cell, its info cell and the change.
IssueOutputs(inputs, fee) ==
    <<Output(UdtCapacity, UdtOccupied, 0), Output(InfoCapacity, InfoCapacity, 0),
      PlainCell(Total(Capacity, inputs) - UdtCapacity - InfoCapacity - fee)>>

SplitOutputs(inputs, fee) ==
    [k \in 1..NumReceivers |-> PlainCell(request.amounts[k])]
    \o <<PlainCell(Total(Capacity, inputs) - Asked - MaxFee + (MaxFee - fee))>>

\* appendIssuerCellToBtcBatchTransferToSign, buildAppendingIssuerCellToSporesCreateTx:
\* cells are added only if the inputs do not exceed the outputs.
IssuerPays == request.given <= request.asked
IssuerNeed == request.asked - request.given + MinCapacity
IssuerOutputs(inputs, fee) ==
    <<PlainCell(request.given + Total(Capacity, inputs) - request.asked - fee)>>

\* prepareBtcTimeCellSpentUnsignedTx: the first plain cell alone.
FirstPlain == {c \in Plain : \A d \in Plain : c <= d}
UnlockOutputs(inputs, fee) == <<PlainCell(Total(Capacity, inputs) - fee)>>
-----------------------------------------------------------------------------
(* One call.                                                               *)

\* One request of getCells.
ReadPage ==
    /\ step \in {"assets", "funds"} /\ ~complete
    /\ answer' = answer \cup Page
    /\ cursor' = IF Page = {} THEN cursor ELSE CHOOSE c \in Page : \A d \in Page : d <= c
    /\ complete' = LastPage
    /\ UNCHANGED <<chain, request, step, assets, tx>>

\* The indexer rejects, or answers an error.
ReadFails ==
    /\ step \in {"assets", "funds"} /\ ~complete
    /\ step' = "failed"
    /\ UNCHANGED <<chain, request, cursor, answer, complete, assets, tx>>

Listed == complete /\ UNCHANGED <<chain, request>>
EndsPoor == step' = "poor" /\ UNCHANGED <<cursor, answer, complete, assets, tx>>
EndsBuilt(inputs, outputs) ==
    /\ tx' = Tx(inputs, outputs)
    /\ step' = "built"
    /\ UNCHANGED <<cursor, answer, complete>>

\* sumXudtOutputCapacity: what the cells with the chosen assets take.
Taken(chosen) ==
    NumReceivers * ReceiverCapacity + (IF Total(Amount, chosen) > Asked THEN UdtCapacity ELSE 0)

\* Whether the second listing is left out.  [bug]: the capacity of the receivers' cells is
\* not asked for.
AssetsPayWithoutReceivers(inputs) ==
    Total(Capacity, inputs) >= UdtCapacity + MinCapacity + MaxFee
AssetsPay(inputs) ==
    IF request.kind = "jump"
    THEN Total(Capacity, inputs) >=
             UdtCapacity + NumReceivers * RgbppCapacity + MinCapacity + MaxFee
    ELSE Total(Capacity, inputs) > Taken(inputs)

CollectAssets ==
    /\ Listed /\ step = "assets"
    /\ IF answer = {} \/ Total(Amount, answer) < Asked
       THEN EndsPoor
       ELSE /\ assets' = Shortest(Amount, answer, Asked)
            /\ IF AssetsPay(assets')
               THEN \E fee \in Fees : EndsBuilt(assets', MoveOutputs(assets', fee))
               ELSE /\ step' = "funds" /\ cursor' = 0 /\ answer' = {} /\ complete' = FALSE
                    /\ UNCHANGED tx

\* A jump asks the plain cells for one receiver's cell, in the batch as well; the other
\* moves ask for what lacks.
FundsNeed ==
    IF request.kind = "jump" THEN RgbppCapacity ELSE Taken(assets) - Total(Capacity, assets)

CollectFunds ==
    /\ Listed /\ step = "funds" /\ request.kind \in Moves
    /\ IF Total(Capacity, Plain) < CollectTarget(FundsNeed)
       THEN EndsPoor
       ELSE /\ UNCHANGED assets
            /\ \E fee \in Fees :
                   LET inputs == assets \cup Collected(FundsNeed)
                   IN  EndsBuilt(inputs, MoveOutputs(inputs, fee))

BuildIssue ==
    /\ Listed /\ step = "funds" /\ request.kind = "issue"
    /\ IF Total(Capacity, Plain) < CollectTarget(UdtCapacity + InfoCapacity)
       THEN EndsPoor
       ELSE /\ UNCHANGED assets
            /\ \E fee \in Fees :
                   LET inputs == Collected(UdtCapacity + InfoCapacity)
                   IN  EndsBuilt(inputs, IssueOutputs(inputs, fee))

BuildLaunch ==
    /\ Listed /\ step = "funds" /\ request.kind = "launch"
    /\ IF Total(Capacity, Plain) < CollectTarget(InfoCapacity)
       THEN EndsPoor
       ELSE /\ UNCHANGED assets
            /\ \E fee \in Fees :
                   LET inputs == Collected(InfoCapacity)
                   IN  EndsBuilt(inputs, LaunchOutputs(inputs, fee))

BuildSplit ==
    /\ Listed /\ step = "funds" /\ request.kind = "split"
    /\ IF Total(Capacity, Plain) < CollectTarget(Asked)
       THEN EndsPoor
       ELSE /\ UNCHANGED assets
            /\ \E fee \in Fees :
                   LET inputs == Collected(Asked)
                   IN  EndsBuilt(inputs, SplitOutputs(inputs, fee))

AppendIssuer ==
    /\ Listed /\ step = "funds" /\ request.kind = "issuer"
    /\ IF answer = {} \/ (IssuerPays /\ Total(Capacity, Plain) < CollectTarget(IssuerNeed))
       THEN EndsPoor
       ELSE /\ UNCHANGED assets
            /\ \E fee \in Fees :
                   LET inputs == IF IssuerPays THEN Collected(IssuerNeed) ELSE {}
                   IN  EndsBuilt(inputs, IssuerOutputs(inputs, fee))

PayUnlock ==
    /\ Listed /\ step = "funds" /\ request.kind = "unlock"
    /\ IF Plain = {}
       THEN EndsPoor
       ELSE /\ UNCHANGED assets
            /\ \E fee \in Fees :
                   EndsBuilt(FirstPlain, UnlockOutputs(FirstPlain, fee))

\* CKB: a cell is spent by another transaction, a new one appears.
Spend(c) == c \in live /\ live' = live \ {c} /\ UNCHANGED <<tip, call>>
Appear == tip < NumCell /\ tip' = tip + 1 /\ live' = live \cup {tip'} /\ UNCHANGED call
-----------------------------------------------------------------------------
Init ==
    /\ live = 1..NumFirst /\ tip = NumFirst
    /\ request \in Requests
    /\ step = IF request.kind \in Moves THEN "assets" ELSE "funds"
    /\ cursor = 0 /\ answer = {} /\ complete = FALSE
    /\ assets = {} /\ tx = NoTx

Next ==
    \/ ReadPage \/ ReadFails
    \/ CollectAssets \/ CollectFunds
    \/ BuildIssue \/ BuildLaunch \/ BuildSplit \/ AppendIssuer \/ PayUnlock
    \/ \E c \in Cell : Spend(c)
    \/ Appear

Spec == Init /\ [][Next]_vars
-----------------------------------------------------------------------------
(* Correctness.                                                            *)

CkbOutput == [capacity: Int, occupied: Nat, amount: Nat]

\* The types; a transaction exists exactly when the call has built one.
TypeOK ==
    /\ tip \in NumFirst..NumCell /\ live \subseteq 1..tip
    /\ request \in Requests /\ step \in Steps
    /\ cursor \in 0..tip /\ answer \subseteq 1..tip /\ complete \in BOOLEAN
    /\ assets \subseteq 1..tip
    /\ tx \in [inputs: SUBSET (1..tip), outputs: Seq(CkbOutput)]
    /\ tx = NoTx <=> step # "built"

\* Cells that exist since the start.
Lasting(kind) == {c \in live : c <= NumFirst /\ Kind[c] = kind}

\* However the cells move while getCells pages through them, a complete answer holds
\* every matching cell that was there all the time.
NothingMissed ==
    step \in {"assets", "funds"} /\ complete =>
        \A c \in live \cap Searched : c <= NumFirst => c \in answer

\* What the call would have to find lacking among some cells to be refused for it.
Lacking(assetCells, plainCells, typedCells) ==
    \/ /\ request.kind \in Moves
       /\ \/ assetCells = {} \/ Total(Amount, assetCells) < Asked
          \/ /\ assets # {} \/ request.amounts = <<>>
             /\ Total(Capacity, plainCells) < CollectTarget(FundsNeed)
    \/ /\ request.kind = "issue"
       /\ Total(Capacity, plainCells) < CollectTarget(UdtCapacity + InfoCapacity)
    \/ request.kind = "launch" /\ Total(Capacity, plainCells) < CollectTarget(InfoCapacity)
    \/ request.kind = "split" /\ Total(Capacity, plainCells) < CollectTarget(Asked)
    \/ /\ request.kind = "issuer"
       /\ \/ plainCells \cup typedCells = {}
          \/ IssuerPays /\ Total(Capacity, plainCells) < CollectTarget(IssuerNeed)
    \/ request.kind = "unlock" /\ plainCells = {}

\* A call is refused for lack of cells, amount or capacity only if the cells that were
\* there all the time lack it.
PoorOnlyIfPoor ==
    step = "poor" => Lacking(Lasting("asset"), Lasting("plain"), Lasting("typed"))

\* The transaction balances: outputs and the estimated fee take exactly what the inputs
\* give, whatever part of MAX_FEE was put aside in between.
CapacityBalanced ==
    step = "built" => \E fee \in Fees :
        Total(Capacity, tx.inputs) + request.given =
        Sum([i \in DOMAIN tx.outputs |-> tx.outputs[i].capacity]) + request.asked + fee

\* A move neither creates nor burns an amount, and no transaction takes a cell of
\* another kind as if it were money.
NothingBurned ==
    step = "built" =>
        /\ Total(Amount, tx.inputs) = Sum([i \in DOMAIN tx.outputs |-> tx.outputs[i].amount])
        /\ \A c \in tx.inputs : Kind[c] = "plain" \/ (request.kind \in Moves /\ Kind[c] = "asset")

\* Every output holds what it occupies, or CKB rejects the transaction.
OutputsViable ==
    step = "built" =>
        \A i \in DOMAIN tx.outputs : tx.outputs[i].capacity >= tx.outputs[i].occupied

\* So it is for callers that come prepared: a single receiver, whose xUDT came in cells
\* that hold a cell's capacity together, or assets that pay for everything; another move
\* whose assets are not worth a little more than the cells they become; a launch cell made
\* as the example makes it; paymaster cells of legal size; an issuer who has something to
\* pay for; a master cell that holds more than it occupies.
Prepared ==
    CASE request.kind = "jump" ->
            \/ tx.inputs = assets
            \/ NumReceivers = 1 /\ Total(Capacity, assets) >= UdtCapacity
      [] request.kind \in {"transfer", "timeCell"} ->
            tx.inputs = assets =>
                Total(Capacity, assets) >= Taken(assets) + MinCapacity + MaxFee
      [] request.kind = "issue" -> TRUE
      [] request.kind = "launch" -> Total(Capacity, tx.inputs) >= RgbppCapacity + InfoCapacity
      [] request.kind = "split" -> \A k \in 1..NumReceivers : request.amounts[k] >= MinCapacity
      [] request.kind = "issuer" -> IssuerPays
      [] request.kind = "unlock" -> Total(Capacity, tx.inputs) >= MinCapacity + MaxFee
OutputsViableIfPrepared == Prepared => OutputsViable
=============================================================================
