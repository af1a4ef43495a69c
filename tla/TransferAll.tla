---------------------------- MODULE TransferAll -----------------------------
(***************************************************************************)
(* buildRgbppTransferAllTxs of packages/rgbpp: all cells of one xUDT that  *)
(* some Bitcoin addresses own go to one receiver.  The cells are found in  *)
(* three rounds of concurrent requests, UTXOs are put into groups of at    *)
(* most RGBPP_TX_INPUTS_MAX_LENGTH cells, and for each group a pair of     *)
(* transactions is built, one after the other.  Other wallets spend UTXOs, *)
(* move cells and leap cells in at any moment.                             *)
(***************************************************************************)
EXTENDS Sums, Orders, FiniteSets, Sequences

CONSTANTS
    AssetAddress, From, To,   \* the owners, who pays, who receives
    NumUtxo, Owner,           \* UTXOs in the order of getUtxos, and their addresses
    NumCell, Bound,           \* cells in the order of compareInputs, and their UTXOs
    Type, Amount,             \* of each cell
    MaxCells,                 \* RGBPP_TX_INPUTS_MAX_LENGTH
    MaxFeeInputs,             \* bound on the inputs that pay a fee
    MaxMoves,                 \* bound on the steps of other wallets
    Worlds                    \* the cells that may exist at the start

Utxo == 1..NumUtxo
Cell == 1..NumCell

\* A "twin" has the type args of the "target" and another code hash; both, and "other",
\* are xUDT types that isUDTTypeSupported knows.
Types == {"target", "twin", "other", "unsupported"}

ASSUME WorldAssumption ==
    /\ NumUtxo \in Nat /\ NumCell \in Nat
    /\ Bound \in [Cell -> Utxo] /\ Type \in [Cell -> Types] /\ Amount \in [Cell -> Nat]
    /\ Owner \in [Utxo -> AssetAddress \cup {From}]
    /\ Worlds \subseteq SUBSET Cell
ASSUME LimitAssumption == MaxCells \in Nat \ {0} /\ MaxFeeInputs \in Nat /\ MaxMoves \in Nat

VARIABLES
    unspent, cells, moves,      \* Bitcoin, CKB, steps of others so far
    step, pending,              \* addresses that have not answered yet
    utxoIds, utxoMap,           \* UTXOs of the cells listed; those that are listed as well
    unread, cellsMap, invalidUtxoIds,
    rgbppGroups,                \* valid UTXOs in the order in which their cells arrived
    groups,                     \* sets of indices of rgbppGroups
    toRead, found,              \* locks of a group still to read, cells read so far
    usedBtcUtxos, txs

world == <<unspent, cells, moves>>
listing == <<pending, utxoIds, utxoMap>>
reading == <<unread, cellsMap, invalidUtxoIds, rgbppGroups>>
building == <<toRead, found, usedBtcUtxos, txs>>
vars == <<world, step, listing, reading, groups, building>>

Steps == {"assets", "utxos", "cells", "groups", "locks", "done",
          "unavailable", "failed", "insufficient", "unsummarized"}

\* UTXOs that only_non_rgbpp_utxos leaves for the fee.
FeeUtxo == {u \in Utxo : Owner[u] = From} \ {Bound[c] : c \in Cell}
CellsOf(u) == {c \in cells : Bound[c] = u}
Total(S) == SumTo([c \in Cell |-> IF c \in S THEN Amount[c] ELSE 0], NumCell)

First(n, S) == {u \in S : Cardinality({v \in S : v < u}) < n}
-----------------------------------------------------------------------------
(* The three rounds of requests.                                           *)

ServiceFails ==
    /\ step \in {"assets", "utxos", "cells", "locks"}
    /\ step' = "unavailable"
    /\ UNCHANGED <<world, listing, reading, groups, building>>

\* After the last answer of a round the next one starts.
Answered(a, next) ==
    /\ a \in pending
    /\ IF pending = {a} THEN step' = next /\ pending' = AssetAddress
       ELSE step' = step /\ pending' = pending \ {a}

\* getRgbppAssetsByBtcAddress(address, type_script)
ListAssets(a) ==
    /\ step = "assets" /\ Answered(a, "utxos")
    /\ utxoIds' = utxoIds \cup {u \in unspent : Owner[u] = a /\ \E c \in CellsOf(u) : Type[c] = "target"}
    /\ UNCHANGED <<world, utxoMap, reading, groups, building>>

\* getUtxos(address)
ListUtxos(a) ==
    /\ step = "utxos" /\ Answered(a, "cells")
    /\ utxoMap' = utxoMap \cup {u \in utxoIds \cap unspent : Owner[u] = a}
    /\ unread' = utxoIds
    /\ UNCHANGED <<world, utxoIds, cellsMap, invalidUtxoIds, rgbppGroups, groups, building>>

Invalid(u) ==
    \/ u \notin utxoMap
    \/ Cardinality(CellsOf(u)) > MaxCells
    \/ \E c \in CellsOf(u) : Type[c] = "unsupported"

\* getRgbppAssetsByBtcUtxo(txid, vout); the answers come in any order.
ReadCells(u) ==
    /\ step = "cells" /\ u \in unread
    /\ unread' = unread \ {u}
    /\ cellsMap' = [cellsMap EXCEPT ![u] = CellsOf(u)]
    /\ IF Invalid(u)
       THEN invalidUtxoIds' = invalidUtxoIds \cup {u} /\ UNCHANGED rgbppGroups
       ELSE rgbppGroups' = Append(rgbppGroups, u) /\ UNCHANGED invalidUtxoIds
    /\ UNCHANGED <<world, step, listing, groups, building>>
-----------------------------------------------------------------------------
(* groupNumbersBySum, mapGroupsByIndices.                                  *)

Index == DOMAIN rgbppGroups
Load(group) ==
    SumTo([i \in Index |-> IF i \in group THEN Cardinality(cellsMap[rgbppGroups[i]]) ELSE 0],
          Len(rgbppGroups))

\* [bug] the group is full only after it has overflowed.
FitsOverfull(group, i) == Load(group) < MaxCells
Fits(group, i) == Load(group) < MaxCells /\ Load(group \cup {i}) <= MaxCells

\* backtrack: no number is larger than the target, so it never takes one back and a
\* group takes, in their order, the unused numbers that still fit.
Take(unused, group, i) == IF i \in unused /\ Fits(group, i) THEN group \cup {i} ELSE group
Backtrack(unused) ==
    LET taken[i \in 0..Len(rgbppGroups)] == IF i = 0 THEN {} ELSE Take(unused, taken[i - 1], i)
    IN  taken[Len(rgbppGroups)]

\* A number that is in no group when its turn comes opens the next one.
Visit(done, i) ==
    LET unused == Index \ UNION {done[k] : k \in DOMAIN done}
    IN  IF i \in unused THEN Append(done, Backtrack(unused)) ELSE done
GroupNumbersBySum ==
    LET visited[i \in 0..Len(rgbppGroups)] == IF i = 0 THEN <<>> ELSE Visit(visited[i - 1], i)
    IN  visited[Len(rgbppGroups)]

Relocate ==
    /\ step = "cells" /\ unread = {}
    /\ groups' = GroupNumbersBySum
    /\ step' = "groups"
    /\ UNCHANGED <<world, listing, reading, building>>
-----------------------------------------------------------------------------
(* One group after the other.                                              *)

Current == groups[Len(txs) + 1]
GroupUtxos(group) == {rgbppGroups[i] : i \in group}
Summarized(group) == UNION {cellsMap[u] : u \in GroupUtxos(group)}

\* The summary counts by type args.
SameArgs(S) == {c \in S : Type[c] \in {"target", "twin"}}
\* [bug] the summary of all groups so far.
XudtAmountSoFar(group) == Total(SameArgs(Summarized(UNION {groups[k] : k \in 1..(Len(txs) + 1)})))
XudtAmount(group) == Total(SameArgs(Summarized(group)))
Targets(S) == {c \in S : Type[c] = "target"}
KnownCells == UNION {cellsMap[u] : u \in GroupUtxos(Index)}

Fails == step' = "failed" /\ UNCHANGED <<listing, reading, groups, building>>

StartGroup ==
    /\ step = "groups" /\ Len(txs) < Len(groups)
    /\ IF SameArgs(Summarized(Current)) = {}
       THEN Fails
       ELSE /\ toRead' = Current /\ found' = {} /\ step' = "locks"
            /\ UNCHANGED <<listing, reading, groups, usedBtcUtxos, txs>>
    /\ UNCHANGED world

\* getCells of genBtcTransferCkbVirtualTx, with throwErrorWhenRgbppCellsInvalid.
ReadLock ==
    /\ step = "locks" /\ toRead # {}
    /\ LET i == CHOOSE i \in toRead : \A j \in toRead : i <= j
           here == CellsOf(rgbppGroups[i])
       IN  IF Targets(here) = {} \/ \E c \in here : Type[c] = "unsupported"
           THEN Fails
           ELSE /\ toRead' = toRead \ {i} /\ found' = found \cup here
                /\ UNCHANGED <<step, listing, reading, groups, usedBtcUtxos, txs>>
    /\ UNCHANGED world

\* The CKB transaction: the target cells, then the others; one output for all of the
\* target, a second one if there is change, and one for each other cell.
Receiver == 0
Change == NumCell + 1
CkbInputs == InOrder(Targets(found)) \o InOrder(found \ Targets(found))
CkbOutputs ==
    (IF Total(Targets(found)) > XudtAmount(Current) THEN <<Receiver, Change>>
     ELSE <<Receiver>>)
    \o InOrder(found \ Targets(found))

\* [bug] the owners in the order in which the UTXOs were listed.
NonTargetTosByUtxo ==
    LET owners == {Bound[c] : c \in found \ Targets(found)}
    IN  [k \in 1..Cardinality(owners) |-> Owner[InOrder(owners)[k]]]
NonTargetTos ==
    [k \in 1..Cardinality(found \ Targets(found)) |->
        Owner[Bound[CkbInputs[Cardinality(Targets(found)) + k]]]]
Tos == <<To>> \o NonTargetTos

\* [bug] only the number of outputs is checked.
UnexpectedLength == Len(CkbOutputs) # Len(NonTargetTos) + 1
Unexpected == ~ (found \subseteq KnownCells) \/ Len(CkbOutputs) # Len(NonTargetTos) + 1

CkbRefused ==
    \/ Total(Targets(found)) < XudtAmount(Current)
    \/ Cardinality(Targets(found)) > MaxCells
    \/ Unexpected

\* payFee takes the first UTXOs that are not excluded.  An "enlarged" change, one that
\* was below the dust limit, takes one from a list that excludes nothing.
FreeUtxos == (FeeUtxo \cap unspent) \ usedBtcUtxos
FeeInputs(n, enlarged) ==
    LET fees == First(n, FreeUtxos)
    IN  IF enlarged THEN fees \cup First(1, (FeeUtxo \cap unspent) \ fees) ELSE fees
BtcInputs == {Bound[c] : c \in found}

\* builder.inputs from groupSummary.utxoIds.length on.  [bug]: off by one.
UsedFromNext(fees) ==
    LET inputs == InOrder(BtcInputs) \o InOrder(fees)
    IN  {inputs[i] : i \in (Cardinality(Current) + 2)..Len(inputs)}
UsedFrom(fees) ==
    LET inputs == InOrder(BtcInputs) \o InOrder(fees)
    IN  {inputs[i] : i \in (Cardinality(Current) + 1)..Len(inputs)}

BuildGroup ==
    /\ step = "locks" /\ toRead = {}
    /\ IF CkbRefused \/ ~ (found \subseteq cells)
       THEN Fails
       ELSE /\ UNCHANGED <<listing, reading, groups, toRead, found>>
            /\ \E n \in 0..MaxFeeInputs, enlarged \in BOOLEAN :
                LET fees == FeeInputs(n, enlarged)
                IN  IF Cardinality(fees) < n + (IF enlarged THEN 1 ELSE 0)
                    THEN step' = "insufficient" /\ UNCHANGED <<usedBtcUtxos, txs>>
                    ELSE /\ step' = "groups"
                         /\ usedBtcUtxos' = usedBtcUtxos \cup UsedFrom(fees)
                         /\ txs' = Append(txs, [cells |-> found, inputs |-> BtcInputs \cup fees,
                                                amount |-> XudtAmount(Current), enlarged |-> enlarged,
                                                outputs |-> CkbOutputs, tos |-> Tos])
    /\ UNCHANGED world

\* The summary of excluded UTXOs reads the UTXO of each; if it was not listed there is none.
Summarize ==
    /\ step = "groups" /\ Len(txs) = Len(groups)
    /\ step' = IF invalidUtxoIds \subseteq utxoMap THEN "done" ELSE "unsummarized"
    /\ UNCHANGED <<world, listing, reading, groups, building>>
-----------------------------------------------------------------------------
(* Other wallets.                                                          *)

Moves ==
    /\ moves < MaxMoves /\ moves' = moves + 1
    /\ UNCHANGED <<step, listing, reading, groups, building>>
RivalSpends(u) == Moves /\ u \in unspent /\ unspent' = unspent \ {u} /\ UNCHANGED cells
RivalMovesCells(u) ==
    /\ Moves /\ u \notin unspent /\ CellsOf(u) # {}
    /\ cells' = cells \ CellsOf(u)
    /\ UNCHANGED unspent
LeapToBtc(c) ==
    /\ Moves /\ c \notin cells /\ Bound[c] \in unspent
    /\ cells' = cells \cup {c}
    /\ UNCHANGED unspent
-----------------------------------------------------------------------------
Init ==
    /\ unspent = Utxo /\ cells \in Worlds /\ moves = 0
    /\ step = "assets" /\ pending = AssetAddress
    /\ utxoIds = {} /\ utxoMap = {}
    /\ unread = {} /\ cellsMap = [u \in Utxo |-> {}] /\ invalidUtxoIds = {}
    /\ rgbppGroups = <<>> /\ groups = <<>>
    /\ toRead = {} /\ found = {} /\ usedBtcUtxos = {} /\ txs = <<>>

Next ==
    \/ ServiceFails
    \/ \E a \in AssetAddress : ListAssets(a) \/ ListUtxos(a)
    \/ \E u \in Utxo : ReadCells(u)
    \/ Relocate \/ StartGroup \/ ReadLock \/ BuildGroup \/ Summarize
    \/ \E u \in Utxo : RivalSpends(u) \/ RivalMovesCells(u)
    \/ \E c \in Cell : LeapToBtc(c)

Spec == Init /\ [][Next]_vars
-----------------------------------------------------------------------------
(* Correctness.                                                            *)

\* Rules 1 and 2 of the grouping, in whatever order the cells arrived: every UTXO is
\* either excluded or in exactly one group, and no group has more cells than a
\* transaction may have.
GroupsPartition ==
    step \in {"groups", "locks", "done"} =>
        /\ utxoIds \ invalidUtxoIds = GroupUtxos(Index)
        /\ \A i \in Index : Cardinality({k \in DOMAIN groups : i \in groups[k]}) = 1
        /\ \A k \in DOMAIN groups : Load(groups[k]) <= MaxCells

\* A transaction takes all the cells that its summary lists and no other, and gives the
\* receiver all of the target's amount, although the summary's cells come from the
\* service and the transaction's, later, from the indexer.
SummaryTrue ==
    \A k \in DOMAIN txs : /\ txs[k].cells = Summarized(groups[k])
                          /\ txs[k].amount = Total(Targets(txs[k].cells))

\* Every other cell goes back to the address that owned its UTXO.
OthersReturned ==
    \A k \in DOMAIN txs : \A i \in DOMAIN txs[k].outputs :
        txs[k].outputs[i] \in Cell => txs[k].tos[i] = Owner[Bound[txs[k].outputs[i]]]

\* Two Bitcoin transactions spend no UTXO twice, unless the later one enlarged a change
\* below the dust limit, which ignores excludeUtxos.
SharedOnlyIfEnlarged ==
    \A k, m \in DOMAIN txs :
        k < m /\ txs[k].inputs \cap txs[m].inputs # {} => txs[m].enlarged

\* The call fails, before or in the summary of what it left out, only if others moved in
\* between, or a UTXO holds a token with the target's type args and another code.
FailsForAReason ==
    step \in {"failed", "unsummarized"} => moves > 0 \/ \E c \in KnownCells : Type[c] = "twin"
=============================================================================
