-------------------------- MODULE MCRgbppTransfer ---------------------------
(***************************************************************************)
(* Four UTXOs with cells of two xUDT types and a Spore.  Capacities are in *)
(* CKB: 253 is the standard cell, 158 what an RGB++ xUDT cell occupies,    *)
(* 247 a BTC time cell for a secp256k1 lock, 316 the queue's paymaster     *)
(* cell.  The fee is far below one CKB; one unit stands for it.            *)
(***************************************************************************)
EXTENDS RgbppTransfer

CONSTANTS X, Y, Spore, To

\* UTXO 1 holds X twice and Y, UTXO 2 two large X, UTXO 3 a minimal X, UTXO 4 X and a
\* Spore.  The Y and the Spore are bound late.
MCUtxoOf   == <<1, 1, 1, 2, 2, 3, 4, 4>>
MCTypeOf   == <<X, Y, X, X, X, X, X, Spore>>
MCAmount   == <<3, 4, 2, 4, 1, 2, 2, 1>>
MCCapacity == <<253, 253, 200, 506, 254, 158, 200, 300>>
MCLate     == {2, 8}

MCLocks == {<<1>>, <<2>>, <<3>>, <<4>>, <<2, 1>>, <<3, 2>>, <<1, 2, 3>>, <<3, 1>>}
Calls(kind, amounts, tos) ==
    [kind: {kind}, locks: MCLocks, type: {X}, amounts: amounts, tos: tos]
MCRequests ==
    Calls("transfer", {<<1>>, <<2>>, <<4>>, <<5>>}, {<<>>, <<To>>}) \cup
    {r \in Calls("split", {<<1>>}, {<<To>>, <<To, To>>}) : Len(r.tos) <= Len(r.locks)} \cup
    Calls("batch", {<<1, 1>>, <<2, 3>>}, {<<To, To>>}) \cup
    Calls("jump", {<<1>>, <<2>>, <<4>>, <<5>>}, {<<>>, <<From>>})
=============================================================================
