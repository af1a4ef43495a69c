--------------------------- MODULE MCTransferAll ----------------------------
(***************************************************************************)
(* Four UTXOs with cells, of two owners, and three of the payer; four      *)
(* cells fit into a transaction.                                           *)
(***************************************************************************)
EXTENDS TransferAll

CONSTANTS A, B, F, R      \* two owners, the payer, the receiver

MCOwner  == <<A, B, B, A, F, F, F>>
MCBound  == <<1, 2, 3, 2, 1, 4, 4, 3, 2, 1, 1, 1>>
MCType   == <<"target", "target", "target", "other", "other", "target", "unsupported",
              "target", "twin", "other", "target", "other">>
MCAmount == <<1, 2, 4, 5, 5, 3, 1, 2, 3, 5, 1, 5>>

\* Two groups at least, with other cells and an unsupported one; a twin; a UTXO with
\* more cells than fit.
MCWorlds == {1..7, (1..5) \cup {9}, (1..5) \cup {10, 11, 12}}
=============================================================================
