------------------------- MODULE IsomorphicBinding --------------------------
(***************************************************************************)
(* What the RGB++ SDK promises of an asset, without queues, clients or     *)
(* failures: Bitcoin decides where an asset goes, and CKB follows.         *)
(*                                                                         *)
(* "owner" is what CKB says: the asset still is where it was ("origin"),   *)
(* or a transaction moved it.  It moves once, and only with a transaction  *)
(* that Bitcoin holds at that moment.  An asset that leaves Bitcoin for    *)
(* CKB becomes "free" there only when Bitcoin can no longer take back the  *)
(* transaction that sent it.                                               *)
(***************************************************************************)
CONSTANTS
    Tx,        \* the transactions under consideration
    Asset,
    AssetOf,   \* the asset that a transaction moves
    Leap       \* the transactions that move it to CKB

VARIABLES
    chain,   \* transactions that Bitcoin holds
    final,   \* those it will not take back
    owner,   \* of each asset: "origin", or the transaction that moved it on CKB
    free     \* assets without a tie to Bitcoin any more

absVars == <<chain, final, owner, free>>

\* Bitcoin spends a UTXO once, and what is final stays.
Consistent(txs) == \A t, u \in txs : AssetOf[t] = AssetOf[u] => t = u

Init ==
    /\ chain = {} /\ final = {} /\ free = {}
    /\ owner = [a \in Asset |-> "origin"]

BitcoinMoves ==
    /\ chain' \in SUBSET Tx /\ Consistent(chain')
    /\ final' \in SUBSET chain' /\ final \subseteq final'
    /\ UNCHANGED <<owner, free>>

Follow(t) ==
    /\ t \in chain /\ owner[AssetOf[t]] = "origin"
    /\ owner' = [owner EXCEPT ![AssetOf[t]] = t]
    /\ UNCHANGED <<chain, final, free>>

Release(txs) ==
    /\ txs \subseteq Leap \cap final
    /\ \A t \in txs : owner[AssetOf[t]] = t
    /\ free' = free \cup {AssetOf[t] : t \in txs}
    /\ UNCHANGED <<chain, final, owner>>

Next ==
    \/ BitcoinMoves
    \/ \E t \in Tx : Follow(t)
    \/ \E txs \in SUBSET Leap : Release(txs)

Spec == Init /\ [][Next]_absVars
=============================================================================
