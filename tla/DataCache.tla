----------------------------- MODULE DataCache ------------------------------
(***************************************************************************)
(* DataCache of packages/btc and the payFee calls that share it through    *)
(* one DataSource.  payFee caches the list of UTXOs it collects from under *)
(* a key made of the time in milliseconds at which it started, so that its *)
(* rounds start from the same list.  Where a round collects once more to   *)
(* enlarge a change that is too small, injectSatoshi does not pass the key *)
(* on: that collection fetches a list of its own, and stores nothing.  The *)
(* calls interleave at every await.                                        *)
(*                                                                         *)
(* What a call does with the lists is module TxBuilder; here a list is the *)
(* address it was fetched for and the version of that address's UTXO set.  *)
(***************************************************************************)
EXTENDS Naturals, FiniteSets

CONSTANTS
    Client,        \* calls of payFee on the same DataSource
    Address,
    FromOf,        \* FromOf[c]: the "from" address of call c
    MaxTime,       \* bound on the clock, in milliseconds
    MaxVersion     \* bound on the changes of an address's UTXO set

ASSUME DataCacheAssumption ==
    /\ FromOf \in [Client -> Address] /\ "none" \notin Address
    /\ MaxTime \in Nat /\ MaxVersion \in Nat

Time == 0..MaxTime
List == [address: Address, version: 0..MaxVersion]
NoList == [address |-> "none", version |-> 0]

VARIABLES
    clock,     \* Date.now()
    version,   \* version[a]: how often the UTXO set of a has changed
    utxos,     \* DataCache.utxos, by key
    pc,        \* of each call: where it stands
    started,   \* of each call: when payFee started
    answer,    \* the list a pending getter will return
    withKey,   \* whether the pending getter was called with the key
    born,      \* version of the call's address when it started
    used,      \* of each running call: the lists its collections with the key returned
    extra      \* and those its collections without the key returned

vars == <<clock, version, utxos, pc, started, answer, withKey, born, used, extra>>
outside == <<clock, version>>
lists == <<used, extra>>

Running(c) == pc[c] \in {"ready", "fetching", "answered"}
-----------------------------------------------------------------------------
\* [bug] one key for all calls.
SharedKey(now) == 0
\* The key of a call that starts now.
InternalCacheKey(now) == now
Key(c) == InternalCacheKey(started[c])

Start(c) ==
    /\ pc[c] = "idle"
    /\ pc' = [pc EXCEPT ![c] = "ready"]
    /\ started' = [started EXCEPT ![c] = clock]
    /\ born' = [born EXCEPT ![c] = version[FromOf[c]]]
    /\ UNCHANGED <<outside, utxos, answer, withKey, lists>>

\* optionalCacheUtxos with a cached list returns without touching the network.
UseCached(c) ==
    /\ pc[c] = "ready" /\ utxos[Key(c)] # NoList
    /\ used' = [used EXCEPT ![c] = @ \cup {utxos[Key(c)]}]
    /\ UNCHANGED <<outside, utxos, pc, started, answer, withKey, born, extra>>

Ask(c, key) ==
    /\ pc[c] = "ready"
    /\ pc' = [pc EXCEPT ![c] = "fetching"]
    /\ withKey' = [withKey EXCEPT ![c] = key]
    /\ UNCHANGED <<outside, utxos, started, answer, born, lists>>

\* Without one it awaits the getter: the request, the service's answer, and the
\* continuation that stores it are separate steps.
Fetch(c) == utxos[Key(c)] = NoList /\ Ask(c, TRUE)

\* Step 5 of injectSatoshi, after a collection with the key: injectChange does not get the
\* key, so the list is fetched whatever the cache holds.
FetchAgain(c) == used[c] # {} /\ Ask(c, FALSE)

Answer(c) ==
    /\ pc[c] = "fetching"
    /\ answer' = [answer EXCEPT
           ![c] = [address |-> FromOf[c], version |-> version[FromOf[c]]]]
    /\ pc' = [pc EXCEPT ![c] = "answered"]
    /\ UNCHANGED <<outside, utxos, started, withKey, born, lists>>

Return(c) ==
    /\ pc[c] = "answered"
    /\ pc' = [pc EXCEPT ![c] = "ready"]
    /\ IF withKey[c]
       THEN used' = [used EXCEPT ![c] = @ \cup {answer[c]}] /\ UNCHANGED extra
       ELSE extra' = [extra EXCEPT ![c] = @ \cup {answer[c]}] /\ UNCHANGED used
    /\ answer' = [answer EXCEPT ![c] = NoList] /\ withKey' = [withKey EXCEPT ![c] = FALSE]
    /\ UNCHANGED <<outside, started, born>>

\* [bug] returns the answer without storing it.
ReturnOnly(c) == Return(c) /\ UNCHANGED utxos
\* The continuation of optionalCacheUtxos stores the list if there is a key.
Store(c) ==
    /\ Return(c)
    /\ utxos' = IF withKey[c] THEN [utxos EXCEPT ![Key(c)] = answer[c]] ELSE utxos

End(c, how) ==
    /\ pc' = [pc EXCEPT ![c] = how]
    /\ used' = [used EXCEPT ![c] = {}] /\ extra' = [extra EXCEPT ![c] = {}]
    /\ withKey' = [withKey EXCEPT ![c] = FALSE]
    /\ UNCHANGED <<outside, started, answer, born>>

\* [bug] leaves the list behind.
FinishUncleaned(c) == pc[c] = "ready" /\ End(c, "done") /\ UNCHANGED utxos
\* The fee is expected: cleanUtxos.
Finish(c) ==
    /\ pc[c] = "ready" /\ End(c, "done")
    /\ utxos' = [utxos EXCEPT ![Key(c)] = NoList]

\* The service fails or the satoshi do not suffice: payFee has no handler.
Fail(c) == pc[c] \in {"fetching", "ready"} /\ End(c, "failed") /\ UNCHANGED utxos

\* The world: time passes, and the UTXOs of an address change.
Tick ==
    /\ clock < MaxTime
    /\ clock' = clock + 1
    /\ UNCHANGED <<version, utxos, pc, started, answer, withKey, born, lists>>

Move(a) ==
    /\ version[a] < MaxVersion
    /\ version' = [version EXCEPT ![a] = @ + 1]
    /\ UNCHANGED <<clock, utxos, pc, started, answer, withKey, born, lists>>

Init ==
    /\ clock = 0
    /\ version = [a \in Address |-> 0]
    /\ utxos = [k \in Time |-> NoList]
    /\ pc = [c \in Client |-> "idle"]
    /\ started = [c \in Client |-> 0]
    /\ answer = [c \in Client |-> NoList]
    /\ withKey = [c \in Client |-> FALSE]
    /\ born = [c \in Client |-> 0]
    /\ used = [c \in Client |-> {}] /\ extra = [c \in Client |-> {}]

Next ==
    \/ \E c \in Client : \/ Start(c) \/ UseCached(c) \/ Fetch(c) \/ FetchAgain(c)
                         \/ Answer(c) \/ Store(c) \/ Finish(c) \/ Fail(c)
    \/ Tick
    \/ \E a \in Address : Move(a)

Spec == Init /\ [][Next]_vars
-----------------------------------------------------------------------------
\* No other call started in the same millisecond.
Alone(c) == \A d \in Client \ {c} : pc[d] = "idle" \/ started[d] # started[c]

\* The purpose of internalCacheKey, as far as it is met: however the UTXOs of the address
\* change meanwhile, every collection with the key sees one list, and a collection that goes
\* without the key sees that list or a newer one, never an older. (Calls that start in the
\* same millisecond share a key, and this does not hold for them.)
OneSnapshot ==
    \A c \in Client : Alone(c) =>
        /\ Cardinality(used[c]) <= 1
        /\ \A list \in used[c], later \in extra[c] : list.version <= later.version

\* c itself, and the calls that started in the same millisecond
Together(c) == {d \in Client : d = c \/ (pc[d] # "idle" /\ started[d] = started[c])}

\* A call works with lists that it, or a call of the same millisecond, could have fetched:
\* for the address of that call, and not from before that call started. What failed calls
\* leave behind is found by no other.
NothingStale ==
    \A c \in Client : \A list \in used[c] \cup extra[c] :
        \E d \in Together(c) : list.address = FromOf[d] /\ list.version >= born[d]

\* A cached list belongs to a call that runs or that failed: calls that return release
\* theirs.
OnlyFailuresLeak ==
    \A k \in Time : utxos[k] # NoList =>
        \E c \in Client : Key(c) = k /\ (Running(c) \/ pc[c] = "failed")

=============================================================================
