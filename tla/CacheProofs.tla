----------------------------- MODULE CacheProofs -----------------------------
(***************************************************************************)
(* Theorems about the two lists that concurrent calls share.               *)
(*                                                                         *)
(* DataCache, for any number of calls, addresses and milliseconds: calls   *)
(* that start at different times do not disturb each other, and only calls *)
(* that fail leave a list behind.                                          *)
(*                                                                         *)
(* CellDeps, for any tokens, lists, documents and hosts that fail: the     *)
(* cell deps of a transaction fit together whatever the registry becomes   *)
(* while it is built.                                                      *)
(***************************************************************************)
EXTENDS DataCache, CellDeps, FiniteSetTheorems, TLAPS

(* The cache of UTXO lists.                                                *)

States == {"idle", "ready", "fetching", "answered", "done", "failed"}

TypeInv ==
    /\ clock \in Time
    /\ version \in [Address -> 0..MaxVersion]
    /\ utxos \in [Time -> List \cup {NoList}]
    /\ pc \in [Client -> States]
    /\ started \in [Client -> Time]
    /\ answer \in [Client -> List \cup {NoList}]
    /\ withKey \in [Client -> BOOLEAN]
    /\ born \in [Client -> 0..MaxVersion]
    /\ used \in [Client -> SUBSET List] /\ extra \in [Client -> SUBSET List]
    /\ \A c \in Client : pc[c] = "answered" => answer[c] \in List

LEMMA TypeInit == Init => TypeInv
BY DataCacheAssumption DEF Init, TypeInv, Time, States

LEMMA TypeNext == TypeInv /\ [Next]_vars => TypeInv'
<1> SUFFICES ASSUME TypeInv, [Next]_vars PROVE TypeInv'
  OBVIOUS
<1> USE DEF TypeInv, States, Key, InternalCacheKey, outside, lists
<1>1. ASSUME NEW c \in Client, Start(c) PROVE TypeInv'
  BY <1>1, DataCacheAssumption DEF Start
<1>2. ASSUME NEW c \in Client, UseCached(c) PROVE TypeInv'
  BY <1>2 DEF UseCached
<1>3. ASSUME NEW c \in Client, Fetch(c) \/ FetchAgain(c) PROVE TypeInv'
  BY <1>3 DEF Fetch, FetchAgain, Ask
<1>4. ASSUME NEW c \in Client, Answer(c) PROVE TypeInv'
  <2>1. [address |-> FromOf[c], version |-> version[FromOf[c]]] \in List
    BY DataCacheAssumption DEF List
  <2> QED BY <1>4, <2>1 DEF Answer
<1>5. ASSUME NEW c \in Client, Store(c) PROVE TypeInv'
  <2>1. answer[c] \in List /\ Key(c) \in Time
    BY <1>5 DEF Store, Return
  <2>2. /\ utxos' \in [Time -> List \cup {NoList}] /\ pc' \in [Client -> States]
        /\ answer' \in [Client -> List \cup {NoList}] /\ withKey' \in [Client -> BOOLEAN]
    BY <1>5, <2>1 DEF Store, Return
  <2>3. used' \in [Client -> SUBSET List] /\ extra' \in [Client -> SUBSET List]
    <3>1. CASE withKey[c]
      BY <1>5, <2>1, <3>1 DEF Store, Return
    <3>2. CASE ~ withKey[c]
      BY <1>5, <2>1, <3>2 DEF Store, Return
    <3> QED BY <3>1, <3>2
  <2>4. \A d \in Client : pc'[d] = "answered" => answer'[d] \in List
    BY <1>5 DEF Store, Return
  <2> QED BY <1>5, <2>2, <2>3, <2>4 DEF Store, Return
<1>6. ASSUME NEW c \in Client, Finish(c) \/ Fail(c) PROVE TypeInv'
  BY <1>6 DEF Finish, Fail, End
<1>7. CASE Tick
  BY <1>7, DataCacheAssumption DEF Tick, Time
<1>8. ASSUME NEW a \in Address, Move(a) PROVE TypeInv'
  BY <1>8, DataCacheAssumption DEF Move
<1>9. CASE UNCHANGED vars
  BY <1>9 DEF vars
<1> QED BY <1>1, <1>2, <1>3, <1>4, <1>5, <1>6, <1>7, <1>8, <1>9 DEF Next

\* A list is never the entry that says there is none.
LEMMA ListsAreLists == ASSUME NEW list \in List PROVE list # NoList
BY DataCacheAssumption DEF List, NoList

\* What a step may do to the time a call has started at, and to the world.
LEMMA TimesStay ==
    ASSUME TypeInv, [Next]_vars
    PROVE  /\ \A c \in Client : pc[c] # "idle" =>
                /\ pc'[c] # "idle" /\ started'[c] = started[c] /\ born'[c] = born[c]
                /\ Key(c)' = Key(c)
           /\ \A a \in Address : version[a] <= version'[a]
<1> USE DEF TypeInv, Next, vars, outside, lists, Start, UseCached, Fetch, FetchAgain, Ask, Answer, Store,
            Return, Finish, Fail, End, Tick, Move
<1>1. ASSUME NEW c \in Client, pc[c] # "idle"
      PROVE  pc'[c] # "idle" /\ started'[c] = started[c] /\ born'[c] = born[c]
  BY <1>1
<1>2. ASSUME NEW a \in Address PROVE version[a] <= version'[a]
  <2>1. version'[a] = version[a] \/ version'[a] = version[a] + 1
    BY <1>2
  <2>2. version[a] \in Nat
    BY <1>2, DataCacheAssumption
  <2> QED BY <2>1, <2>2
<1> QED BY <1>1, <1>2 DEF Key, InternalCacheKey

\* Where an entry of the cache comes from.
LEMMA EntryFrom ==
    ASSUME TypeInv, [Next]_vars, NEW k \in Time, utxos'[k] # NoList
    PROVE  \/ utxos'[k] = utxos[k]
           \/ \E c \in Client : /\ pc[c] = "answered" /\ withKey[c] /\ Key(c) = k /\ Store(c)
                                /\ utxos'[k] = answer[c]
BY DEF TypeInv, Next, vars, outside, lists, Start, UseCached, Fetch, FetchAgain, Ask, Answer, Store, Return,
       Finish, Fail, End, Tick, Move, Key, InternalCacheKey

-----------------------------------------------------------------------------
(* Who has a list in the cache.                                            *)

LEMMA OwnersNext == TypeInv /\ OnlyFailuresLeak /\ [Next]_vars => OnlyFailuresLeak'
<1> SUFFICES ASSUME TypeInv, OnlyFailuresLeak, [Next]_vars, NEW k \in Time, utxos'[k] # NoList
             PROVE  \E c \in Client : (Key(c) = k /\ (Running(c) \/ pc[c] = "failed"))'
  BY DEF OnlyFailuresLeak
<1> USE DEF TypeInv, States, Key, InternalCacheKey, Running
<1>1. ASSUME NEW c \in Client, pc[c] = "answered", Key(c) = k, Store(c)
      PROVE  (Key(c) = k /\ Running(c))'
  BY <1>1 DEF Store, Return
<1>2. CASE utxos'[k] = utxos[k]
  <2>1. PICK c \in Client : Key(c) = k /\ (Running(c) \/ pc[c] = "failed")
    BY <1>2 DEF OnlyFailuresLeak
  <2>2. ~ Start(c) /\ ~ Finish(c)
    BY <2>1 DEF Start, Finish
  <2> QED BY <2>1, <2>2 DEF Next, vars, outside, lists, Start, UseCached, Fetch, FetchAgain, Ask, Answer,
                            Store, Return, Finish, Fail, End, Tick, Move
<1> QED BY <1>1, <1>2, EntryFrom

-----------------------------------------------------------------------------
(* Where the lists of a call come from.                                    *)

\* A list that call d may have fetched.
FetchedBy(d, list) == list \in List /\ list.address = FromOf[d] /\ list.version >= born[d]

\* A list that a call of this millisecond has fetched.
OfTime(k, list) == \E d \in Client : pc[d] # "idle" /\ started[d] = k /\ FetchedBy(d, list)

Answered(c) == FetchedBy(c, answer[c]) /\ answer[c].version <= version[FromOf[c]]

SourcesInv ==
    /\ \A c \in Client : /\ born[c] <= version[FromOf[c]]
                         /\ pc[c] = "answered" => Answered(c)
                         /\ pc[c] = "idle" => used[c] = {} /\ extra[c] = {}
                         /\ \A list \in used[c] \cup extra[c] : OfTime(started[c], list)
    /\ \A k \in Time : utxos[k] # NoList => OfTime(k, utxos[k])

LEMMA OfTimeStays ==
    ASSUME TypeInv, [Next]_vars, NEW k, NEW list, OfTime(k, list)
    PROVE  OfTime(k, list)'
BY TimesStay DEF OfTime, FetchedBy

LEMMA SourcesNext == TypeInv /\ SourcesInv /\ [Next]_vars => SourcesInv'
<1> SUFFICES ASSUME TypeInv, SourcesInv, [Next]_vars PROVE SourcesInv'
  OBVIOUS
<1>0. TypeInv' /\ \A c \in Client : FromOf[c] \in Address
  BY TypeNext, DataCacheAssumption
<1> USE DEF Key, InternalCacheKey
<1>1. ASSUME NEW c \in Client PROVE born'[c] <= version'[FromOf[c]]
  <2>1. \/ born'[c] = born[c]
        \/ born'[c] = version[FromOf[c]]
    BY DEF TypeInv, Next, vars, outside, lists, Start, UseCached, Fetch, FetchAgain, Ask, Answer, Store,
           Return, Finish, Fail, End, Tick, Move
  <2>2. version[FromOf[c]] <= version'[FromOf[c]] /\ born[c] <= version[FromOf[c]]
    BY <1>0, TimesStay DEF SourcesInv
  <2>3. version[FromOf[c]] \in Nat /\ version'[FromOf[c]] \in Nat /\ born[c] \in Nat
    BY <1>0, DataCacheAssumption DEF TypeInv
  <2> QED BY <2>1, <2>2, <2>3
<1>2. ASSUME NEW c \in Client, pc'[c] = "answered" PROVE Answered(c)'
  <2>1. CASE Answer(c)
    <3>1. answer'[c] = [address |-> FromOf[c], version |-> version[FromOf[c]]]
          /\ version' = version /\ born' = born
      BY <2>1 DEF Answer, TypeInv, outside
    <3>2. answer'[c] \in List /\ born[c] <= version[FromOf[c]]
      BY <1>0, <1>2 DEF TypeInv, SourcesInv
    <3>3. version[FromOf[c]] \in Nat /\ born[c] \in Nat
      BY <1>0, DataCacheAssumption DEF TypeInv
    <3> QED BY <3>1, <3>2, <3>3 DEF Answered, FetchedBy
  <2>2. CASE ~ Answer(c)
    <3>1. pc[c] = "answered" /\ answer'[c] = answer[c]
      BY <1>2, <2>2 DEF TypeInv, Next, vars, outside, lists, Start, UseCached, Fetch, FetchAgain, Ask,
                        Answer, Store, Return, Finish, Fail, End, Tick, Move
    <3>2. Answered(c) /\ born'[c] = born[c] /\ version[FromOf[c]] <= version'[FromOf[c]]
      BY <1>0, <3>1, TimesStay DEF SourcesInv
    <3>3. version[FromOf[c]] \in Nat /\ version'[FromOf[c]] \in Nat /\ answer[c].version \in Nat
      BY <1>0, <3>1, DataCacheAssumption DEF TypeInv, List
    <3> QED BY <3>1, <3>2, <3>3 DEF Answered, FetchedBy
  <2> QED BY <2>1, <2>2
<1>3. ASSUME NEW c \in Client PROVE pc'[c] = "idle" => used'[c] = {} /\ extra'[c] = {}
  <2>1. SUFFICES ASSUME pc'[c] = "idle"
                 PROVE  pc[c] = "idle" /\ used'[c] = used[c] /\ extra'[c] = extra[c]
    BY DEF SourcesInv
  <2> QED BY <2>1 DEF TypeInv, States, Next, vars, outside, lists, Start, UseCached, Fetch, FetchAgain, Ask,
                      Answer, Store, Return, Finish, Fail, End, Tick, Move
<1>4. ASSUME NEW k \in Time, utxos'[k] # NoList PROVE OfTime(k, utxos[k])'
  <2>0. PICK list : list = utxos'[k]
    OBVIOUS
  <2>1. CASE utxos'[k] = utxos[k]
    <3>1. OfTime(k, list)
      BY <1>4, <2>0, <2>1 DEF SourcesInv
    <3>2. OfTime(k, list)'
      BY <3>1, OfTimeStays
    <3> QED BY <2>0, <3>2 DEF OfTime
  <2>2. ASSUME NEW c \in Client, pc[c] = "answered", Key(c) = k, utxos'[k] = answer[c]
        PROVE  OfTime(k, utxos[k])'
    <3>1. OfTime(k, list)
      BY <2>0, <2>2 DEF SourcesInv, OfTime, Answered
    <3>2. OfTime(k, list)'
      BY <3>1, OfTimeStays
    <3> QED BY <2>0, <3>2 DEF OfTime
  <2> QED BY <1>4, <2>1, <2>2, EntryFrom
<1>5. ASSUME NEW c \in Client, NEW list \in used'[c] \cup extra'[c] PROVE OfTime(started[c], list)'
  <2>0. PICK k : k = started[c]
    OBVIOUS
  <2>3. ASSUME pc[c] # "idle", OfTime(k, list) PROVE OfTime(started[c], list)'
    <3>1. OfTime(k, list)'
      BY <2>3, OfTimeStays
    <3>2. started'[c] = k
      BY <2>0, <2>3, TimesStay
    <3> QED BY <3>1, <3>2 DEF OfTime
  <2>1. CASE list \in used[c] \cup extra[c]
    <3>1. pc[c] # "idle" /\ OfTime(k, list)
      BY <2>0, <2>1 DEF SourcesInv
    <3> QED BY <2>3, <3>1
  <2>2. CASE list \notin used[c] \cup extra[c]
    <3>1. \/ UseCached(c) /\ list = utxos[Key(c)]
          \/ Store(c) /\ list = answer[c]
      BY <1>5, <2>2 DEF TypeInv, Next, vars, outside, lists, Start, UseCached, Fetch, FetchAgain, Ask,
                        Answer, Store, Return, Finish, Fail, End, Tick, Move
    <3>2. CASE UseCached(c) /\ list = utxos[Key(c)]
      <4>1. pc[c] # "idle" /\ utxos[Key(c)] # NoList /\ Key(c) \in Time
        BY <3>2 DEF UseCached, TypeInv
      <4>2. OfTime(k, list)
        BY <2>0, <3>2, <4>1 DEF SourcesInv
      <4> QED BY <2>3, <4>1, <4>2
    <3>3. CASE Store(c) /\ list = answer[c]
      <4>1. pc[c] = "answered"
        BY <3>3 DEF Store, Return
      <4>2. OfTime(k, list)
        BY <2>0, <3>3, <4>1 DEF SourcesInv, OfTime, Answered
      <4> QED BY <2>3, <4>1, <4>2
    <3> QED BY <3>1, <3>2, <3>3
  <2> QED BY <2>1, <2>2
<1> QED BY <1>1, <1>2, <1>3, <1>4, <1>5 DEF SourcesInv

-----------------------------------------------------------------------------
(* What a call that shares its millisecond with no other works with.       *)

\* The entry under the call's key is the only list its collections with the key have
\* returned; there is none as long as they have returned none. The other lists are younger.
Snapshot(c) ==
    LET entry == utxos[Key(c)]
    IN  /\ Running(c) => used[c] \subseteq {entry} \ {NoList}
        /\ entry # NoList => entry.version <= version[FromOf[c]]
        /\ pc[c] \in {"fetching", "answered"} /\ withKey[c] => entry = NoList
        /\ pc[c] = "answered" /\ ~ withKey[c] =>
              \A list \in used[c] : list.version <= answer[c].version
        /\ pc[c] \in {"fetching", "answered"} /\ ~ withKey[c] => used[c] # {}
        /\ used[c] = {} => extra[c] = {}
        /\ \E list : used[c] \subseteq {list}
        /\ \A list \in used[c], later \in extra[c] : list.version <= later.version

SnapshotInv == \A c \in Client : Alone(c) /\ pc[c] # "idle" => Snapshot(c)

IInv == TypeInv /\ OnlyFailuresLeak /\ SourcesInv /\ SnapshotInv

LEMMA Initially == Init => IInv
<1> SUFFICES ASSUME Init PROVE IInv
  OBVIOUS
<1>1. TypeInv
  BY TypeInit
<1>2. OnlyFailuresLeak
  BY DEF Init, OnlyFailuresLeak
<1>3. SourcesInv /\ SnapshotInv
  BY DataCacheAssumption DEF Init, SourcesInv, SnapshotInv
<1> QED BY <1>1, <1>2, <1>3 DEF IInv

\* Who is alone after a step was alone before it, unless it has just started.
LEMMA AloneBefore ==
    ASSUME TypeInv, [Next]_vars, NEW c \in Client, pc[c] # "idle", Alone(c)'
    PROVE  Alone(c)
BY TimesStay DEF Alone

\* The step of another call, or of the world, leaves a call that is alone what it has.
LEMMA OthersKeep ==
    ASSUME TypeInv, [Next]_vars, NEW c \in Client, Snapshot(c), FromOf[c] \in Address, Key(c)' = Key(c),
           Key(c) \in Time,
           UNCHANGED <<pc[c], used[c], extra[c], answer[c], withKey[c]>>,
           utxos'[Key(c)] = utxos[Key(c)]
    PROVE  Snapshot(c)'
<1>1. utxos[Key(c)] # NoList =>
        utxos[Key(c)].version \in Nat /\ version[FromOf[c]] \in Nat /\ version'[FromOf[c]] \in Nat
  BY TypeNext, DataCacheAssumption DEF TypeInv, List
<1>2. version[FromOf[c]] <= version'[FromOf[c]]
  BY TimesStay
<1>3. utxos[Key(c)] # NoList => utxos[Key(c)].version <= version'[FromOf[c]]
  BY <1>1, <1>2 DEF Snapshot
<1> QED BY <1>3 DEF Snapshot, Running

LEMMA SnapshotNext == IInv /\ [Next]_vars => SnapshotInv'
<1> SUFFICES ASSUME IInv, [Next]_vars, NEW c \in Client, Alone(c)', pc'[c] # "idle"
             PROVE  Snapshot(c)'
  BY DEF SnapshotInv
<1>0. TypeInv /\ TypeInv' /\ OnlyFailuresLeak /\ FromOf[c] \in Address
  BY TypeNext, DataCacheAssumption DEF IInv
<1>1. CASE pc[c] = "idle"
  <2>1. Start(c)
    BY <1>0, <1>1 DEF TypeInv, Next, vars, outside, lists, Start, UseCached, Fetch, FetchAgain, Ask, Answer,
                      Store, Return, Finish, Fail, End, Tick, Move
  <2>2. used'[c] = {} /\ extra'[c] = {} /\ pc'[c] = "ready" /\ Key(c)' = clock /\ utxos' = utxos
    BY <1>0, <1>1, <2>1 DEF Start, TypeInv, IInv, SourcesInv, Key, InternalCacheKey, lists
  <2>3. utxos[clock] = NoList
    <3>1. SUFFICES ASSUME utxos[clock] # NoList PROVE FALSE
      OBVIOUS
    <3>2. PICK d \in Client : Key(d) = clock /\ (Running(d) \/ pc[d] = "failed")
      BY <1>0, <3>1 DEF OnlyFailuresLeak, TypeInv
    <3>3. d # c /\ pc'[d] # "idle" /\ started'[d] = started'[c]
      BY <1>0, <1>1, <2>1, <3>2 DEF Start, TypeInv, Key, InternalCacheKey, Running
    <3> QED BY <3>3 DEF Alone
  <2> QED BY <2>2, <2>3 DEF Snapshot, Running
<1>2. CASE pc[c] # "idle"
  <2>1. Alone(c) /\ Key(c)' = Key(c) /\ Snapshot(c) /\ Key(c) \in Time
    BY <1>0, <1>2, AloneBefore, TimesStay DEF IInv, SnapshotInv, Key, InternalCacheKey, TypeInv
  <2>2. CASE UseCached(c)
    <3>1. /\ used'[c] = used[c] \cup {utxos[Key(c)]} /\ utxos[Key(c)] # NoList
          /\ pc[c] = "ready" /\ UNCHANGED <<pc, utxos, version, extra>>
      BY <1>0, <2>2 DEF UseCached, TypeInv, outside
    <3>2. used[c] = {} \/ used[c] = {utxos[Key(c)]}
      BY <2>1, <3>1 DEF Snapshot, Running
    <3>3. used'[c] = {utxos[Key(c)]}
      BY <3>1, <3>2
    <3>4. \A later \in extra[c] : utxos[Key(c)].version <= later.version
      BY <2>1, <3>1, <3>2 DEF Snapshot
    <3> QED BY <2>1, <3>1, <3>3, <3>4 DEF Snapshot, Running
  <2>3. CASE Fetch(c) \/ FetchAgain(c)
    <3>1. /\ pc[c] = "ready" /\ pc'[c] = "fetching"
          /\ UNCHANGED <<used, extra, utxos, version>>
      BY <1>0, <2>3 DEF Fetch, FetchAgain, Ask, TypeInv, outside, lists
    <3>2. IF withKey'[c] THEN utxos[Key(c)] = NoList ELSE used[c] # {}
      BY <1>0, <2>3 DEF Fetch, FetchAgain, Ask, TypeInv
    <3> QED BY <2>1, <3>1, <3>2 DEF Snapshot, Running
  <2>4. CASE Answer(c)
    <3>1. /\ answer'[c].version = version[FromOf[c]]
          /\ pc[c] = "fetching" /\ pc'[c] = "answered"
          /\ UNCHANGED <<used, extra, utxos, version, withKey>>
      BY <1>0, <2>4 DEF Answer, TypeInv, outside, lists
    <3>2. \A list \in used[c] : list.version <= version[FromOf[c]]
      BY <2>1, <3>1 DEF Snapshot, Running
    <3> QED BY <2>1, <3>1, <3>2 DEF Snapshot, Running
  <2>5. CASE Store(c) /\ withKey[c]
    <3>1. /\ utxos'[Key(c)] = answer[c] /\ used'[c] = used[c] \cup {answer[c]}
          /\ pc[c] = "answered" /\ pc'[c] = "ready" /\ extra' = extra /\ version' = version
      BY <1>0, <2>1, <2>5 DEF Store, Return, TypeInv, outside
    <3>2. answer[c] # NoList /\ answer[c].version <= version[FromOf[c]]
      BY <1>0, <3>1, ListsAreLists DEF IInv, SourcesInv, Answered, TypeInv
    <3>3. used[c] = {} /\ extra[c] = {}
      BY <2>1, <2>5, <3>1 DEF Snapshot, Running
    <3> QED BY <2>1, <3>1, <3>2, <3>3 DEF Snapshot, Running
  <2>6. CASE Store(c) /\ ~ withKey[c]
    <3>1. /\ utxos' = utxos /\ used' = used /\ extra'[c] = extra[c] \cup {answer[c]}
          /\ pc[c] = "answered" /\ pc'[c] = "ready" /\ version' = version
      BY <1>0, <2>6 DEF Store, Return, TypeInv, outside
    <3>2. \A list \in used[c] : list.version <= answer[c].version
      BY <2>1, <2>6, <3>1 DEF Snapshot
    <3>3. used[c] # {}
      BY <2>1, <2>6, <3>1 DEF Snapshot
    <3> QED BY <2>1, <3>1, <3>2, <3>3 DEF Snapshot, Running
  <2>7. CASE Finish(c) \/ Fail(c)
    <3>1. used'[c] = {} /\ extra'[c] = {} /\ pc'[c] \in {"done", "failed"} /\ version' = version
          /\ (utxos'[Key(c)] = utxos[Key(c)] \/ utxos'[Key(c)] = NoList)
      BY <1>0, <2>1, <2>7 DEF Finish, Fail, End, TypeInv, outside
    <3> QED BY <2>1, <3>1 DEF Snapshot, Running
  <2>8. CASE /\ UNCHANGED <<pc[c], used[c], extra[c], answer[c], withKey[c]>>
             /\ utxos'[Key(c)] = utxos[Key(c)]
    BY <1>0, <2>1, <2>8, OthersKeep
  <2>9. ASSUME NEW d \in Client, d # c,
               \/ Start(d) \/ UseCached(d) \/ Fetch(d) \/ FetchAgain(d) \/ Answer(d)
               \/ Store(d) \/ Finish(d) \/ Fail(d)
        PROVE  /\ UNCHANGED <<pc[c], used[c], extra[c], answer[c], withKey[c]>>
               /\ utxos'[Key(c)] = utxos[Key(c)]
    <3>1. pc[d] # "idle" => Key(d) # Key(c)
      BY <2>1, <2>9 DEF Alone, Key, InternalCacheKey
    <3> QED BY <1>0, <2>1, <2>9, <3>1 DEF TypeInv, lists, Start, UseCached, Fetch, FetchAgain, Ask, Answer,
                                         Store, Return, Finish, Fail, End
  <2>10. CASE Tick \/ (\E a \in Address : Move(a)) \/ UNCHANGED vars
    BY <2>8, <2>10 DEF Tick, Move, vars, lists
  <2>11. ~ Start(c)
    BY <1>2 DEF Start
  <2> QED BY <2>2, <2>3, <2>4, <2>5, <2>6, <2>7, <2>8, <2>9, <2>10, <2>11 DEF Next
<1> QED BY <1>1, <1>2

-----------------------------------------------------------------------------
(* The theorems.                                                           *)

LEMMA Invariant == Spec => []IInv
<1>1. IInv /\ [Next]_vars => IInv'
  BY TypeNext, OwnersNext, SourcesNext, SnapshotNext DEF IInv
<1> QED BY <1>1, Initially, PTL DEF Spec

\* All collections of a call that pass the key work with one list, and those that do not
\* pass it never see an older one (OneSnapshot).
THEOREM RoundsSeeOneList == Spec => []OneSnapshot
<1>1. IInv => OneSnapshot
  <2> SUFFICES ASSUME IInv, NEW c \in Client, Alone(c)
               PROVE  /\ Cardinality(used[c]) <= 1
                      /\ \A list \in used[c], later \in extra[c] : list.version <= later.version
    BY DEF OneSnapshot
  <2>1. /\ \E list : used[c] \subseteq {list}
        /\ \A list \in used[c], later \in extra[c] : list.version <= later.version
    BY DEF IInv, SnapshotInv, SourcesInv, Snapshot
  <2>2. PICK list : used[c] \subseteq {list}
    BY <2>1
  <2>3. used[c] = {} \/ used[c] = {list}
    BY <2>2
  <2>4. Cardinality(used[c]) = 0 \/ Cardinality(used[c]) = 1
    BY <2>3, FS_EmptySet, FS_Singleton
  <2> QED BY <2>1, <2>4
<1> QED BY <1>1, Invariant, PTL

\* Whoever a call shares its millisecond with, it works only with lists that one of these
\* calls could have fetched since it started (NothingStale).
THEOREM ListsAreFresh == Spec => []NothingStale
<1>1. IInv => NothingStale
  <2> SUFFICES ASSUME IInv, NEW c \in Client, NEW list \in used[c] \cup extra[c]
               PROVE  \E d \in Together(c) : list.address = FromOf[d] /\ list.version >= born[d]
    BY DEF NothingStale
  <2>1. OfTime(started[c], list)
    BY DEF IInv, SourcesInv
  <2> QED BY <2>1 DEF OfTime, FetchedBy, Together
<1> QED BY <1>1, Invariant, PTL

\* Calls that return release their lists (OnlyFailuresLeak).
THEOREM ReturnsRelease == Spec => []OnlyFailuresLeak
<1>1. IInv => OnlyFailuresLeak
  BY DEF IInv
<1> QED BY <1>1, Invariant, PTL

-----------------------------------------------------------------------------
(* The registry of tokens and the calls that take cell deps.               *)

RegistryInv ==
    /\ cache.tokens \subseteq Token /\ xudtUrl \in Url /\ served \in [Url -> Version]
    /\ DOMAIN refreshing = 1..MaxRefresh
    /\ \A i \in 1..MaxRefresh : refreshing[i] # Nothing =>
            refreshing[i].url \in Url /\ refreshing[i].since \in Version

Given(call) ==
    /\ call.kind \in Kind
    /\ call.asset \in Type
    /\ call.vendor \in Documents \cup {Nothing}

\* Contracts are never taken for tokens, nor tokens for contracts.
Chosen(selected) == selected.contracts \subseteq Contract /\ selected.tokens \subseteq Token

CallOK(call) ==
    \/ call = Idle
    \/ call.pc = "cells" /\ Given(call)
    \/ "pc" \in DOMAIN call /\ call.pc \in {"api", "static"} /\ Chosen(call.selected)
    \/ call.pc = "done" /\ Chosen(call.selected) /\ call.doc \in Documents \cup {Nothing}

CallsInv == DOMAIN calls = Call /\ \A c \in Call : CallOK(calls[c])

DepsInv == RegistryInv /\ CallsInv

-----------------------------------------------------------------------------
(* What a call selects, and what becomes of it.                            *)

LEMMA BuiltOK ==
    ASSUME NEW selected, Chosen(selected), NEW doc \in Documents \cup {Nothing}
    PROVE  CallOK(Built(selected, doc))
<1>1. CASE Throws(selected, doc)
  BY <1>1 DEF Built, CallOK
<1>2. CASE ~Throws(selected, doc)
  <2>1. PICK built : built = Built(selected, doc)
    OBVIOUS
  <2>2. built = [pc |-> "done", selected |-> selected, doc |-> doc]
    BY <1>2, <2>1 DEF Built
  <2>3. built.pc = "done" /\ built.selected = selected /\ built.doc = doc
    BY <2>2
  <2> QED BY <2>1, <2>3 DEF CallOK
<1> QED BY <1>1, <1>2

LEMMA FetchingOK ==
    ASSUME NEW vendor \in Documents \cup {Nothing}, NEW selected, Chosen(selected)
    PROVE  CallOK(Fetching(vendor, selected))
<1>1. CASE vendor # Nothing
  BY <1>1, BuiltOK DEF Fetching
<1>2. CASE vendor = Nothing
  <2>1. PICK next : next = Fetching(vendor, selected)
    OBVIOUS
  <2>2. next = [pc |-> "api", selected |-> selected]
    BY <1>2, <2>1 DEF Fetching
  <2>3. "pc" \in DOMAIN next /\ next.pc = "api" /\ next.selected = selected
    BY <2>2
  <2> QED BY <2>1, <2>3 DEF CallOK
<1> QED BY <1>1, <1>2

\* One type of a call, checked before.
LEMMA SelectedOK ==
    ASSUME NEW kind \in Kind, NEW asset \in Type
    PROVE  Chosen(Selected(kind, asset))
<1>1. PICK selected : selected = Selected(kind, asset)
  OBVIOUS
<1>2. selected = [contracts |-> LockOf[kind] \cup ({"xudt"} \cap {asset}), tokens |-> {asset} \ {"xudt"}]
  BY <1>1 DEF Selected
<1>3. LockOf[kind] \subseteq Contract
  BY DEF Kind, LockOf, Contract
<1>4. selected.contracts \subseteq Contract /\ selected.tokens \subseteq Token
  BY <1>2, <1>3 DEF Contract, Type
<1> QED BY <1>1, <1>4 DEF Chosen

-----------------------------------------------------------------------------
(* Every step preserves the invariant.                                     *)

LEMMA DepsInvInit == DepsInit => DepsInv
<1> SUFFICES ASSUME DepsInit PROVE DepsInv
  OBVIOUS
<1>1. RegistryInv
  BY DEF DepsInit, RegistryInv, Empty, Url, Version
<1>2. CallsInv
  BY DEF DepsInit, CallsInv, CallOK
<1> QED BY <1>1, <1>2 DEF DepsInv

\* A request asks for the list that its URL serves now.
LEMMA RequestKeeps ==
    ASSUME RegistryInv, NEW numbers, NEW url \in Url, NEW given, NEW by,
           Request(numbers, url, given, by), UNCHANGED <<cache, served>>, xudtUrl' \in Url
    PROVE  RegistryInv'
<1>1. PICK slots \in SUBSET Free :
        refreshing' = [i \in DOMAIN refreshing |->
             IF i \in slots
             THEN [url |-> url, from |-> Sources(url, given), since |-> served[url], by |-> by]
             ELSE refreshing[i]]
  BY DEF Request
<1>2. served[url] \in Version
  BY DEF RegistryInv
<1>3. ASSUME NEW i \in 1..MaxRefresh, refreshing'[i] # Nothing
      PROVE  refreshing'[i].url \in Url /\ refreshing'[i].since \in Version
  <2>1. CASE i \in slots
    <3>1. refreshing'[i].url = url /\ refreshing'[i].since = served[url]
      BY <1>1, <2>1 DEF RegistryInv
    <3> QED BY <1>2, <3>1
  <2>2. CASE i \notin slots
    BY <1>1, <1>3, <2>2 DEF RegistryInv
  <2> QED BY <2>1, <2>2
<1>4. DOMAIN refreshing' = 1..MaxRefresh
  BY <1>1 DEF RegistryInv
<1> QED BY <1>3, <1>4 DEF RegistryInv

LEMMA AskKeeps ==
    ASSUME RegistryInv, NEW vendor, NEW numbers, AskRegistry(vendor, numbers), UNCHANGED world
    PROVE  RegistryInv'
<1>1. CASE UNCHANGED registry
  BY <1>1 DEF registry, world, RegistryInv
<1>2. CASE ~UNCHANGED registry
  BY <1>2, RequestKeeps DEF AskRegistry, world, RegistryInv
<1> QED BY <1>1, <1>2

LEMMA CallSteps ==
    ASSUME CallsInv, NEW c \in Call, NEW to, Step(c, to), CallOK(to)
    PROVE  CallsInv'
<1>1. DOMAIN calls' = Call
  BY DEF Step, CallsInv
<1>2. ASSUME NEW d \in Call PROVE CallOK(calls'[d])
  <2>1. calls'[d] = IF d = c THEN to ELSE calls[d]
    BY DEF Step, CallsInv
  <2> QED BY <2>1 DEF CallsInv
<1> QED BY <1>1, <1>2 DEF CallsInv

LEMMA StartBuildPreserves ==
    ASSUME DepsInv, NEW c \in Call, NEW kind \in Kind, NEW asset \in Type,
           NEW vendor \in Documents \cup {Nothing}, StartBuild(c, kind, asset, vendor)
    PROVE  DepsInv'
<1>1. PICK call : call = [pc |-> "cells", kind |-> kind, asset |-> asset, vendor |-> vendor]
  OBVIOUS
<1>2. call.pc = "cells" /\ call.kind = kind /\ call.asset = asset /\ call.vendor = vendor
  BY <1>1
<1>3. CallOK(call) /\ CallOK(Idle)
  BY <1>2 DEF CallOK, Given
<1>4. Step(c, call) \/ Step(c, Idle)
  BY <1>1 DEF StartBuild
<1>5. CallsInv'
  BY <1>3, <1>4, CallSteps DEF DepsInv
<1>6. RegistryInv'
  BY AskKeeps DEF StartBuild, DepsInv
<1> QED BY <1>5, <1>6 DEF DepsInv

\* After the cells of a lock the call goes on to the next lock, selects its deps or ends.
LEMMA CellsPreserves ==
    ASSUME DepsInv, NEW c \in Call, Cells(c) \/ \E types \in SUBSET Type : CellsOfLock(c, types)
    PROVE  DepsInv'
<1>1. PICK call : call = calls[c]
  OBVIOUS
<1>2. call.pc = "cells" /\ CallOK(call)
  BY <1>1 DEF Cells, CellsOfLock, DepsInv, CallsInv
<1>3. Given(call)
  BY <1>2 DEF CallOK, Idle
<1>4. PICK fetching : fetching = Fetching(call.vendor, Selected(call.kind, call.asset))
  OBVIOUS
<1>5. CallOK(fetching) /\ CallOK(Idle)
  BY <1>3, <1>4, SelectedOK, FetchingOK DEF CallOK, Given
<1>6. Step(c, call) \/ Step(c, Idle) \/ Step(c, fetching)
  BY <1>1, <1>4 DEF Cells, CellsOfLock
<1>7. CallsInv'
  BY <1>2, <1>5, <1>6, CallSteps DEF DepsInv
<1>8. RegistryInv'
  <2>1. CASE Cells(c)
    BY <2>1 DEF Cells, DepsInv, RegistryInv, registry, world
  <2>2. ASSUME NEW types \in SUBSET Type, CellsOfLock(c, types) PROVE RegistryInv'
    BY <2>2, AskKeeps DEF CellsOfLock, DepsInv
  <2> QED BY <2>1, <2>2
<1> QED BY <1>7, <1>8 DEF DepsInv

\* An unlock selects what the registry's list has; that list never names the standard type.
LEMMA UnlockPreserves ==
    ASSUME DepsInv, NEW c \in Call, NEW types \in SUBSET Type,
           NEW vendor \in Documents \cup {Nothing}, Unlock(c, types, vendor)
    PROVE  DepsInv'
<1>1. PICK selected : selected = [contracts |-> {"btcTime"} \cup ({"xudt"} \cap types),
                                  tokens |-> types \cap Tokens(isOfflineMode(vendor))]
  OBVIOUS
<1>2. Tokens(isOfflineMode(vendor)) \subseteq Token
  BY RegistryAssumption DEF Tokens, DepsInv, RegistryInv
<1>3. selected.contracts \subseteq Contract /\ selected.tokens \subseteq Token
  BY <1>1, <1>2 DEF Contract
<1>4. Step(c, Fetching(vendor, selected))
  BY <1>1 DEF Unlock
<1>5. CallsInv'
  BY <1>3, <1>4, FetchingOK, CallSteps DEF Chosen, DepsInv
<1>6. RegistryInv'
  BY AskKeeps DEF Unlock, DepsInv
<1> QED BY <1>5, <1>6 DEF DepsInv

LEMMA LaunchPreserves ==
    ASSUME DepsInv, NEW c \in Call, NEW vendor \in Documents \cup {Nothing}, Launch(c, vendor)
    PROVE  DepsInv'
<1>1. PICK selected : selected = [contracts |-> {"rgbpp", "unique", "xudt"}, tokens |-> {}]
  OBVIOUS
<1>2. selected.contracts \subseteq Contract /\ selected.tokens \subseteq Token
  BY <1>1 DEF Contract
<1>3. Step(c, Fetching(vendor, selected)) /\ UNCHANGED <<registry, world>>
  BY <1>1 DEF Launch
<1>4. CallsInv'
  BY <1>2, <1>3, FetchingOK, CallSteps DEF Chosen, DepsInv
<1>5. RegistryInv'
  BY <1>3 DEF DepsInv, RegistryInv, registry, world
<1> QED BY <1>4, <1>5 DEF DepsInv

\* The answer of a host, or none: what was selected stays.
LEMMA FetchedPreserves ==
    ASSUME CallsInv, NEW c \in Call, calls[c].pc \in {"api", "static"},
           NEW doc \in Documents \cup {Nothing}, Fetched(c, doc)
    PROVE  CallsInv'
<1>1. PICK call : call = calls[c]
  OBVIOUS
<1>2. CallOK(call)
  BY <1>1 DEF CallsInv
<1>3. Chosen(call.selected)
  BY <1>1, <1>2 DEF CallOK, Idle
<1>4. Step(c, Built(call.selected, doc))
  BY <1>1 DEF Fetched
<1> QED BY <1>3, <1>4, BuiltOK, CallSteps

LEMMA ApiAnswerPreserves ==
    ASSUME CallsInv, NEW c \in Call, ApiAnswer(c) PROVE CallsInv'
<1>1. calls[c].pc = "api"
  BY DEF ApiAnswer
<1>2. ASSUME NEW doc \in Documents, Fetched(c, doc) PROVE CallsInv'
  BY <1>1, <1>2, FetchedPreserves
<1>3. CASE Step(c, [calls[c] EXCEPT !.pc = "static"])
  <2>1. PICK call : call = calls[c]
    OBVIOUS
  <2>2. CallOK(call) /\ call.pc = "api"
    BY <1>1, <2>1 DEF CallsInv
  <2>3. Chosen(call.selected)
    BY <2>2 DEF CallOK, Idle
  <2>4. PICK next : next = [call EXCEPT !.pc = "static"]
    OBVIOUS
  <2>5. "pc" \in DOMAIN call
    BY <2>2 DEF CallOK, Idle
  <2>6. "pc" \in DOMAIN next /\ next.pc = "static" /\ next.selected = call.selected
    BY <2>4, <2>5
  <2>7. CallOK(next)
    BY <2>3, <2>6 DEF CallOK
  <2> QED BY <1>3, <2>1, <2>4, <2>7, CallSteps
<1> QED BY <1>2, <1>3 DEF ApiAnswer

LEMMA StaticAnswerPreserves ==
    ASSUME CallsInv, NEW c \in Call, StaticAnswer(c) PROVE CallsInv'
<1>1. calls[c].pc = "static"
  BY DEF StaticAnswer
<1>2. \E doc \in Documents \cup {Nothing} : Fetched(c, doc)
  BY DEF StaticAnswer
<1> QED BY <1>1, <1>2, FetchedPreserves

\* An answer brings one of the lists that its URL has served.
LEMMA RefreshEnds ==
    ASSUME RegistryInv, NEW i \in 1..MaxRefresh,
           RefreshAnswer(i) \/ RefreshEmpty(i) \/ RefreshError(i)
    PROVE  RegistryInv' /\ UNCHANGED calls
<1>1. UNCHANGED <<xudtUrl, served, calls>> /\ refreshing' = [refreshing EXCEPT ![i] = Nothing]
  BY DEF RefreshAnswer, RefreshEmpty, RefreshError, Settled, world
<1>2. cache'.tokens \subseteq Token
  <2>1. CASE RefreshAnswer(i)
    <3>1. refreshing[i].url \in Url /\ refreshing[i].since \in Version
      BY <2>1 DEF RefreshAnswer, RegistryInv
    <3>2. PICK v \in refreshing[i].since..served[refreshing[i].url] :
            cache' = [url |-> refreshing[i].url, version |-> v,
                      tokens |-> Published[refreshing[i].url][v]]
      BY <2>1 DEF RefreshAnswer
    <3>3. served[refreshing[i].url] \in Version
      BY <3>1 DEF RegistryInv
    <3>4. v \in Version
      BY <3>1, <3>2, <3>3 DEF Version
    <3>5. Published[refreshing[i].url][v] \subseteq Token
      BY <3>1, <3>4, RegistryAssumption
    <3> QED BY <3>2, <3>5
  <2>2. CASE RefreshEmpty(i) \/ RefreshError(i)
    BY <2>2 DEF RefreshEmpty, RefreshError, RegistryInv
  <2> QED BY <2>1, <2>2
<1> QED BY <1>1, <1>2 DEF RegistryInv

LEMMA DepsInvNext == DepsInv /\ [DepsNext]_depsVars => DepsInv'
<1> SUFFICES ASSUME DepsInv, [DepsNext]_depsVars PROVE DepsInv'
  OBVIOUS
<1>0. ASSUME UNCHANGED calls, RegistryInv' PROVE DepsInv'
  BY <1>0 DEF DepsInv, CallsInv
<1>1. ASSUME NEW url \in Url, NEW given \in BOOLEAN, Refresh(url, given) PROVE DepsInv'
  BY <1>0, <1>1, RequestKeeps DEF Refresh, DepsInv, world
<1>2. ASSUME NEW i \in 1..MaxRefresh, RefreshAnswer(i) \/ RefreshEmpty(i) \/ RefreshError(i)
      PROVE  DepsInv'
  BY <1>0, <1>2, RefreshEnds DEF DepsInv
<1>3. CASE TimePasses
  BY <1>0, <1>3 DEF TimePasses, DepsInv, RegistryInv, world
<1>4. ASSUME NEW url \in Url, Publish(url) PROVE DepsInv'
  <2>1. served' = [served EXCEPT ![url] = 1] /\ UNCHANGED <<registry, calls>>
    BY <1>4 DEF Publish
  <2>2. served' \in [Url -> Version]
    BY <2>1 DEF DepsInv, RegistryInv, Version
  <2> QED BY <1>0, <2>1, <2>2 DEF DepsInv, RegistryInv, registry
<1>5. ASSUME NEW h \in Host, HostDown(h) \/ HostUp(h) PROVE DepsInv'
  BY <1>0, <1>5 DEF HostDown, HostUp, DepsInv, RegistryInv, registry
<1>6. ASSUME NEW c \in Call, ApiAnswer(c) \/ StaticAnswer(c) PROVE DepsInv'
  <2>1. CallsInv'
    BY <1>6, ApiAnswerPreserves, StaticAnswerPreserves DEF DepsInv
  <2>2. RegistryInv'
    BY <1>6 DEF ApiAnswer, StaticAnswer, DepsInv, RegistryInv, registry, world
  <2> QED BY <2>1, <2>2 DEF DepsInv
<1>7. ASSUME NEW c \in Call, Cells(c) \/ \E types \in SUBSET Type : CellsOfLock(c, types)
      PROVE  DepsInv'
  BY <1>7, CellsPreserves
<1>8. ASSUME NEW c \in Call, NEW vendor \in Documents \cup {Nothing},
             \/ \E kind \in Kind, asset \in Type : StartBuild(c, kind, asset, vendor)
             \/ \E types \in SUBSET Type : Unlock(c, types, vendor)
             \/ Launch(c, vendor)
      PROVE  DepsInv'
  BY <1>8, StartBuildPreserves, UnlockPreserves, LaunchPreserves
<1>9. CASE UNCHANGED depsVars
  BY <1>0, <1>9 DEF depsVars, DepsInv, RegistryInv
<1> QED BY <1>1, <1>2, <1>3, <1>4, <1>5, <1>6, <1>7, <1>8, <1>9 DEF DepsNext

\* Types: the registry holds a list that some URL has served, whatever answers come late, and
\* a call never takes a token for a contract.
THEOREM DepsTypes == DepsSpec => []DepsInv
<1> QED BY DepsInvInit, DepsInvNext, PTL DEF DepsSpec

-----------------------------------------------------------------------------
(* What the cell deps are.                                                 *)

LEMMA DeployedDep ==
    ASSUME NEW contract \in Contract, NEW net \in Network
    PROVE  \E from : DefaultDep(contract, net) = Dep(contract, NetworkOf(contract, net), from, 0)
<1>1. PICK info : info = IF net.main THEN MainnetInfo ELSE TestnetInfo
  OBVIOUS
<1>2. PICK dep : dep = Dep(contract, NetworkOf(contract, net), "constants", 0)
  OBVIOUS
<1>3. dep \in info
  <2>1. CASE net.main
    <3>1. contract \in Deployed /\ NetworkOf(contract, net) = "mainnet"
      BY <2>1 DEF Deployed, NetworkOf
    <3> QED BY <1>1, <1>2, <2>1, <3>1 DEF MainnetInfo, Deployment
  <2>2. CASE ~net.main
    <3>1. \/ contract \in Deployed /\ NetworkOf(contract, net) = "testnet"
          \/ contract \in {"rgbpp", "btcTime"} /\ NetworkOf(contract, net) = "signet"
      BY <2>2 DEF Deployed, NetworkOf, Network
    <3> QED BY <1>1, <1>2, <2>2, <3>1 DEF TestnetInfo, Deployment
  <2> QED BY <2>1, <2>2
<1>4. dep.contract = contract /\ dep.net = NetworkOf(contract, net) /\ dep.index = 0
  BY <1>2 DEF Dep
<1>5. PICK d : d = DefaultDep(contract, net)
  OBVIOUS
<1>6. d \in info /\ d.contract = contract /\ d.net = NetworkOf(contract, net) /\ d.index = 0
  BY <1>1, <1>3, <1>4, <1>5 DEF DefaultDep
<1>7. \E x, network, from, index : d = Dep(x, network, from, index)
  BY <1>1, <1>6 DEF MainnetInfo, TestnetInfo, Deployment
<1>8. PICK x, network, from, index : d = Dep(x, network, from, index)
  BY <1>7
<1>9. x = contract /\ network = NetworkOf(contract, net) /\ index = 0
  BY <1>6, <1>8 DEF Dep
<1> QED BY <1>5, <1>8, <1>9

\* The code of a contract is of the network its lock script is of, wherever it comes from.
LEMMA CodeOfNetwork ==
    ASSUME NEW contract \in Contract, NEW net \in Network, NEW doc
    PROVE  \E from : CodeDep(contract, net, doc) = Dep(contract, NetworkOf(contract, net), from, 0)
<1>1. CASE doc = Nothing \/ contract \notin doc.has
           \/ (net.main /\ contract \in {"xudt", "unique"})
  BY <1>1, DeployedDep DEF CodeDep
<1>2. CASE ~(doc = Nothing \/ contract \notin doc.has
             \/ (net.main /\ contract \in {"xudt", "unique"}))
  <2>1. PICK network : network = IF contract \in {"rgbpp", "btcTime"} /\ net.btc = "signet"
                                 THEN "signet" ELSE IF net.main THEN "mainnet" ELSE "testnet"
    OBVIOUS
  <2>2. CodeDep(contract, net, doc) = Dep(contract, network, "document", 0)
    BY <1>2, <2>1 DEF CodeDep
  <2>3. network = NetworkOf(contract, net)
    BY <2>1 DEF NetworkOf, Network
  <2> QED BY <2>2, <2>3
<1> QED BY <1>1, <1>2

LEMMA DepsOfOneDeployment ==
    ASSUME NEW selected, selected.contracts \subseteq Contract, selected.tokens \subseteq Token,
           NEW net \in Network, NEW doc, NEW d \in TypeIdCellDeps(net, selected, doc),
           d.contract \in Contract
    PROVE  /\ d.net = NetworkOf(d.contract, net)
           /\ d.contract \in {"rgbpp", "btcTime"} =>
                [d EXCEPT !.index = 1 - @] \in TypeIdCellDeps(net, selected, doc)
<1>1. PICK locks : locks = selected.contracts \cap {"rgbpp", "btcTime"}
  OBVIOUS
<1>2. \/ \E x \in selected.contracts : d = CodeDep(x, net, doc)
      \/ \E x \in locks : d = ConfigDep(x, net, doc)
  <2>1. ASSUME NEW t \in selected.tokens, d = TokenDep(t, doc) PROVE FALSE
    <3>1. d.contract = t
      BY <2>1 DEF TokenDep, Dep
    <3> QED BY <3>1, RegistryAssumption
  <2> QED BY <1>1, <2>1 DEF TypeIdCellDeps
<1>3. PICK x \in selected.contracts : \/ d = CodeDep(x, net, doc)
                                      \/ x \in locks /\ d = ConfigDep(x, net, doc)
  BY <1>1, <1>2
<1>4. PICK network : network = NetworkOf(x, net)
  OBVIOUS
<1>5. PICK from : CodeDep(x, net, doc) = Dep(x, network, from, 0)
  BY <1>4, CodeOfNetwork
<1>6. ConfigDep(x, net, doc) = Dep(x, network, from, 1)
  BY <1>5 DEF ConfigDep, Dep
<1>7. PICK index \in {0, 1} : d = Dep(x, network, from, index) /\ (index = 1 => x \in locks)
  BY <1>3, <1>5, <1>6
<1>8. d.contract = x /\ d.net = network
  BY <1>7 DEF Dep
<1>9. [d EXCEPT !.index = 1 - @] = Dep(x, network, from, 1 - index)
  BY <1>7 DEF Dep
<1>10. ASSUME x \in {"rgbpp", "btcTime"}
       PROVE  [d EXCEPT !.index = 1 - @] \in TypeIdCellDeps(net, selected, doc)
  <2>1. x \in locks
    BY <1>1, <1>10
  <2>2. /\ CodeDep(x, net, doc) \in TypeIdCellDeps(net, selected, doc)
        /\ ConfigDep(x, net, doc) \in TypeIdCellDeps(net, selected, doc)
    BY <1>1, <2>1 DEF TypeIdCellDeps
  <2>3. CASE index = 0
    BY <1>6, <1>9, <2>2, <2>3
  <2>4. CASE index = 1
    BY <1>5, <1>9, <2>2, <2>4
  <2> QED BY <2>3, <2>4
<1> QED BY <1>4, <1>8, <1>10

\* The cell deps of every transaction are of the network of its lock scripts, and a lock's
\* code and config cell are of one deployment, from the constants or from one document.
THEOREM DepsFitTogether == DepsSpec => []OneDeployment
<1>1. DepsInv => OneDeployment
  <2> SUFFICES ASSUME DepsInv, NEW c \in Call, NEW net \in Network, calls[c].pc = "done",
                      NEW d \in TypeIdCellDeps(net, calls[c].selected, calls[c].doc),
                      d.contract \in Contract
               PROVE  /\ d.net = NetworkOf(d.contract, net)
                      /\ d.contract \in {"rgbpp", "btcTime"} =>
                            [d EXCEPT !.index = 1 - @] \in
                                TypeIdCellDeps(net, calls[c].selected, calls[c].doc)
    BY DEF OneDeployment
  <2>1. CallOK(calls[c])
    BY DEF DepsInv, CallsInv
  <2>2. Chosen(calls[c].selected)
    BY <2>1 DEF CallOK, Idle
  <2> QED BY <2>2, DepsOfOneDeployment DEF Chosen
<1> QED BY <1>1, DepsTypes, PTL
=============================================================================
