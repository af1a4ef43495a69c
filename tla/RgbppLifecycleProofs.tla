------------------------ MODULE RgbppLifecycleProofs ------------------------
(***************************************************************************)
(* Broadcast, queue, local completion and time cells together implement    *)
(* the abstract promise of IsomorphicBinding, for every set of             *)
(* transactions, every queue and every bound on failures and retries.      *)
(*                                                                         *)
(* The invariant says what the abstract step needs and the locks alone do  *)
(* not: mempool and chain hold no two rivals, no asset has moved twice,    *)
(* the lock args of every cell name the transaction it belongs to, and the *)
(* time cells under way belong to committed leaps.                         *)
(*                                                                         *)
(* A second invariant follows the interval of a client that completes its  *)
(* transaction itself: the transaction is given up only for a reason.      *)
(***************************************************************************)
EXTENDS RgbppLifecycle, TLAPS

TypeInv ==
    /\ mempool \subseteq Tx
    /\ depth \in [Tx -> Nat]
    /\ reorged \in BOOLEAN
    /\ groups \in Seq(Queued)
    /\ results \in Seq({"sent", "error"})
    /\ job \in [Tx -> JobStates]
    /\ DOMAIN names = Tx
    /\ unlocked \subseteq Tx
    /\ unlock \in [cells : SUBSET Leap, proved : SUBSET Leap]

NoRivals == \A t, u \in mempool \cup Chain : AssetOf[t] = AssetOf[u] => t = u
NamesTrue == \A t \in Committed : Named(t) = {t}
MovedOnce == \A t, u \in Committed : AssetOf[t] = AssetOf[u] => t = u
TimeCellsCommitted == unlock.cells \subseteq Committed

IInv ==
    /\ TypeInv
    /\ NoRivals
    /\ MovedOnce
    /\ NamesTrue
    /\ ResultsTrue
    /\ TimeCellsCommitted

-----------------------------------------------------------------------------
(* Bitcoin *)

LEMMA AcceptKeeps ==
    ASSUME TypeInv, NoRivals, NEW t \in Tx, Accept(t)
    PROVE  /\ mempool' \subseteq Tx /\ depth' = depth /\ reorged' = reorged /\ NoRivals'
<1> USE DEF TypeInv, NoRivals, Accept, Chain, Rivals
<1>1. mempool' \subseteq Tx /\ depth' = depth /\ reorged' = reorged
  OBVIOUS
<1>2. NoRivals'
  <2>1. CASE t \in Chain
    BY <2>1
  <2>2. CASE t \notin Chain
    BY <2>2
  <2> QED BY <2>1, <2>2
<1> QED BY <1>1, <1>2

LEMMA CurrentQueued ==
    ASSUME TypeInv, Running
    PROVE  Current \in Queued /\ Current \in Tx
<1>1. Len(results) + 1 \in 1..Len(groups)
  BY DEF TypeInv, Running
<1>2. Queued \subseteq Tx
  BY TxAssumption DEF Queued, ToSet
<1> QED BY <1>1, <1>2 DEF TypeInv, Current

\* A step that commits nothing leaves CKB as it is.
LEMMA NamesKept ==
    ASSUME NamesTrue, MovedOnce, UNCHANGED names
    PROVE  NamesTrue' /\ MovedOnce' /\ Committed' = Committed
<1>1. Committed' = Committed
  BY DEF Committed
<1>2. \A t \in Tx : Named(t)' = Named(t)
  BY DEF Named
<1>3. Committed \subseteq Tx
  BY DEF Committed
<1> QED BY <1>1, <1>2, <1>3 DEF NamesTrue, MovedOnce

LEMMA OwnerKept ==
    ASSUME UNCHANGED names
    PROVE  Owner' = Owner
BY DEF Owner, Committed, Moved, Mover, Named

\* Bitcoin changes its mind, CKB does not move.
LEMMA BitcoinStep ==
    ASSUME TypeInv', NoRivals', UNCHANGED ckb, Final \subseteq Final'
    PROVE  Binding!BitcoinMoves
<1>1. Chain' \in SUBSET Tx /\ Binding!Consistent(Chain')
  BY DEF NoRivals, Chain, Binding!Consistent
<1>2. Final' \in SUBSET Chain'
  BY TxAssumption DEF Final, Chain, TypeInv
<1>3. Owner' = Owner /\ Free' = Free
  BY OwnerKept DEF ckb, Free
<1> QED BY <1>1, <1>2, <1>3 DEF Binding!BitcoinMoves

-----------------------------------------------------------------------------
(* CKB *)

LEMMA OwnerOf ==
    ASSUME MovedOnce, NamesTrue, NEW t \in Committed
    PROVE  Owner[AssetOf[t]] = t
<1>1. t \in Tx /\ AssetOf[t] \in Asset
  BY TxAssumption DEF Committed
<1>2. Mover(AssetOf[t]) = t
  BY DEF MovedOnce, Mover
<1>3. AssetOf[t] \in Moved /\ Named(t) = {t}
  BY DEF Moved, NamesTrue
<1> QED BY <1>1, <1>2, <1>3 DEF Owner

LEMMA CommitKeeps ==
    ASSUME IInv, NEW t \in Tx, Commit(t), UNCHANGED <<depth, reorged>>
    PROVE  /\ DOMAIN names' = Tx /\ Committed' = Committed \cup {t}
           /\ MovedOnce' /\ NamesTrue' /\ unlocked' = unlocked
<1>0. DOMAIN names = Tx /\ NamesTrue /\ MovedOnce
  BY DEF IInv, TypeInv
<1> DEFINE args == WithRealBtcTxId(t)
<1>1. names' = [names EXCEPT ![t] = args] /\ unlocked' = unlocked
  BY DEF Commit
<1>2. args # <<>> /\ {args[i] : i \in Bound(t)} = {t}
  <2>1. /\ DOMAIN args = DOMAIN LocksOf[t] /\ Bound(t) \subseteq DOMAIN args
        /\ \A i \in Bound(t) : args[i] = t
    BY DEF WithRealBtcTxId, Bound
  <2>2. Bound(t) # {}
    BY TxAssumption
  <2>3. DOMAIN <<>> = {}
    OBVIOUS
  <2> HIDE DEF args
  <2>4. args # <<>>
    <3>1. PICK i \in Bound(t) : i \in DOMAIN args
      BY <2>1, <2>2
    <3> QED BY <2>3, <3>1
  <2>5. {args[i] : i \in Bound(t)} = {t}
    <3>1. PICK i \in Bound(t) : args[i] = t
      BY <2>1, <2>2
    <3> QED BY <2>1, <3>1
  <2> QED BY <2>4, <2>5
<1> HIDE DEF args
<1>3. \A u \in Tx : names'[u] = IF u = t THEN args ELSE names[u]
  BY <1>0, <1>1
<1>4. Committed' = Committed \cup {t}
  BY <1>0, <1>1, <1>2, <1>3 DEF Committed
<1>5. MovedOnce'
  BY <1>0, <1>4 DEF MovedOnce, Commit, CellLive, Committed
<1>6. NamesTrue'
  <2> SUFFICES ASSUME NEW u \in Committed' PROVE Named(u)' = {u}
    BY DEF NamesTrue
  <2>1. u \in Tx
    BY <1>0, <1>1 DEF Committed
  <2>2. CASE u = t
    <3>1. names'[u] = args
      BY <1>3, <2>1, <2>2
    <3> QED BY <1>2, <2>2, <3>1 DEF Named
  <2>3. CASE u # t
    <3>1. u \in Committed /\ names'[u] = names[u]
      BY <1>3, <1>4, <2>1, <2>3
    <3>2. Named(u) = {u}
      BY <1>0, <3>1 DEF NamesTrue
    <3>3. Named(u)' = Named(u)
      BY <3>1 DEF Named
    <3> QED BY <3>2, <3>3
  <2> QED BY <2>2, <2>3
<1> QED BY <1>0, <1>1, <1>4, <1>5, <1>6

\* A commit moves an asset that has not moved.
LEMMA CommitFollows ==
    ASSUME IInv, NEW t \in Tx, Commit(t), UNCHANGED <<depth, reorged>>
    PROVE  Binding!Follow(t)
<1> DEFINE a == AssetOf[t]
<1>1. /\ Committed' = Committed \cup {t} /\ MovedOnce' /\ NamesTrue' /\ unlocked' = unlocked
      /\ MovedOnce /\ NamesTrue /\ t \in Committed'
  BY CommitKeeps DEF IInv
<1>2. a \in Asset /\ \A u \in Committed : AssetOf[u] # a
  BY TxAssumption DEF Commit, CellLive
<1>3. t \in Chain /\ Owner[a] = "origin"
  BY <1>2 DEF Commit, Owner, Moved
<1>4. ASSUME NEW u \in Committed' PROVE Owner'[AssetOf[u]] = u
  <2>1. AssetOf[u] \in Asset
    BY <1>4, TxAssumption DEF Committed
  <2>2. Mover(AssetOf[u])' = u
    BY <1>1, <1>4 DEF MovedOnce, Mover
  <2>3. AssetOf[u] \in Moved' /\ Named(u)' = {u}
    BY <1>1, <1>4 DEF Moved, NamesTrue
  <2>4. Owner'[AssetOf[u]] = IF AssetOf[u] \notin Moved' THEN "origin"
          ELSE IF Named(Mover(AssetOf[u]))' = {Mover(AssetOf[u])'} THEN Mover(AssetOf[u])' ELSE "nobody"
    BY <2>1 DEF Owner
  <2>5. Named(Mover(AssetOf[u]))' = {u}
    BY <2>2, <2>3 DEF Named
  <2> QED BY <2>2, <2>3, <2>4, <2>5
<1>5. ASSUME NEW b \in Asset, b # a PROVE Owner'[b] = Owner[b]
  <2>1. CASE b \in Moved
    <3>1. PICK u \in Committed : AssetOf[u] = b
      BY <2>1 DEF Moved
    <3>2. Owner[b] = u
      BY <1>1, <3>1, OwnerOf
    <3>3. Owner'[b] = u
      BY <1>1, <1>4, <3>1
    <3> QED BY <3>2, <3>3
  <2>2. CASE b \notin Moved
    <3>1. b \notin Moved'
      BY <1>1, <1>5, <2>2 DEF Moved
    <3> QED BY <2>2, <3>1 DEF Owner
  <2> QED BY <2>1, <2>2
<1>6. Owner' = [Owner EXCEPT ![a] = t]
  <2>1. Owner' = [b \in Asset |-> Owner'[b]] /\ Owner = [b \in Asset |-> Owner[b]]
    BY DEF Owner
  <2>2. Owner'[a] = t
    BY <1>1, <1>4
  <2> QED BY <1>2, <1>5, <2>1, <2>2
<1>7. Chain' = Chain /\ Final' = Final /\ Free' = Free
  BY <1>1 DEF Chain, Final, Free
<1> QED BY <1>3, <1>6, <1>7 DEF Binding!Follow

-----------------------------------------------------------------------------
(* The invariant                                                           *)

LEMMA InitHolds == Init => IInv
<1> SUFFICES ASSUME Init PROVE IInv
  OBVIOUS
<1> USE DEF Init
<1>1. Chain = {} /\ Committed = {}
  BY DEF Chain, Committed
<1>2. Groups \in Seq(Queued)
  <2>1. \A i \in DOMAIN Groups : Groups[i] \in Queued
    BY TxAssumption DEF Queued, ToSet
  <2>2. Groups = [i \in 1..Len(Groups) |-> Groups[i]] /\ Len(Groups) \in Nat
    BY TxAssumption
  <2> QED BY <2>1, <2>2
<1>3. Len(Groups) \in Nat /\ results = <<>> /\ results \in Seq({"sent", "error"})
  BY <1>2
<1>4. unlock \in [cells : SUBSET Leap, proved : SUBSET Leap] /\ unlock.cells = {}
  BY DEF Nothing
<1>5. TypeInv
  <2>1. depth \in [Tx -> Nat] /\ job \in [Tx -> JobStates] /\ DOMAIN names = Tx
    BY DEF JobStates
  <2> QED BY <1>2, <1>3, <1>4, <2>1 DEF TypeInv
<1>6. ResultsTrue
  BY <1>2, <1>3 DEF ResultsTrue
<1> QED BY <1>1, <1>4, <1>5, <1>6 DEF IInv, NoRivals, MovedOnce, NamesTrue, TimeCellsCommitted

\* The results of sendRgbppTxGroups.
LEMMA ResultKeeps ==
    ASSUME TypeInv, NEW r \in {"sent", "error"}, Result(r)
    PROVE  /\ results' \in Seq({"sent", "error"}) /\ groups' = groups
           /\ Len(results') = Len(results) + 1
           /\ results'[Len(results) + 1] = r
           /\ \A i \in DOMAIN results : results'[i] = results[i]
           /\ DOMAIN results' = DOMAIN results \cup {Len(results) + 1}
<1> DEFINE R == {"sent", "error"}
<1>1. results \in Seq(R) /\ r \in R /\ results' = Append(results, r) /\ groups' = groups
  BY DEF TypeInv, Result
<1> HIDE DEF R
<1>2. results' \in Seq(R) /\ Len(results') = Len(results) + 1 /\ results'[Len(results) + 1] = r
  BY <1>1
<1>3. \A i \in DOMAIN results : results'[i] = results[i]
  BY <1>1
<1>4. DOMAIN results' = DOMAIN results \cup {Len(results) + 1}
  BY <1>1
<1> QED BY <1>1, <1>2, <1>3, <1>4 DEF R

LEMMA ErrorKeepsTruth ==
    ASSUME IInv, Running, Result("error"), \A t \in Tx : job[t] # "none" => job'[t] # "none"
    PROVE  ResultsTrue'
<1>1. /\ groups' = groups /\ Len(results') = Len(results) + 1
      /\ results'[Len(results) + 1] = "error"
      /\ \A i \in DOMAIN results : results'[i] = results[i]
      /\ DOMAIN results' = DOMAIN results \cup {Len(results) + 1}
  BY ResultKeeps DEF IInv
<1>2. Len(results) \in Nat /\ Len(groups) \in Nat /\ DOMAIN results = 1..Len(results)
  BY DEF IInv, TypeInv
<1>3. \A i \in DOMAIN results : groups[i] \in Tx
  <2>1. \A i \in 1..Len(groups) : groups[i] \in Queued
    BY DEF IInv, TypeInv
  <2>2. Queued \subseteq Tx
    BY TxAssumption DEF Queued, ToSet
  <2> QED BY <1>2, <2>1, <2>2 DEF Running
<1>4. "error" # "sent"
  OBVIOUS
<1> QED BY <1>1, <1>2, <1>3, <1>4 DEF IInv, ResultsTrue, Running

\* Jobs do not vanish, so what the results say stays true.
LEMMA TruthKept ==
    ASSUME TypeInv, ResultsTrue, UNCHANGED <<groups, results>>,
           \A t \in Tx : job[t] # "none" => job'[t] # "none"
    PROVE  ResultsTrue'
<1>1. \A i \in DOMAIN results : i \in 1..Len(groups)
  BY DEF TypeInv, ResultsTrue
<1>2. \A i \in DOMAIN results : groups[i] \in Tx
  <2>1. Queued \subseteq Tx
    BY TxAssumption DEF Queued, ToSet
  <2> QED BY <1>1, <2>1 DEF TypeInv
<1> QED BY <1>2 DEF ResultsTrue

\* Where neither chain changes, only the types are left to show.
LEMMA OthersKeep ==
    ASSUME IInv, TypeInv', ResultsTrue', UNCHANGED <<bitcoin, ckb, unlock>>
    PROVE  IInv'
BY NamesKept DEF IInv, bitcoin, ckb, NoRivals, TimeCellsCommitted, Chain

\* What Bitcoin accepts disturbs nothing on CKB.
LEMMA AcceptedKeeps ==
    ASSUME IInv, NEW t \in Tx, Accept(t) \/ Refuse(t), UNCHANGED <<ckb, unlock>>,
           results' \in Seq({"sent", "error"}), UNCHANGED <<groups, job>>, ResultsTrue'
    PROVE  IInv'
<1>1. /\ mempool' \subseteq Tx /\ depth' = depth /\ reorged' = reorged /\ NoRivals'
  BY AcceptKeeps DEF IInv, Refuse, bitcoin, TypeInv, NoRivals, Chain
<1>2. TypeInv'
  BY <1>1 DEF IInv, TypeInv, ckb
<1> QED BY <1>1, <1>2, NamesKept DEF IInv, ckb, TimeCellsCommitted

LEMMA CommittedKeeps ==
    ASSUME IInv, NEW t \in Tx, Commit(t), UNCHANGED <<bitcoin, call, unlock>>,
           job' \in [Tx -> JobStates], \A u \in Tx : job[u] # "none" => job'[u] # "none"
    PROVE  IInv'
<1>1. UNCHANGED <<depth, reorged>>
  BY DEF bitcoin
<1>2. /\ DOMAIN names' = Tx /\ Committed' = Committed \cup {t}
      /\ MovedOnce' /\ NamesTrue' /\ unlocked' = unlocked
  BY <1>1, CommitKeeps
<1>3. TypeInv'
  BY <1>2 DEF IInv, TypeInv, bitcoin, call
<1>4. NoRivals' /\ TimeCellsCommitted'
  BY <1>2 DEF IInv, bitcoin, NoRivals, Chain, TimeCellsCommitted
<1>5. ResultsTrue'
  BY TruthKept DEF call, IInv
<1> QED BY <1>2, <1>3, <1>4, <1>5 DEF IInv

LEMMA MineKeeps ==
    ASSUME IInv, NEW txs \in SUBSET Tx, Mine(txs)
    PROVE  IInv' /\ Final \subseteq Final'
<1> USE DEF IInv, TypeInv, Mine, ckb, call, local
<1>1. depth' \in [Tx -> Nat] /\ \A t \in Tx : depth'[t] >= depth[t] /\ depth[t] \in Nat
  BY TxAssumption
<1>2. TypeInv' /\ mempool' \cup Chain' = mempool \cup Chain
  <2>1. TypeInv'
    BY <1>1
  <2>2. \A t \in Tx : depth'[t] > 0 <=> depth[t] > 0 \/ t \in txs
    BY TxAssumption
  <2> QED BY <2>1, <2>2 DEF Chain
<1>3. Chain \subseteq Chain'
  BY <1>1 DEF Chain
<1>4. NoRivals' /\ MovedOnce' /\ NamesTrue' /\ TimeCellsCommitted'
  BY <1>2, <1>3, NamesKept DEF NoRivals, TimeCellsCommitted
<1>5. Final \subseteq Final'
  BY <1>1, TxAssumption DEF Final
<1>6. ResultsTrue'
  BY TruthKept
<1> QED BY <1>2, <1>4, <1>5, <1>6

LEMMA ReorgKeeps ==
    ASSUME IInv, NEW blocks \in 1..MaxReorg, Reorg(blocks)
    PROVE  IInv' /\ Final \subseteq Final'
<1> USE DEF IInv, TypeInv, Reorg, ckb, call, local
<1>1. depth' \in [Tx -> Nat] /\ Final \subseteq Final'
  BY TxAssumption DEF Final
<1>2. TypeInv'
  BY <1>1 DEF Chain
<1>3. mempool' \cup Chain' \subseteq mempool \cup Chain
  <2>1. Chain' \subseteq Chain
    BY TxAssumption DEF Chain
  <2>2. mempool' \subseteq mempool \cup Chain
    OBVIOUS
  <2> QED BY <2>1, <2>2
<1>4. NoRivals' /\ MovedOnce' /\ NamesTrue' /\ TimeCellsCommitted'
  BY <1>3, NamesKept DEF NoRivals, TimeCellsCommitted
<1>5. ResultsTrue'
  BY TruthKept
<1> QED BY <1>1, <1>2, <1>4, <1>5

LEMMA BroadcastKeeps ==
    ASSUME IInv, Broadcast
    PROVE  IInv'
<1>1. Current \in Tx /\ Running
  BY CurrentQueued DEF IInv, Broadcast
<1>2. UNCHANGED <<job, ckb, unlock>> /\ (Accept(Current) \/ Refuse(Current))
  BY DEF Broadcast
<1>3. CASE UNCHANGED <<groups, results>>
  BY <1>1, <1>2, <1>3, AcceptedKeeps, TruthKept DEF IInv, TypeInv
<1>4. CASE Result("error")
  <2>1. results' \in Seq({"sent", "error"}) /\ groups' = groups
    BY <1>4, ResultKeeps DEF IInv
  <2>2. ResultsTrue'
    BY <1>1, <1>2, <1>4, ErrorKeepsTruth
  <2> QED BY <1>1, <1>2, <2>1, <2>2, AcceptedKeeps
<1> QED BY <1>3, <1>4 DEF Broadcast

LEMMA PostKeeps ==
    ASSUME IInv, PostToQueue
    PROVE  IInv'
<1>1. Current \in Tx /\ Running
  BY CurrentQueued DEF IInv, PostToQueue
<1>2. UNCHANGED <<bitcoin, ckb, unlock>> /\ (Result("sent") \/ Result("error"))
  BY DEF PostToQueue
<1>3. /\ job' \in [Tx -> JobStates] /\ \A t \in Tx : job[t] # "none" => job'[t] # "none"
      /\ Result("sent") => job'[Current] # "none" \/ Result("error")
  BY <1>1 DEF PostToQueue, Enqueue, IInv, TypeInv, JobStates
<1>4. results' \in Seq({"sent", "error"}) /\ groups' = groups
  BY <1>2, ResultKeeps DEF IInv
<1>5. ResultsTrue'
  <2>1. CASE Result("error")
    BY <1>1, <1>3, <2>1, ErrorKeepsTruth
  <2>2. CASE Result("sent") /\ job'[Current] # "none"
    <3>1. /\ Len(results') = Len(results) + 1
          /\ \A i \in DOMAIN results : results'[i] = results[i]
          /\ DOMAIN results' = DOMAIN results \cup {Len(results) + 1}
      BY <2>2, ResultKeeps DEF IInv
    <3>2. Len(results) \in Nat /\ Len(groups) \in Nat /\ DOMAIN results = 1..Len(results)
      BY DEF IInv, TypeInv
    <3>3. \A i \in DOMAIN results : groups[i] \in Tx
      <4>1. \A i \in 1..Len(groups) : groups[i] \in Queued
        BY DEF IInv, TypeInv
      <4>2. Queued \subseteq Tx
        BY TxAssumption DEF Queued, ToSet
      <4> QED BY <1>1, <3>2, <4>1, <4>2 DEF Running
    <3>4. groups'[Len(results) + 1] = Current
      BY <1>4 DEF Current
    <3> QED BY <1>1, <1>3, <1>4, <2>2, <3>1, <3>2, <3>3, <3>4 DEF IInv, ResultsTrue, Running
  <2> QED BY <1>2, <1>3, <2>1, <2>2
<1> QED BY <1>2, <1>3, <1>4, <1>5, OthersKeep DEF IInv, TypeInv, bitcoin, ckb

LEMMA CallAgainKeeps ==
    ASSUME IInv, CallAgain
    PROVE  IInv'
<1>1. PICK i \in DOMAIN results : groups' = <<groups[i]>>
  BY DEF CallAgain
<1>2. groups[i] \in Queued
  BY DEF IInv, TypeInv, ResultsTrue
<1>3. groups' \in Seq(Queued) /\ Len(groups') = 1
  BY <1>1, <1>2
<1>4. results' = <<>> /\ results' \in Seq({"sent", "error"}) /\ Len(results') = 0
  BY DEF CallAgain
<1>5. ResultsTrue'
  BY <1>3, <1>4 DEF ResultsTrue
<1> QED BY <1>3, <1>4, <1>5, OthersKeep DEF CallAgain, IInv, TypeInv, bitcoin, ckb

\* Steps of the queue that move nothing on CKB.
LEMMA JobKeeps ==
    ASSUME IInv, NEW t \in Tx, JobStart(t) \/ JobDelay(t) \/ JobFail(t) \/ JobRetry(t)
    PROVE  IInv' /\ UNCHANGED <<bitcoin, ckb>>
<1>1. UNCHANGED <<bitcoin, call, ckb, unlock>>
  BY DEF JobStart, JobDelay, JobFail, JobRetry
<1>2. PICK s \in JobStates \ {"none"} : job' = [job EXCEPT ![t] = s]
  BY DEF JobStart, JobDelay, JobFail, JobRetry, JobStates
<1>3. job' \in [Tx -> JobStates] /\ \A u \in Tx : job[u] # "none" => job'[u] # "none"
  BY <1>2 DEF IInv, TypeInv
<1>4. ResultsTrue'
  BY <1>1, <1>3, TruthKept DEF call, IInv
<1>5. TypeInv'
  BY <1>1, <1>3 DEF IInv, TypeInv, bitcoin, call, ckb
<1> QED BY <1>1, <1>4, <1>5, OthersKeep

LEMMA JobCompleteKeeps ==
    ASSUME IInv, NEW t \in Tx, JobComplete(t)
    PROVE  IInv'
<1>1. job' = [job EXCEPT ![t] = "completed"] /\ "completed" \in JobStates \ {"none"}
  BY DEF JobComplete, JobStates
<1>2. job' \in [Tx -> JobStates] /\ \A u \in Tx : job[u] # "none" => job'[u] # "none"
  BY <1>1 DEF IInv, TypeInv
<1> QED BY <1>2, CommittedKeeps DEF JobComplete

\* Steps of the client that only concern its intervals.
LEMMA LocalKeeps ==
    ASSUME IInv, UNCHANGED <<bitcoin, call, job, ckb, unlock>>
    PROVE  IInv'
<1>1. ResultsTrue'
  BY TruthKept DEF call, IInv
<1> QED BY <1>1, OthersKeep DEF IInv, TypeInv, bitcoin, call, ckb

LEMMA SendLocalKeeps ==
    ASSUME IInv, NEW t \in Tx, SendLocal(t)
    PROVE  IInv'
<1>1. Accept(t) \/ Refuse(t)
  BY DEF SendLocal
<1>2. UNCHANGED <<ckb, unlock, call, job>>
  BY DEF SendLocal
<1>3. ResultsTrue' /\ results' \in Seq({"sent", "error"})
  BY <1>2, TruthKept DEF call, IInv, TypeInv
<1> QED BY <1>1, <1>2, <1>3, AcceptedKeeps DEF call

LEMMA SendCkbTxKeeps ==
    ASSUME IInv, NEW t \in Tx, NEW n, SendCkbTx(t, n), UNCHANGED <<bitcoin, call, job, unlock>>
    PROVE  IInv' /\ (Commit(t) \/ UNCHANGED ckb)
<1>1. CASE Commit(t)
  <2>1. job' \in [Tx -> JobStates]
    BY DEF IInv, TypeInv
  <2> QED BY <1>1, <2>1, CommittedKeeps
<1>2. CASE UNCHANGED ckb
  BY <1>2, LocalKeeps
<1> QED BY <1>1, <1>2 DEF SendCkbTx

LEMMA ClientSendKeeps ==
    ASSUME IInv, NEW t \in Tx, Proof(t) \/ IssuerCells(t)
    PROVE  IInv' /\ UNCHANGED bitcoin /\ (Commit(t) \/ UNCHANGED ckb)
<1>1. UNCHANGED <<bitcoin, call, job, unlock>>
  BY DEF Proof, IssuerCells
<1>2. (\E n \in {deps[t], deps'[t]} : SendCkbTx(t, n)) \/ UNCHANGED ckb
  BY DEF Proof, IssuerCells
<1> QED BY <1>1, <1>2, SendCkbTxKeeps, LocalKeeps

\* The release of time cells: all of them are committed leaps.
LEMMA TimeCellKeeps ==
    ASSUME IInv, \/ \E txs \in SUBSET Leap : ListTimeCells(txs)
                 \/ \E t \in Leap : ProveTimeCell(t)
                 \/ TimeCellNotProved \/ SpendTimeCells
    PROVE  IInv' /\ UNCHANGED bitcoin
<1>1. UNCHANGED <<bitcoin, call, job, names>>
  BY DEF ListTimeCells, ProveTimeCell, TimeCellNotProved, SpendTimeCells, ckb
<1>2. /\ unlock' \in [cells : SUBSET Leap, proved : SUBSET Leap]
      /\ unlock'.cells \subseteq Committed /\ unlocked' \subseteq Tx
  <2>1. CASE \E txs \in SUBSET Leap : ListTimeCells(txs)
    BY <2>1 DEF ListTimeCells, TimeCells, IInv, TypeInv, ckb
  <2>2. CASE \E t \in Leap : ProveTimeCell(t)
    <3>1. PICK t \in Leap : ProveTimeCell(t)
      BY <2>2
    <3>2. unlock \in [cells : SUBSET Leap, proved : SUBSET Leap] /\ unlock.proved \cup {t} \in SUBSET Leap
      BY DEF IInv, TypeInv
    <3>3. unlock' = [unlock EXCEPT !.proved = unlock.proved \cup {t}]
      BY <3>1 DEF ProveTimeCell
    <3>4. unlock'.cells = unlock.cells /\ unlock' \in [cells : SUBSET Leap, proved : SUBSET Leap]
      BY <3>2, <3>3
    <3> QED BY <3>1, <3>4 DEF ProveTimeCell, IInv, TypeInv, TimeCellsCommitted, ckb
  <2>3. CASE TimeCellNotProved
    BY <2>3 DEF TimeCellNotProved, Nothing, IInv, TypeInv, ckb
  <2>4. CASE SpendTimeCells
    BY <2>4, TxAssumption DEF SpendTimeCells, Nothing, IInv, TypeInv, ckb
  <2> QED BY <2>1, <2>2, <2>3, <2>4
<1>3. TypeInv'
  BY <1>1, <1>2 DEF IInv, TypeInv, bitcoin, call
<1>4. ResultsTrue'
  BY <1>1, TruthKept DEF call, IInv
<1>5. Chain' = Chain /\ NamesTrue' /\ MovedOnce' /\ Committed' = Committed
  BY <1>1, NamesKept DEF IInv, Chain, bitcoin
<1> QED BY <1>1, <1>2, <1>3, <1>4, <1>5 DEF IInv, bitcoin, NoRivals, TimeCellsCommitted

-----------------------------------------------------------------------------
(* Theorems                                                                *)

LEMMA NextKeeps == IInv /\ [Next]_vars => IInv'
<1> SUFFICES ASSUME IInv, [Next]_vars PROVE IInv'
  OBVIOUS
<1>1. Queued \subseteq Tx /\ Local \subseteq Tx /\ Issuer \subseteq Tx
  BY TxAssumption DEF Queued, Local, ToSet
<1>2. CASE \E txs \in SUBSET Tx : Mine(txs)
  BY <1>2, MineKeeps
<1>3. CASE \E blocks \in 1..MaxReorg : Reorg(blocks)
  BY <1>3, ReorgKeeps
<1>4. CASE Broadcast \/ PostToQueue \/ CallAgain
  BY <1>4, BroadcastKeeps, PostKeeps, CallAgainKeeps
<1>5. CASE \E t \in Queued : JobStart(t) \/ JobDelay(t) \/ JobComplete(t) \/ JobFail(t) \/ JobRetry(t)
  BY <1>1, <1>5, JobKeeps, JobCompleteKeeps
<1>6. CASE \E t \in Local : SendLocal(t) \/ Tick(t) \/ NoProof(t) \/ Proof(t)
  BY <1>1, <1>6, SendLocalKeeps, LocalKeeps, ClientSendKeeps DEF Tick, NoProof
<1>7. CASE \E t \in Issuer : IssuerCells(t)
  BY <1>1, <1>7, ClientSendKeeps
<1>8. CASE \/ \E txs \in SUBSET Leap : ListTimeCells(txs)
           \/ \E t \in Leap : ProveTimeCell(t)
           \/ TimeCellNotProved \/ SpendTimeCells
  BY <1>8, TimeCellKeeps
<1>9. CASE UNCHANGED vars
  BY <1>9, LocalKeeps DEF vars
<1> QED BY <1>2, <1>3, <1>4, <1>5, <1>6, <1>7, <1>8, <1>9 DEF Next

\* A commit, or a step of Bitcoin, or nothing: for steps that take no final block away.
LEMMA StepMaps ==
    ASSUME IInv, IInv', UNCHANGED <<depth, reorged>>,
           UNCHANGED ckb \/ \E t \in Tx : Commit(t)
    PROVE  Binding!Next
<1>1. CASE UNCHANGED ckb
  BY <1>1, BitcoinStep DEF Binding!Next, IInv, Final
<1>2. CASE \E t \in Tx : Commit(t)
  BY <1>2, CommitFollows DEF Binding!Next
<1> QED BY <1>1, <1>2

\* The time cells that a transaction spends are free from then on; none of their
\* Bitcoin transactions can be taken back.
LEMMA ReleaseMaps ==
    ASSUME IInv, SpendTimeCells, ~UNCHANGED ckb
    PROVE  Binding!Release(unlock.cells)
<1>1. /\ \A t \in unlock.cells : depth[t] >= After(t)
      /\ unlocked' = unlocked \cup unlock.cells /\ UNCHANGED <<names, bitcoin>>
  BY DEF SpendTimeCells
<1>2. unlock.cells \subseteq Leap /\ unlock.cells \subseteq Committed
  BY DEF IInv, TypeInv, TimeCellsCommitted
<1>3. \A t \in Leap : After(t) \in Nat /\ After(t) > MaxReorg
  BY TxAssumption, FinalityAssumption DEF After, Range
<1>4. unlock.cells \subseteq Final
  BY <1>1, <1>2, <1>3, TxAssumption DEF Final, IInv, TypeInv
<1>5. \A t \in unlock.cells : Owner[AssetOf[t]] = t
  BY <1>2, OwnerOf DEF IInv
<1>6. Free' = Free \cup {AssetOf[t] : t \in unlock.cells}
  BY <1>1 DEF Free
<1>7. Chain' = Chain /\ Final' = Final /\ Owner' = Owner
  BY <1>1, OwnerKept DEF Chain, Final, bitcoin
<1> QED BY <1>2, <1>4, <1>5, <1>6, <1>7 DEF Binding!Release

LEMMA NextMaps == IInv /\ IInv' /\ [Next]_vars => [Binding!Next]_(Binding!absVars)
<1> SUFFICES ASSUME IInv, IInv', [Next]_vars PROVE [Binding!Next]_(Binding!absVars)
  OBVIOUS
<1>1. Queued \subseteq Tx /\ Local \subseteq Tx /\ Issuer \subseteq Tx
  BY TxAssumption DEF Queued, Local, ToSet
<1>2. CASE \/ \E txs \in SUBSET Tx : Mine(txs)
           \/ \E blocks \in 1..MaxReorg : Reorg(blocks)
  <2>1. Final \subseteq Final' /\ UNCHANGED ckb
    BY <1>2, MineKeeps, ReorgKeeps DEF Mine, Reorg
  <2> QED BY <2>1, BitcoinStep DEF IInv, Binding!Next
<1>3. CASE Broadcast \/ PostToQueue \/ CallAgain
  <2>1. UNCHANGED <<depth, reorged>> /\ UNCHANGED ckb
    BY <1>3 DEF Broadcast, PostToQueue, CallAgain, Accept, Refuse, bitcoin
  <2> QED BY <2>1, StepMaps
<1>4. CASE \E t \in Queued : JobStart(t) \/ JobDelay(t) \/ JobComplete(t) \/ JobFail(t) \/ JobRetry(t)
  <2>1. UNCHANGED <<depth, reorged>> /\ (UNCHANGED ckb \/ \E t \in Tx : Commit(t))
    BY <1>1, <1>4 DEF JobStart, JobDelay, JobComplete, JobFail, JobRetry, bitcoin
  <2> QED BY <2>1, StepMaps
<1>5. CASE \E t \in Local : SendLocal(t) \/ Tick(t) \/ NoProof(t)
  <2>1. UNCHANGED <<depth, reorged>> /\ UNCHANGED ckb
    BY <1>5 DEF SendLocal, Tick, NoProof, Accept, Refuse, bitcoin
  <2> QED BY <2>1, StepMaps
<1>6. CASE (\E t \in Local : Proof(t)) \/ \E t \in Issuer : IssuerCells(t)
  <2>1. UNCHANGED <<depth, reorged>> /\ (UNCHANGED ckb \/ \E t \in Tx : Commit(t))
    BY <1>1, <1>6, ClientSendKeeps DEF bitcoin
  <2> QED BY <2>1, StepMaps
<1>7. CASE \/ \E txs \in SUBSET Leap : ListTimeCells(txs)
           \/ \E t \in Leap : ProveTimeCell(t)
           \/ TimeCellNotProved \/ SpendTimeCells
  <2>1. UNCHANGED <<depth, reorged>>
    BY <1>7, TimeCellKeeps DEF bitcoin
  <2>2. CASE UNCHANGED ckb
    BY <2>1, <2>2, StepMaps
  <2>3. CASE ~UNCHANGED ckb
    <3>1. SpendTimeCells
      BY <1>7, <2>3 DEF ListTimeCells, ProveTimeCell, TimeCellNotProved
    <3>2. unlock.cells \in SUBSET Leap
      BY DEF IInv, TypeInv
    <3> QED BY <2>3, <3>1, <3>2, ReleaseMaps DEF Binding!Next
  <2> QED BY <2>2, <2>3
<1>8. CASE UNCHANGED vars
  BY <1>8, StepMaps DEF vars, bitcoin, ckb
<1> QED BY <1>2, <1>3, <1>4, <1>5, <1>6, <1>7, <1>8 DEF Next

LEMMA InitMaps == Init => Binding!Init
<1> SUFFICES ASSUME Init PROVE Binding!Init
  OBVIOUS
<1>1. Chain = {} /\ Final = {} /\ Committed = {} /\ Free = {}
  BY TxAssumption DEF Init, Chain, Final, Committed, Free
<1>2. Moved = {}
  BY <1>1 DEF Moved
<1> QED BY <1>1, <1>2 DEF Binding!Init, Owner

\* The invariant holds in every behaviour.
THEOREM InvariantHolds == Spec => []IInv
<1> QED BY InitHolds, NextKeeps, PTL DEF Spec

\* Whatever the queue, the clients, Bitcoin and the requests do, CKB follows Bitcoin: the
\* detailed specification implements the abstract one.
THEOREM CkbFollowsBitcoin == Spec => ImplementsBinding
<1>1. Init => Binding!Init
  BY InitMaps
<1>2. IInv /\ IInv' /\ [Next]_vars => [Binding!Next]_(Binding!absVars)
  BY NextMaps
<1> QED BY <1>1, <1>2, InvariantHolds, PTL DEF Spec, ImplementsBinding, Binding!Spec

\* sendRgbppTxGroups reports "sent" only for what the queue has taken over.
THEOREM ResultsTold == Spec => []ResultsTrue
<1>1. IInv => ResultsTrue
  BY DEF IInv
<1> QED BY <1>1, InvariantHolds, PTL

-----------------------------------------------------------------------------
(* Clients that complete a transaction themselves                          *)

LocalTypes ==
    /\ timer \in [Tx -> {"unset", "on", "off"}]
    /\ asking \in [Tx -> Nat] /\ paying \in [Tx -> Nat] /\ deps \in [Tx -> Nat]

\* What a client knows of t: Bitcoin gets t from it only; an interval is cleared for a
\* reason; the first proof in hand sends t, for an issuer's transaction one await later.
ClientOf(t) ==
    /\ timer[t] = "unset" => t \notin mempool \cup Chain /\ asking[t] = 0
    /\ timer[t] # "off" => deps[t] = 0 /\ paying[t] = 0
    /\ timer[t] = "off" => t \in hit \/ t \notin mempool \cup Chain \/ deps[t] > 0
    /\ deps[t] > 0 => t \in Chain \/ reorged
    /\ deps[t] > 0 /\ t \notin Issuer => t \in Committed \/ ~CellLive(t) \/ t \in hit
    /\ deps[t] = 1 /\ t \in Issuer =>
        paying[t] > 0 \/ t \in Committed \/ ~CellLive(t) \/ t \in hit \/ reorged

LInv == LocalTypes /\ \A t \in Local : ClientOf(t)

\* What no step takes back.
Onward ==
    /\ hit \subseteq hit' /\ Committed \subseteq Committed'
    /\ reorged => reorged'
    /\ Chain \subseteq Chain' \/ reorged'

\* Nothing but its own client brings t to Bitcoin.
Quiet(t) == t \in mempool' \cup Chain' => t \in mempool \cup Chain

LEMMA CommitGrows ==
    ASSUME IInv, NEW t \in Tx, Commit(t) \/ UNCHANGED ckb, UNCHANGED bitcoin, hit \subseteq hit'
    PROVE  Onward
<1>1. Chain' = Chain /\ reorged' = reorged
  BY DEF bitcoin, Chain
<1>2. Committed \subseteq Committed'
  BY <1>1, CommitKeeps, NamesKept DEF IInv, ckb, bitcoin
<1> QED BY <1>1, <1>2 DEF Onward

LEMMA StillGrows ==
    ASSUME UNCHANGED <<depth, reorged, names>>, hit \subseteq hit'
    PROVE  Onward
BY DEF Onward, Chain, Committed

\* A step that leaves the interval of t and its callbacks alone.
LEMMA ElsewhereKeeps ==
    ASSUME NEW t \in Local, ClientOf(t), Onward, Quiet(t), timer'[t] = timer[t],
           asking'[t] = asking[t], paying'[t] = paying[t], deps'[t] = deps[t]
    PROVE  ClientOf(t)'
<1>1. CellLive(t)' => CellLive(t)
  BY DEF CellLive, Onward
<1> QED BY <1>1 DEF ClientOf, Onward, Quiet

\* Bitcoin, the queue and the time cells.
LEMMA OthersLeaveClients ==
    ASSUME LInv, Onward, UNCHANGED local, \A t \in Local : Quiet(t)
    PROVE  LInv'
<1>1. LocalTypes'
  BY DEF LInv, LocalTypes, local
<1>2. \A t \in Local : ClientOf(t)'
  BY ElsewhereKeeps DEF LInv, local
<1> QED BY <1>1, <1>2 DEF LInv

\* One client acts, the others are left alone.
LEMMA OneClient ==
    ASSUME LInv, LocalTypes', Onward, NEW t \in Local, ClientOf(t)',
           \A u \in Local \ {t} :
              /\ Quiet(u) /\ timer'[u] = timer[u] /\ asking'[u] = asking[u]
              /\ paying'[u] = paying[u] /\ deps'[u] = deps[u]
    PROVE  LInv'
<1>1. \A u \in Local \ {t} : ClientOf(u)'
  BY ElsewhereKeeps DEF LInv
<1> QED BY <1>1 DEF LInv

LEMMA SendLocalLeaves ==
    ASSUME IInv, LInv, NEW t \in Local, SendLocal(t)
    PROVE  LInv'
<1> USE DEF LInv, LocalTypes
<1>1. t \in Tx /\ Local \subseteq Tx
  BY DEF Local
<1>2. /\ UNCHANGED <<asking, paying, deps, names, depth, reorged>> /\ hit \subseteq hit'
      /\ \E s \in {"on", "off"} : timer' = [timer EXCEPT ![t] = s]
  BY DEF SendLocal, Accept, Refuse, bitcoin, ckb, Fails
<1>3. Onward /\ Chain' = Chain
  BY <1>2, StillGrows DEF Chain
<1>4. LocalTypes' /\ \A u \in Local \ {t} : timer'[u] = timer[u]
  BY <1>1, <1>2
<1>5. \A u \in Local \ {t} : Quiet(u)
  BY <1>3 DEF SendLocal, Accept, Refuse, bitcoin, Quiet
<1>6. ClientOf(t)'
  <2>1. timer[t] = "unset" /\ t \notin mempool \cup Chain /\ deps[t] = 0 /\ paying[t] = 0
    BY DEF SendLocal, ClientOf
  <2>2. timer'[t] \in {"on", "off"}
    BY <1>1, <1>2
  <2>3. timer'[t] = "off" => t \in hit' \/ t \notin mempool' \cup Chain'
    <3>1. CASE Refuse(t)
      BY <1>3, <2>1, <3>1 DEF Refuse, bitcoin
    <3>2. CASE Fails(t)
      BY <3>2 DEF Fails
    <3>3. CASE timer' = [timer EXCEPT ![t] = "on"]
      BY <1>1, <3>3
    <3> QED BY <3>1, <3>2, <3>3 DEF SendLocal
  <2> QED BY <1>2, <2>1, <2>2, <2>3 DEF ClientOf
<1> QED BY <1>2, <1>3, <1>4, <1>5, <1>6, OneClient

\* Bitcoin stays as it is while a callback runs.
LEMMA CallbackQuiet ==
    ASSUME UNCHANGED bitcoin
    PROVE  \A u \in Local : Quiet(u)
BY DEF bitcoin, Quiet, Chain

LEMMA TickLeaves ==
    ASSUME LInv, NEW t \in Local, Tick(t) \/ NoProof(t)
    PROVE  LInv'
<1> USE DEF LInv, LocalTypes
<1>1. t \in Tx /\ Local \subseteq Tx
  BY DEF Local
<1>2. /\ UNCHANGED <<timer, paying, deps, ckb, hit, bitcoin>>
      /\ \E n \in Nat : asking' = [asking EXCEPT ![t] = n]
  BY <1>1 DEF Tick, NoProof
<1>3. Onward /\ \A u \in Local : Quiet(u)
  BY <1>2, StillGrows, CallbackQuiet DEF bitcoin, ckb
<1>4. LocalTypes' /\ \A u \in Local \ {t} : asking'[u] = asking[u]
  BY <1>1, <1>2
<1>5. ClientOf(t)'
  <2>1. timer[t] # "unset"
    BY DEF Tick, NoProof, ClientOf
  <2>2. Chain' = Chain /\ Committed' = Committed /\ CellLive(t)' = CellLive(t)
    BY <1>2 DEF bitcoin, ckb, Chain, Committed, CellLive
  <2> QED BY <1>2, <2>1, <2>2 DEF ClientOf, bitcoin
<1> QED BY <1>2, <1>3, <1>4, <1>5, OneClient

\* The first cell dep is the only one: the transaction gets through, its cell is gone, the
\* request fails, or Bitcoin has dropped the transaction.
LEMMA SendCkbTxEnds ==
    ASSUME IInv, NEW t \in Tx, NEW n, SendCkbTx(t, n), UNCHANGED <<depth, reorged>>
    PROVE  n # 1 \/ t \in Committed' \/ ~CellLive(t)' \/ t \in hit' \/ t \notin Chain
<1>1. CASE Commit(t)
  BY <1>1, CommitKeeps
<1>2. CASE (n # 1 \/ t \notin Chain \/ ~CellLive(t)) /\ UNCHANGED ckb
  BY <1>2 DEF CellLive, Committed, ckb
<1>3. CASE Fails(t)
  BY <1>3 DEF Fails
<1> QED BY <1>1, <1>2, <1>3 DEF SendCkbTx

LEMMA ProofLeaves ==
    ASSUME IInv, LInv, NEW t \in Local, Proof(t)
    PROVE  LInv'
<1> USE DEF LInv, LocalTypes
<1>1. t \in Tx /\ Local \subseteq Tx
  BY DEF Local
<1>2. /\ asking[t] > 0 /\ t \in Chain /\ UNCHANGED bitcoin
      /\ asking' = [asking EXCEPT ![t] = asking[t] - 1]
      /\ timer' = [timer EXCEPT ![t] = "off"]
      /\ deps' = [deps EXCEPT ![t] = deps[t] + 1]
      /\ IF t \in Issuer
         THEN paying' = [paying EXCEPT ![t] = paying[t] + 1] /\ UNCHANGED <<ckb, hit>>
         ELSE SendCkbTx(t, deps'[t]) /\ UNCHANGED paying
  BY DEF Proof
<1>3. hit \subseteq hit'
  BY <1>2 DEF SendCkbTx, Fails
<1>4. Onward /\ \A u \in Local : Quiet(u)
  <2>1. Commit(t) \/ UNCHANGED ckb
    BY <1>1, ClientSendKeeps
  <2> QED BY <1>1, <1>2, <1>3, <2>1, CommitGrows, CallbackQuiet
<1>5. /\ LocalTypes'
      /\ \A u \in Local \ {t} : /\ timer'[u] = timer[u] /\ asking'[u] = asking[u]
                                /\ paying'[u] = paying[u] /\ deps'[u] = deps[u]
  BY <1>1, <1>2
<1>6. /\ timer'[t] = "off" /\ deps'[t] = deps[t] + 1 /\ deps[t] \in Nat /\ t \in Chain'
      /\ t \in Issuer => paying'[t] > 0
  BY <1>1, <1>2 DEF bitcoin, Chain
<1>7. ClientOf(t)'
  <2>1. t \notin Issuer => t \in Committed' \/ ~CellLive(t)' \/ t \in hit'
    <3>1. CASE deps[t] = 0
      <4>1. t \notin Issuer => SendCkbTx(t, 1)
        BY <1>2, <1>6, <3>1
      <4> QED BY <1>1, <1>2, <4>1, SendCkbTxEnds DEF bitcoin
    <3>2. CASE deps[t] > 0
      <4>1. t \notin Issuer => t \in Committed \/ ~CellLive(t) \/ t \in hit
        BY <3>2 DEF ClientOf
      <4> QED BY <1>4, <4>1 DEF Onward, CellLive
    <3> QED BY <1>6, <3>1, <3>2
  <2> QED BY <1>6, <2>1 DEF ClientOf
<1> QED BY <1>4, <1>5, <1>7, OneClient

LEMMA IssuerCellsLeaves ==
    ASSUME IInv, LInv, NEW t \in Issuer, IssuerCells(t)
    PROVE  LInv'
<1> USE DEF LInv, LocalTypes
<1>1. t \in Tx /\ t \in Local /\ Local \subseteq Tx
  BY TxAssumption DEF Local
<1>2. /\ paying[t] > 0 /\ paying' = [paying EXCEPT ![t] = paying[t] - 1]
      /\ SendCkbTx(t, deps[t]) /\ UNCHANGED <<bitcoin, timer, asking, deps>>
  BY DEF IssuerCells
<1>3. hit \subseteq hit'
  BY <1>2 DEF SendCkbTx, Fails
<1>4. Onward /\ \A u \in Local : Quiet(u)
  <2>1. Commit(t) \/ UNCHANGED ckb
    BY <1>1, ClientSendKeeps
  <2> QED BY <1>1, <1>2, <1>3, <2>1, CommitGrows, CallbackQuiet
<1>5. LocalTypes' /\ \A u \in Local \ {t} : paying'[u] = paying[u]
  BY <1>1, <1>2
<1>6. timer[t] = "off" /\ deps[t] \in Nat /\ ClientOf(t)
  BY <1>1, <1>2 DEF ClientOf
<1>7. ClientOf(t)'
  <2>1. deps[t] = 1 => t \in Committed' \/ ~CellLive(t)' \/ t \in hit' \/ reorged
    <3>1. deps[t] # 1 \/ t \in Committed' \/ ~CellLive(t)' \/ t \in hit' \/ t \notin Chain
      BY <1>1, <1>2, SendCkbTxEnds DEF bitcoin
    <3> QED BY <1>6, <3>1 DEF ClientOf
  <2>2. Chain' = Chain /\ mempool' = mempool /\ reorged' = reorged
    BY <1>2 DEF bitcoin, Chain
  <2> QED BY <1>2, <1>3, <1>6, <2>1, <2>2 DEF ClientOf
<1> QED BY <1>1, <1>2, <1>4, <1>5, <1>7, OneClient

LEMMA ClientsInit == Init => LInv
BY DEF Init, LInv, LocalTypes, ClientOf, Chain, Local

LEMMA ClientsNext == IInv /\ LInv /\ [Next]_vars => LInv'
<1> SUFFICES ASSUME IInv, LInv, [Next]_vars PROVE LInv'
  OBVIOUS
<1>1. Queued \subseteq Tx /\ Queued \cap Local = {}
  BY TxAssumption DEF Queued, Local, ToSet
<1>2. CASE \E txs \in SUBSET Tx : Mine(txs)
  <2>1. UNCHANGED <<local, hit, names, reorged>>
    BY <1>2 DEF Mine, ckb
  <2>2. /\ Chain \subseteq Chain' /\ mempool' \cup Chain' \subseteq mempool \cup Chain
    BY <1>2, TxAssumption DEF Mine, Chain, IInv, TypeInv
  <2>3. Onward /\ \A t \in Local : Quiet(t)
    BY <2>1, <2>2 DEF Onward, Committed, Quiet
  <2> QED BY <2>1, <2>3, OthersLeaveClients
<1>3. CASE \E blocks \in 1..MaxReorg : Reorg(blocks)
  <2>1. UNCHANGED <<local, hit, names>> /\ reorged'
    BY <1>3 DEF Reorg, ckb
  <2>2. mempool' \cup Chain' \subseteq mempool \cup Chain
    BY <1>3, TxAssumption DEF Reorg, Chain, IInv, TypeInv
  <2>3. Onward /\ \A t \in Local : Quiet(t)
    BY <2>1, <2>2 DEF Onward, Committed, Quiet
  <2> QED BY <2>1, <2>3, OthersLeaveClients
<1>4. CASE Broadcast \/ PostToQueue \/ CallAgain
  <2>1. UNCHANGED <<local, names, depth, reorged>> /\ hit \subseteq hit'
    BY <1>4 DEF Broadcast, PostToQueue, CallAgain, Accept, Refuse, bitcoin, ckb, Fails
  <2>2. mempool' \subseteq mempool \cup Queued
    BY <1>4, CurrentQueued DEF Broadcast, PostToQueue, CallAgain, Accept, Refuse, bitcoin, IInv
  <2>3. Onward /\ \A t \in Local : Quiet(t)
    BY <1>1, <2>1, <2>2, StillGrows DEF Quiet, Chain
  <2> QED BY <2>1, <2>3, OthersLeaveClients
<1>5. CASE \E t \in Queued : JobStart(t) \/ JobDelay(t) \/ JobComplete(t) \/ JobFail(t) \/ JobRetry(t)
  <2>1. PICK t \in Tx : Commit(t) \/ UNCHANGED ckb
    BY <1>1, <1>5 DEF JobStart, JobDelay, JobComplete, JobFail, JobRetry
  <2>2. UNCHANGED <<local, bitcoin>> /\ hit \subseteq hit'
    BY <1>5 DEF JobStart, JobDelay, JobComplete, JobFail, JobRetry, Fails
  <2> QED BY <2>1, <2>2, CommitGrows, CallbackQuiet, OthersLeaveClients
<1>6. CASE \E t \in Local : SendLocal(t) \/ Tick(t) \/ NoProof(t) \/ Proof(t)
  BY <1>6, SendLocalLeaves, TickLeaves, ProofLeaves
<1>7. CASE \E t \in Issuer : IssuerCells(t)
  BY <1>7, IssuerCellsLeaves
<1>8. CASE \/ \E txs \in SUBSET Leap : ListTimeCells(txs)
           \/ \E t \in Leap : ProveTimeCell(t)
           \/ TimeCellNotProved \/ SpendTimeCells
  <2>1. UNCHANGED <<bitcoin, local, names, hit>>
    BY <1>8 DEF ListTimeCells, ProveTimeCell, TimeCellNotProved, SpendTimeCells, ckb
  <2> QED BY <2>1, StillGrows, CallbackQuiet, OthersLeaveClients DEF bitcoin
<1>9. CASE UNCHANGED vars
  BY <1>9, StillGrows, CallbackQuiet, OthersLeaveClients DEF vars, bitcoin, ckb
<1> QED BY <1>2, <1>3, <1>4, <1>5, <1>6, <1>7, <1>8, <1>9 DEF Next

\* Whatever fails, is mined late, dropped or moved by a rival: a client that completes a
\* transaction itself gives it up only for the reasons that NothingAbandoned names.
THEOREM ClientsKeepAsking == Spec => []NothingAbandoned
<1>1. LInv => NothingAbandoned
  <2> SUFFICES ASSUME LInv, NEW t \in Local, timer[t] = "off", paying[t] = 0,
                      t \in Chain \ Committed, CellLive(t), t \notin hit
               PROVE  t \in Issuer /\ (deps[t] > 1 \/ reorged)
    BY DEF NothingAbandoned
  <2>1. ClientOf(t) /\ deps[t] \in Nat /\ t \in mempool \cup Chain
    BY DEF LInv, LocalTypes, Local
  <2>2. deps[t] > 0
    BY <2>1 DEF ClientOf
  <2>3. t \in Issuer
    BY <2>1, <2>2 DEF ClientOf
  <2>4. deps[t] = 1 => reorged
    BY <2>1, <2>3 DEF ClientOf
  <2> QED BY <2>1, <2>2, <2>3, <2>4
<1>2. Spec => []LInv
  BY ClientsInit, ClientsNext, InvariantHolds, PTL DEF Spec
<1> QED BY <1>1, <1>2, PTL
=============================================================================
