--------------------------- MODULE RgbppLifecycle ---------------------------
(***************************************************************************)
(* The life of RGB++ transactions after they are built: broadcast on       *)
(* Bitcoin, completion on CKB by the queue or by the client itself, and    *)
(* the BTC time cell of a leap to CKB.                                     *)
(*                                                                         *)
(*   sendRgbppTxGroups   broadcasts the groups one after the other and     *)
(*                       hands each to the queue;                          *)
(*   the local examples  broadcast, poll for a proof every 30 seconds,     *)
(*                       complete and send the CKB transaction themselves; *)
(*   buildBtcTimeCellsSpentTx  releases time cells whose transactions      *)
(*                       Bitcoin has buried deep enough.                   *)
(*                                                                         *)
(* Requests fail, answers get lost, a callback of the interval starts      *)
(* before the last has ended, rival transactions spend the same UTXO, and  *)
(* Bitcoin drops its latest blocks once.  Bitcoin, the queue and the CKB   *)
(* scripts are not in this repository; they do what the code expects.      *)
(***************************************************************************)
EXTENDS Naturals, Sequences, FiniteSets, SequencesExt, Functions

CONSTANTS
    Tx,              \* pairs of a Bitcoin and a virtual CKB transaction, all built
    Asset, AssetOf,  \* the asset whose UTXO and cell a transaction spends
    LocksOf,         \* kinds of the locks of a transaction's outputs on CKB
    Leap,            \* those that leap to CKB
    Groups,          \* txGroups of the first call of sendRgbppTxGroups
    Issuer,          \* transactions completed with an issuer's cells
    BtcConfirmationBlocks,  \* the option of that name, where it is given
    DefaultConfirmations,   \* BTC_JUMP_CONFIRMATION_BLOCKS
    MaxReorg,        \* how many blocks Bitcoin may drop
    MaxDepth,        \* confirmations are counted up to here
    MaxCalls,        \* calls of sendRgbppTxGroups
    MaxCallbacks,    \* callbacks of one interval that run at the same time
    MaxHit           \* transactions whose requests fail or stay without an answer

Queued == ToSet(Groups)
Local == Tx \ Queued
JobStates == {"none", "waiting", "delayed", "active", "completed", "failed"}
Nothing == [cells |-> {}, proved |-> {}]

isRgbppLockOrBtcTimeLock(lock) == lock \in {"rgbpp", "btcTime"}

\* The outputs of a transaction with a lock of these two kinds, and the BTC time cells
Bound(t) == {i \in DOMAIN LocksOf[t] : isRgbppLockOrBtcTimeLock(LocksOf[t][i])}
TimeOutputs(t) == {i \in DOMAIN LocksOf[t] : LocksOf[t][i] = "btcTime"}

ASSUME TxAssumption ==
    /\ AssetOf \in [Tx -> Asset] /\ Leap \subseteq Tx /\ Issuer \subseteq Local
    /\ Groups \in Seq(Tx) /\ IsInjective(Groups)
    /\ LocksOf \in [Tx -> Seq({"rgbpp", "btcTime", "other"})]
    /\ \A t \in Tx : Bound(t) # {} /\ (t \in Leap <=> TimeOutputs(t) # {})
    /\ {"none", "nobody", "origin", "placeholder"} \cap Tx = {}
    /\ {MaxReorg, MaxDepth, MaxCalls, MaxCallbacks, MaxHit} \subseteq Nat

\* Who leaps waits for more blocks than Bitcoin drops.
ASSUME FinalityAssumption ==
    /\ DOMAIN BtcConfirmationBlocks \subseteq Leap
    /\ \A n \in Range(BtcConfirmationBlocks) \cup {DefaultConfirmations} :
        n \in Nat /\ MaxReorg < n /\ n <= MaxDepth

\* [bug] the number of confirmations is not passed on.
AfterOne(t) == 1

\* "after" in the lock args of the time cell.
After(t) ==
    IF t \in DOMAIN BtcConfirmationBlocks THEN BtcConfirmationBlocks[t] ELSE DefaultConfirmations

VARIABLES
    mempool, depth,     \* Bitcoin: waiting transactions; confirmations of the others
    reorged,            \* Bitcoin has dropped blocks
    groups, results, posting, calls,   \* sendRgbppTxGroups, and how often it was called
    job,                \* the queue
    timer, asking, paying, deps,       \* intervals, their callbacks, the SPV cell deps of
                                       \* the one ckbRawTx that the callbacks share
    names,              \* CKB: what the lock args of each output of a committed transaction
                        \* name; empty if it is not committed
    unlocked,           \* leaps whose time cell is spent
    unlock,             \* buildBtcTimeCellsSpentTx
    hit                 \* transactions for which a request failed

bitcoin == <<mempool, depth, reorged>>
call    == <<groups, results, posting, calls>>
local   == <<timer, asking, paying, deps>>
ckb     == <<names, unlocked>>
vars    == <<bitcoin, call, job, local, ckb, unlock, hit>>

\* A request for t fails, or its answer is lost.
Fails(t) == Cardinality(hit \cup {t}) <= MaxHit /\ hit' = hit \cup {t}

Chain == {t \in Tx : depth[t] > 0}
Rivals(t) == {u \in Tx \ {t} : AssetOf[u] = AssetOf[t]}
Committed == {t \in Tx : names[t] # <<>>}
CellLive(t) == \A u \in Committed : AssetOf[u] # AssetOf[t]

Init ==
    /\ mempool = {} /\ depth = [t \in Tx |-> 0] /\ reorged = FALSE
    /\ groups = Groups /\ results = <<>> /\ posting = FALSE /\ calls = 1
    /\ job = [t \in Tx |-> "none"]
    /\ timer = [t \in Tx |-> "unset"]
    /\ asking = [t \in Tx |-> 0] /\ paying = [t \in Tx |-> 0] /\ deps = [t \in Tx |-> 0]
    /\ names = [t \in Tx |-> <<>>] /\ unlocked = {} /\ unlock = Nothing
    /\ hit = {}

-----------------------------------------------------------------------------
(* Bitcoin *)

\* A transaction whose UTXO is spent in the chain is refused; one whose UTXO is spent in
\* the mempool may replace the other; a known one is answered with its id.
Accept(t) ==
    /\ Rivals(t) \cap Chain = {}
    /\ mempool' = IF t \in Chain THEN mempool ELSE (mempool \ Rivals(t)) \cup {t}
    /\ UNCHANGED <<depth, reorged>>

Refuse(t) ==
    /\ ({t} \cup Rivals(t)) \cap (mempool \cup Chain) # {}
    /\ UNCHANGED bitcoin

Mine(txs) ==
    /\ txs \subseteq mempool
    /\ mempool' = mempool \ txs
    /\ depth' = [t \in Tx |-> IF t \in txs \/ depth[t] \in 1..(MaxDepth - 1)
                              THEN depth[t] + 1 ELSE depth[t]]
    /\ UNCHANGED <<reorged, call, job, local, ckb, unlock, hit>>

Reorg(blocks) ==
    /\ ~reorged /\ reorged' = TRUE
    /\ mempool' = mempool \cup {t \in Chain : depth[t] <= blocks}
    /\ depth' = [t \in Tx |-> IF depth[t] <= blocks THEN 0 ELSE depth[t]]
    /\ UNCHANGED <<call, job, local, ckb, unlock, hit>>

-----------------------------------------------------------------------------
(* sendRgbppTxGroups *)

Current == groups[Len(results) + 1]
Running == Len(results) < Len(groups)
Result(r) == results' = Append(results, r) /\ UNCHANGED <<groups, calls>>

Broadcast ==
    /\ Running /\ ~posting
    /\ \/ /\ Accept(Current) /\ posting' = TRUE
          /\ UNCHANGED <<groups, results, calls, hit>>
       \/ /\ Accept(Current) /\ Fails(Current)     \* the answer is lost
          /\ Result("error") /\ UNCHANGED posting
       \/ Refuse(Current) /\ Result("error") /\ UNCHANGED <<posting, hit>>
    /\ UNCHANGED <<job, local, ckb, unlock>>

Enqueue(t) == job' = [job EXCEPT ![t] = IF @ = "none" THEN "waiting" ELSE @]

\* [bug] the post is not awaited.
PostToQueueUnawaited ==
    /\ Running /\ posting /\ posting' = FALSE
    /\ \/ Enqueue(Current) /\ UNCHANGED hit
       \/ UNCHANGED job /\ Fails(Current)
    /\ Result("sent")
    /\ UNCHANGED <<bitcoin, local, ckb, unlock>>

PostToQueue ==
    /\ Running /\ posting /\ posting' = FALSE
    /\ \/ Enqueue(Current) /\ Result("sent") /\ UNCHANGED hit
       \/ Enqueue(Current) /\ Result("error") /\ Fails(Current)
       \/ UNCHANGED job /\ Result("error") /\ Fails(Current)
    /\ UNCHANGED <<bitcoin, local, ckb, unlock>>

\* The caller tries a group again that failed.
CallAgain ==
    /\ ~Running /\ calls < MaxCalls /\ calls' = calls + 1
    /\ \E i \in DOMAIN results : results[i] = "error" /\ groups' = <<groups[i]>>
    /\ results' = <<>>
    /\ UNCHANGED <<bitcoin, posting, job, local, ckb, unlock, hit>>

-----------------------------------------------------------------------------
(* The queue *)

JobStart(t) ==
    /\ job[t] \in {"waiting", "delayed"}
    /\ job' = [job EXCEPT ![t] = "active"]
    /\ UNCHANGED <<bitcoin, call, local, ckb, unlock, hit>>

JobDelay(t) ==
    /\ job[t] = "active" /\ t \in mempool
    /\ job' = [job EXCEPT ![t] = "delayed"]
    /\ UNCHANGED <<bitcoin, call, local, ckb, unlock, hit>>

\* [bug] only RGB++ locks get the id.
WithRealBtcTxIdOfRgbpp(t) ==
    [i \in DOMAIN LocksOf[t] |-> IF LocksOf[t][i] = "rgbpp" THEN t
                                 ELSE IF i \in Bound(t) THEN "placeholder" ELSE "none"]

\* updateCkbTxWithRealBtcTxId: outputs with an RGB++ or a BTC time lock are built with the
\* placeholder in their lock args and get the real id; the others name nothing.
WithRealBtcTxId(t) ==
    [i \in DOMAIN LocksOf[t] |->
        IF isRgbppLockOrBtcTimeLock(LocksOf[t][i]) THEN t ELSE "none"]

Commit(t) ==
    /\ t \in Chain /\ CellLive(t)            \* what the locks verify
    /\ names' = [names EXCEPT ![t] = WithRealBtcTxId(t)]
    /\ UNCHANGED unlocked

JobComplete(t) ==
    /\ job[t] = "active" /\ Commit(t)
    /\ job' = [job EXCEPT ![t] = "completed"]
    /\ UNCHANGED <<bitcoin, call, local, unlock, hit>>

\* The transaction is gone, its cell is spent, or something fails.
JobFail(t) ==
    /\ job[t] = "active" /\ job' = [job EXCEPT ![t] = "failed"]
    /\ \/ (t \notin mempool \cup Chain \/ ~CellLive(t)) /\ UNCHANGED hit
       \/ Fails(t)
    /\ UNCHANGED <<bitcoin, call, local, ckb, unlock>>

\* retryRgbppCkbTransaction
JobRetry(t) ==
    /\ job[t] = "failed" /\ job' = [job EXCEPT ![t] = "waiting"]
    /\ UNCHANGED <<bitcoin, call, local, ckb, unlock, hit>>

-----------------------------------------------------------------------------
(* Completion by the client: setInterval, 30 seconds *)

\* signAndSendPsbt; without an answer the program ends.
SendLocal(t) ==
    /\ timer[t] = "unset" /\ t \in Local
    /\ \/ Accept(t) /\ timer' = [timer EXCEPT ![t] = "on"] /\ UNCHANGED hit
       \/ Accept(t) /\ timer' = [timer EXCEPT ![t] = "off"] /\ Fails(t)
       \/ Refuse(t) /\ timer' = [timer EXCEPT ![t] = "off"] /\ UNCHANGED hit
    /\ UNCHANGED <<call, job, asking, paying, deps, ckb, unlock>>

\* The interval does not wait for its callbacks.
Tick(t) ==
    /\ timer[t] = "on" /\ asking[t] + paying[t] < MaxCallbacks
    /\ asking' = [asking EXCEPT ![t] = @ + 1]
    /\ UNCHANGED <<bitcoin, call, job, timer, paying, deps, ckb, unlock, hit>>

\* [bug] the interval is cleared before the request.
NoProofAfterClear(t) ==
    /\ asking[t] > 0 /\ asking' = [asking EXCEPT ![t] = @ - 1]
    /\ timer' = [timer EXCEPT ![t] = "off"]
    /\ UNCHANGED <<bitcoin, call, job, paying, deps, ckb, unlock, hit>>

\* No proof yet, or the request failed: the next callback asks again.
NoProof(t) ==
    /\ asking[t] > 0 /\ asking' = [asking EXCEPT ![t] = @ - 1]
    /\ UNCHANGED <<bitcoin, call, job, timer, paying, deps, ckb, unlock, hit>>

\* sendCkbTx: CKB refuses a transaction that names a cell dep twice.
SendCkbTx(t, n) ==
    \/ n = 1 /\ Commit(t) /\ UNCHANGED hit
    \/ (n # 1 \/ t \notin Chain \/ ~CellLive(t)) /\ UNCHANGED <<ckb, hit>>
    \/ Fails(t) /\ UNCHANGED ckb

\* The rest of the callback: clearInterval, appendCkbTxWitnesses, which adds the SPV cell
\* dep to the cellDeps that all callbacks share, and sendCkbTx.
Proof(t) ==
    /\ asking[t] > 0 /\ t \in Chain
    /\ asking' = [asking EXCEPT ![t] = @ - 1]
    /\ timer' = [timer EXCEPT ![t] = "off"]
    /\ deps' = [deps EXCEPT ![t] = @ + 1]
    /\ IF t \in Issuer
       THEN paying' = [paying EXCEPT ![t] = @ + 1] /\ UNCHANGED <<ckb, hit>>
       ELSE SendCkbTx(t, deps'[t]) /\ UNCHANGED paying
    /\ UNCHANGED <<bitcoin, call, job, unlock>>

\* appendIssuerCellToBtcBatchTransfer and ...SporesCreate: the issuer's cells are awaited.
IssuerCells(t) ==
    /\ paying[t] > 0 /\ paying' = [paying EXCEPT ![t] = @ - 1]
    /\ SendCkbTx(t, deps[t])
    /\ UNCHANGED <<bitcoin, call, job, timer, asking, deps, unlock>>

-----------------------------------------------------------------------------
(* BTC time cells *)

TimeCells == {t \in Leap : t \in Committed /\ t \notin unlocked}

ListTimeCells(txs) ==
    /\ unlock = Nothing /\ txs # {} /\ txs \subseteq TimeCells
    /\ unlock' = [cells |-> txs, proved |-> {}]
    /\ UNCHANGED <<bitcoin, call, job, local, ckb, hit>>

\* getRgbppSpvProof(btcTxId, after), with the id that the lock args name
ProveTimeCell(t) ==
    /\ t \in unlock.cells \ unlock.proved
    /\ \A i \in TimeOutputs(t) : names[t][i] = t
    /\ depth[t] >= After(t)
    /\ unlock' = [unlock EXCEPT !.proved = @ \cup {t}]
    /\ UNCHANGED <<bitcoin, call, job, local, ckb, hit>>

\* A cell that is not mature, or a request that fails, ends the whole call.
TimeCellNotProved ==
    /\ unlock.proved # unlock.cells /\ unlock' = Nothing
    /\ UNCHANGED <<bitcoin, call, job, local, ckb, hit>>

\* The BTC time lock verifies the depth again.
SpendTimeCells ==
    /\ unlock # Nothing /\ unlock.proved = unlock.cells /\ unlock' = Nothing
    /\ IF \A t \in unlock.cells : depth[t] >= After(t)
       THEN unlocked' = unlocked \cup unlock.cells /\ UNCHANGED names
       ELSE UNCHANGED ckb
    /\ UNCHANGED <<bitcoin, call, job, local, hit>>

\* It looks for a time cell with the default number of confirmations.
isBtcTimeCellsSpent(t) ==
    ~(/\ t \in TimeCells /\ After(t) = DefaultConfirmations
      /\ \E i \in TimeOutputs(t) : names[t][i] = t)

-----------------------------------------------------------------------------
Next ==
    \/ \E txs \in SUBSET Tx : Mine(txs)
    \/ \E blocks \in 1..MaxReorg : Reorg(blocks)
    \/ Broadcast \/ PostToQueue \/ CallAgain
    \/ \E t \in Queued : JobStart(t) \/ JobDelay(t) \/ JobComplete(t) \/ JobFail(t) \/ JobRetry(t)
    \/ \E t \in Local : SendLocal(t) \/ Tick(t) \/ NoProof(t) \/ Proof(t)
    \/ \E t \in Issuer : IssuerCells(t)
    \/ \E txs \in SUBSET Leap : ListTimeCells(txs)
    \/ \E t \in Leap : ProveTimeCell(t)
    \/ TimeCellNotProved \/ SpendTimeCells

Spec == Init /\ [][Next]_vars

\* Bitcoin mines what waits, the queue and the cron job for time cells do their work, the
\* interval ticks; who asks for a proof again and again gets it.
Fairness ==
    /\ \A t \in Tx : WF_vars(Mine({t}))
    /\ \A t \in Queued : WF_vars(JobStart(t) \/ JobDelay(t) \/ JobComplete(t) \/ JobFail(t))
    /\ \A t \in Local : WF_vars(Tick(t)) /\ SF_vars(Proof(t))
    /\ \A t \in Issuer : WF_vars(IssuerCells(t))
    /\ \A t \in Leap : WF_vars(ListTimeCells({t})) /\ SF_vars(ProveTimeCell(t))
    /\ WF_vars(Mine({})) /\ WF_vars(SpendTimeCells)

FairSpec == Spec /\ Fairness

-----------------------------------------------------------------------------
(* Properties *)

Final == {t \in Tx : depth[t] > MaxReorg}
Moved == {AssetOf[t] : t \in Committed}
Mover(a) == CHOOSE t \in Committed : AssetOf[t] = a

\* An asset belongs to the Bitcoin transaction that the lock args of all its cells name.
Named(t) == {names[t][i] : i \in Bound(t)}
Owner == [a \in Asset |->
            IF a \notin Moved THEN "origin"
            ELSE IF Named(Mover(a)) = {Mover(a)} THEN Mover(a) ELSE "nobody"]
Free == {AssetOf[t] : t \in unlocked}

Binding == INSTANCE IsomorphicBinding
                WITH chain <- Chain, final <- Final, owner <- Owner, free <- Free

\* Whatever fails, is lost or comes twice: an asset moves on CKB once, with a transaction
\* that Bitcoin holds, and leaves for CKB only with one that Bitcoin keeps.
ImplementsBinding == Binding!Spec

\* sendRgbppTxGroups: the results stand at the places of their groups, and a group without
\* an error is in the queue, so the caller knows what to hand over again.
ResultsTrue ==
    /\ Len(results) <= Len(groups)
    /\ \A i \in DOMAIN results : results[i] = "sent" => job[groups[i]] # "none"

\* A client that completes a transaction itself does not give up: once its interval is
\* cleared and no callback waits for the issuer's cells, a transaction in the chain whose
\* cell is still there has moved, unless a request failed or, for one that takes an
\* issuer's cells, a second callback's cell dep came in between or Bitcoin dropped blocks.
NothingAbandoned ==
    \A t \in Local :
        (/\ timer[t] = "off" /\ paying[t] = 0
         /\ t \in Chain \ Committed /\ CellLive(t))
        => t \in hit \/ (t \in Issuer /\ (deps[t] > 1 \/ reorged))

HandedOver(t) == job[t] # "none" \/ timer[t] = "on"
Done(t) == t \in Committed /\ (t \in Leap => t \in unlocked)
Excused(t) ==
    \/ t \in hit                         \* broadcasting, the queue or CKB failed
    \/ t \notin mempool \cup Chain       \* a rival has replaced it
    \/ ~CellLive(t) /\ t \notin Committed
    \/ deps[t] > 1                       \* two callbacks got a proof
    \/ t \in Local /\ reorged            \* the proof was gone when it was sent

\* A transaction that the queue or an interval takes care of moves its asset, and for a
\* leap releases it on CKB.
HandedOverSettles == \A t \in Tx : HandedOver(t) ~> (Done(t) \/ Excused(t))

\* btc-time.ts: "Check if the BTC time cells have been spent. If so, it means the RGB++
\* asset jumping(from BTC to CKB) has been successful."
SpentMeansArrived ==
    \A t \in Leap : HandedOver(t) /\ isBtcTimeCellsSpent(t) => t \in unlocked
=============================================================================
