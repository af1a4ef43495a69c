# A formal model of the RGB++ SDK

TLA+ modules for the core of this repository: the Bitcoin transaction builder of
`packages/btc`, the RGB++ transfers of `packages/ckb` that rest on it, the CKB transactions
paid from ordinary cells, the transfer of all cells of an asset, Spores, the replacement of
a transaction, the life of a transaction on both chains after it was built, and the caches
that concurrent calls share. TLC checks them on small instances, TLAPS proves the most important
properties for every instance. `PROJECT.json` lists the runs, the source lines behind every
definition, the hazards the properties are for, and the disagreements that were found.

## The system

An RGB++ asset is a CKB cell whose lock names a Bitcoin UTXO: whoever spends the UTXO moves
the cell. One transfer is a pair of transactions on two chains. The client builds a virtual
CKB transaction, commits to it in an `OP_RETURN` of a Bitcoin transaction that spends the
UTXOs, and hands the CKB transaction to the queue of the assets API, which completes and
sends it when Bitcoin has confirmed its half.

| Part | State | Operations | What makes it correct |
| --- | --- | --- | --- |
| `TxBuilder` (`btc/src/transaction/build.ts`), driven by `createSendUtxosBuilder` | inputs, outputs, fees of two rounds, change index, cached list | `payFee`, `injectSatoshi`, `injectChange`, `addInput`, `addOutput` | the fee is paid, no satoshi lost, pinned outputs and their indices kept, no dust, no foreign or excluded UTXO spent, it ends |
| `DataSource`, `DataCache` (`btc/src/query`) | UTXO lists by key | `getUtxos`, `collectSatoshi`, `optionalCacheUtxos`, `cleanUtxos` | the rounds of a call start from one fresh list; lists are released |
| virtual CKB transactions (`ckb/src/rgbpp/btc-transfer.ts`, `btc-jump-ckb.ts`) | cells read so far, the transaction | transfer, transfer without merging, batch, leap to CKB | all cells of a spent UTXO are consumed, amounts and capacity balance, locks name the right Bitcoin output |
| RGB++ Bitcoin transactions (`btc/src/api/sendRgbppUtxos.ts`) | | `createSendRgbppUtxosBuilder` | one output per RGB++ cell, at the index its lock names; the paymaster is paid if needed |
| completion (`ckb/src/rgbpp/ckb-builder.ts`) | the virtual transaction, shared by callbacks | witnesses, paymaster cell, real transaction id | what Bitcoin accepted can be completed |
| transaction groups (`rgbpp/src/rgbpp/utils`), queue, the client's interval (`examples/rgbpp`) | results, jobs, timers | broadcast, hand-over, polling for the proof, sending | an asset moves once, with a transaction that Bitcoin holds; the caller knows what to hand over again; what was handed over settles |
| BTC time cells (`ckb/src/rgbpp/btc-time.ts`) | cells that wait for confirmations | proof, spending, the check for success | released when Bitcoin keeps the leap, and not before |
| `Collector` (`ckb/src/collector`) | cells read so far, cursor | `getCells`, `collectInputs`, `collectUdtInputs`, `getLiveCells` | complete answers, enough amount and capacity |
| RBF (`btc/src/api/sendRbf.ts`) | | `createSendRbfBuilder` | same inputs, same receivers at the same indices, a fee that is not lower, nothing of the old transaction spent |
| leap from CKB, launch, paymaster cells, issuer cells (`ckb/src/rgbpp`, `ckb/src/paymaster`), xUDT on CKB (`examples/xudt-on-ckb`) | inputs and outputs of one transaction | list cells, choose inputs, make outputs and change, sign | capacity and amounts balance, every cell holds what it occupies, no refusal without want |
| transfer of all assets (`rgbpp/src/rgbpp/xudt`) | excluded UTXOs | grouping, summaries | no group spends what another spends |
| Spore (`ckb/src/spore`) | a cell per cluster and per spore | create, transfer, leap both ways, unlock | every asset is in one cell of the receiver who was named, and can be moved again; witnesses and commitment stay in place |
| registry of compatible xUDTs, cell deps (`ckb/src/utils/cell-dep.ts`, `ckb/src/constants`) | list of tokens, its URL and age | `refreshCache`, `getCompatibleTokens`, `fetchTypeIdCellDeps` | code and config of one deployment, the dep of every moved type is there (not so for carried cells), the list gets current |
| assets API (`service`), JSON-RPC service (`apps/service`) | token | requests | |

The parts interact by awaited calls in one process and through two chains that other parties
use too. What is hard: the mutual recursion of `injectChange` and `injectSatoshi` inside a
loop that searches for a fixpoint of the fee; calls that interleave at every `await` over a
shared cache; indices of Bitcoin outputs that are fixed before the transaction is complete;
UTXOs and cells that others spend or create between two reads; a failure between the two
halves of a transfer. `PROJECT.json`, "hazards", lists each with its line.

## Modules

| Module | Models |
| --- | --- |
| `Sums` | finite sums, as a recursive function so that it can be reasoned about, with the lemmas about them and about `Orders` |
| `Orders` | the ascending list of a finite set of numbers: what the sorts and filters of the SDK give |
| `TxBuilder` | one call of `createSendUtxosBuilder`, action by action |
| `DataCache` | several `payFee` calls over one `DataSource` |
| `RgbppTransfer` | one RGB++ transaction from reading cells to the CKB transaction, with other wallets |
| `CkbFunding` | one CKB transaction paid from ordinary cells, from the first page of a listing on |
| `TransferAll` | one call of `buildRgbppTransferAllTxs`: several transactions that must not overlap |
| `Rbf` | one call of `createSendRbfBuilder`; extends `TxBuilder` |
| `IsomorphicBinding` | the abstract specification: Bitcoin decides where an asset goes, CKB follows |
| `RgbppLifecycle` | several transactions from the broadcast to the release on CKB; implements `IsomorphicBinding` |
| `Spore` | clusters and spores over a sequence of transactions |
| `CellDeps` | the registry and the calls that take types and cell deps from it |
| `MC...` | the constants of the runs, one module per module above |
| `TxBuilderProofs` (with `Rbf`), `CacheProofs` (`DataCache` and `CellDeps`), `RgbppTransferProofs`, `CkbFundingProofs`, `TransferAllProofs`, `RgbppLifecycleProofs`, `SporeProofs` | lemmas and theorems |

Definitions marked `[bug]` belong to no specification. Each is a plausible mistake in the
definition that follows it; substituting it must break a property, which shows that the
property can tell the code from that mistake.

### TxBuilder

A behaviour is one call. `step` is the program point: `prepare` (inputs and outputs are
added), `loop` (the head of `payFee`'s loop), `change` (`injectChange`), `deduct`, `collect`,
`again`, `check` (steps 1, 2, 3 and 4-5 of `injectSatoshi`), `fee` (the end of a round), and
the four ends. `injectChange` and `injectSatoshi` call each other in tail position, so one
record `call` holds the locals of whichever is running; `keyed` tells whether
`internalCacheKey` and `excludeUtxos` were passed on. UTXOs are numbered in the order in
which `getUtxos` sorts them. The fee is an affine function of the numbers of inputs and outputs plus a
jitter, which is how `calculateFee` behaves for inputs and outputs of one kind (the estimator
signs with a random key). A fetch answers any listing of `Listings`; a keyed call answers
from the cached list. Abstracted: addresses and scripts, signatures, the way a request is
rejected before anything happens (`RejectRequest`: missing public key, unconfirmed input,
unsupported address, no fee rate).

`injectChange` re-checks `injected.collected < amount` after `injectSatoshi` has thrown in
that case; the check can never fire and has no action.

### RgbppTransfer

`ReadLock` is one `getCells`; `BuildTransfer`, `BuildSplit` (`noMergeOutputCells`),
`BuildBatch` and `BuildJump` are the rest of the builders after their last await of cells;
`LookUpInputs` and `CompleteBtcTx` are `createSendRgbppUtxosBuilder`; `Broadcast` and
`PostToQueue` are `sendRgbppTxGroups` for one group; `SendCkbTx` is the queue with
`appendPaymasterCellAndSignCkbTx`. Around them another wallet of the user spends UTXOs and
moves their cells, and leaps bind new cells. Cells are numbered in the order of
`compareInputs`. An output with an RGB++ lock carries the vout written into its lock args;
`btcOutputs[v].cell` remembers for which cell a Bitcoin output was made, so that
`BindingCorrect` can compare the two. The Bitcoin transaction of `CompleteBtcTx` keeps its
leading fixed outputs in place: that is `LeadingFixedKept` of `TxBuilder`.

Assumed: a paymaster is configured; the queue's paymaster cell has one fixed capacity; the
list of lock args has no duplicates (the batch transfer does not remove them); the standard
cell holds at least what the two kinds of outputs occupy, as for type args of 32 bytes; every
cell has a type and data. Left out: the limit of 255 cells, cell deps, the SPV proof, and the
placeholder witnesses, one for the first input of each lock.

### DataCache

Each client is one `payFee`. The getter of `optionalCacheUtxos` is three steps (request,
answer, continuation) because other calls run in between. `version` counts the changes of an
address's UTXO set. A collection has a key (`UseCached`, `Fetch`) except where step 5 of
`injectSatoshi` (`build.ts:380`) enlarges a change: it passes no key on, so `FetchAgain` asks
the service whatever the cache holds, and `Store` stores nothing. `used` and `extra` are
history: the lists that collections of a running call with and without the key returned.
`FetchAgain` is enabled whenever a keyed collection has been made; when the change is too
small is `TxBuilder`'s matter.

### CkbFunding

A behaviour is one call of a builder that pays from the cells of one address: `jump` (the two
`gen...CkbJumpBtcVirtualTx`; the single one is a batch of one), `transfer`, `timeCell` and
`issue` (`transferXudt`, `generateBtcTimeCell` and `issueXudt` of `examples/xudt-on-ckb`),
`launch`, `split` (paymaster cells), `issuer` (`appendIssuerCellToBtcBatchTransferToSign` and
`buildAppendingIssuerCellToSporesCreateTx`, which differ in the size they reserve for
witnesses only) and `unlock` (`prepareBtcTimeCellSpentUnsignedTx`). `ReadPage` is one request
of `getCells`, with `cursor` for `last_cursor` and `complete` for `!hasMoreCells`; between two
pages cells of the address are spent and new ones appear behind all others (`Spend`,
`Appear`). A move of xUDT (`jump`, `transfer`, `timeCell`) lists its xUDT cells first
(`step = "assets"`, `CollectAssets`) and, if their capacity does not pay, the plain ones
(`"funds"`, `CollectFunds`). `AssetsPay` and `FundsNeed` are the two formulas in use: a jump
asks for the receivers' cells, a change cell, 61 CKB and `MAX_FEE` at once; the scripts
compare input with output capacity and ask for the difference. The other five list plain
cells only. `poor` stands for every refusal for want of cells, amount or
capacity, including the `TypeError` of `unlock` when all cells of empty data have a type
script; `failed` for an indexer that does not answer. A fee is any of `Fees`, which stand for
`calculateTransactionFee` of the sizes that occur: at most `MAX_FEE`, as for transactions of
less than 18 kB at the default rate. Left out: the amounts that `launch` and `issue` mint,
scripts, data, witnesses, cell deps,
`outputCapacityRange`, signing and sending.

### TransferAll

`ListAssets`, `ListUtxos` and `ReadCells` are the answers of the three rounds of concurrent
requests, in any order within a round; `rgbppGroups` keeps the order in which cells arrived,
which decides the grouping. `Relocate` is `groupNumbersBySum`: its `backtrack` takes a number
back only if the sum exceeds the target and goes on with the next, so a group takes, from
left to right, what still fits (`Take`, `Backtrack`), and each number that is in no group when
`forEach` comes to it opens the next one (`Visit`). Per group, `StartGroup` makes the summary,
`ReadLock` is one `getCells` of `genBtcTransferCkbVirtualTx`, and `BuildGroup` is the rest up
to `usedBtcUtxos`: the CKB transaction with the outputs and recipients, then the Bitcoin
transaction. The latter is reduced to what `TxBuilder` shows of it: the inputs bound to cells
come first, then the first UTXOs that are not excluded, and one more that ignores the
exclusion if a change was enlarged. `Summarize` is the summary of the excluded UTXOs. Other
wallets spend UTXOs, move cells and leap cells in between any two steps.

A cell that the summary does not know makes `cellMap.get(cellId)!.cellOutput` throw; that,
and the check of the number of outputs, is `Unexpected`. Assumed: the payer's UTXOs for fees
hold no cells, and the service's `only_non_rgbpp_utxos` says so. Left out: amounts of
satoshi, capacities.

### Rbf

`Rbf` extends `TxBuilder` by the two ends of `createSendRbfBuilder`. `sent` is the transaction
to replace (inputs, outputs, and which listed UTXOs are its own outputs), `props` the call.
`CreateSendRbf` rebuilds the outputs as fixed ones with their own value as minimum
(`Rebuilt`), pops the change output or shrinks it to a protected one (`Outputs`), compares the
rate (`RateRaised`) and hands a request to `TxBuilder`, whose `Next` then runs unchanged
(`Build`); `FinishRbf` compares the fees. The change index counts from 1, as sequences do. The
calls pass `onlyConfirmedUtxos: false`, the harder case: the service may list the outputs of
the transaction that is replaced. `Fetched` are the answers to the request for the fastest
rate; the builder sends its own request and is at `FeeRate`.

### RgbppLifecycle and IsomorphicBinding

Everything up to here ends with a pair of built transactions. `RgbppLifecycle` takes several
pairs, some for the same UTXO, from there on: `sendRgbppTxGroups` with its broadcast and its
post to the queue (`Broadcast`, `PostToQueue`, `CallAgain`), the jobs of the queue
(`JobStart` to `JobRetry`), the interval of the local examples (`SendLocal`, `Tick`,
`NoProof`, `Proof`, `IssuerCells`), and BTC time cells (`ListTimeCells` to `SpendTimeCells`,
`isBtcTimeCellsSpent`). Requests fail, or succeed without an answer (`Fails`); callbacks of
one interval overlap and share one `ckbRawTx`, whose `cellDeps` get the SPV dep once per
callback; Bitcoin replaces a transaction by a rival and drops its latest blocks once. A local
client that gets no answer ends and sends nothing more.

A transaction's outputs on CKB are given by the kinds of their locks (`LocksOf`).
`WithRealBtcTxId` replaces the placeholder in those whose lock `isRgbppLockOrBtcTimeLock`
recognises; `names` holds what each output of a committed transaction names in the end. The
owner of an asset is the transaction that all its outputs of these kinds name, and a time cell
is proved with the id it names: an output that kept the placeholder would belong to nobody
and never be released.

Bitcoin, the queue and the lock scripts are not in this repository; the map marks them
external. The queue completes a job when Bitcoin has the transaction, delays it while it
waits and fails it otherwise, as `RgbppApiTransactionState` and `retryRgbppCkbTransaction`
say; the locks accept a transaction whose Bitcoin half is in the chain and whose input cell
is live.

`IsomorphicBinding` knows none of this: `chain` changes freely among consistent sets, an asset
leaves its origin once, with a transaction of the chain (`Follow`), and is free on CKB when the
transaction that leaps is final (`Release`). The refinement maps `chain` to the transactions
with a confirmation, `final` to those deeper than Bitcoin drops (`MaxReorg`), `owner` to the
committed transaction of the asset, `free` to the assets of spent time cells. It rests on
`FinalityAssumption`: who leaps waits for more blocks than Bitcoin drops.

### Spore

One step is one builder call and its acceptance or completion. A call reads the cells of a
UTXO and puts a transaction into `flying`; `Broadcast` lets Bitcoin accept it or a rival;
`Complete` puts in the real transaction id, rewrites the CoBuild witness, adds who pays (the
transaction itself, the issuer, a paymaster) and commits it. Assets are identified by the out
point they are made from; capacity counts in fee units, `Unit` to a byte, so that the bytes
that `calculateRgbppSporeCellCapacity` reserves, the fee and what a leap adds are
comparable. `WithCoBuild` is the assignment to the last witness which the scripts make;
`IssuerWitnesses` and `PaymasterWitnesses` are the two orders in which payers add theirs.

`Kept` lists the owners of UTXOs that exist from the start and hold no cell. A leap from CKB
goes to a UTXO without a cell, and not to an output of a transaction that Bitcoin has
accepted and CKB has not: its cell is still to come. The SDK takes the out index from the
caller and checks neither, so this is an assumption about callers.

### CellDeps

The registry (`cache`, `xudtUrl`, `age`) is shared by all calls; `refreshing` holds the
requests under way, each with the hosts that may answer it (`Sources`) and the version its
list had at least. Lists and hosts change at any moment. A call checks its type
(`isUDTTypeSupported`), awaits its cells, selects contracts (`Selected`) and awaits the
document of cell deps: the caller's, the API's, one of the two static hosts', or none
(`Built` for the caller's, `ApiAnswer`, `StaticAnswer`). A transfer and a leap to CKB (kind
`transfer`) read their cells lock by lock and check the types of all of them, the carried ones
included (`CellsOfLock`), against the list as it is by then; what they select is the asset
they were called for, and nothing for the carried types. A batch and a leap from CKB read
cells of the asset only (`Cells`). `Unlock` takes time cells of several types and selects
those that the list has, `Launch` asks for no token. Each question is a call of
`getCompatibleTokens` and starts a refresh of its own while the list is old. A dep is a record
of contract, network, origin and index, so that `OneDeployment` can compare it with the network of the
lock script and with its config cell; `MainnetInfo` and `TestnetInfo` list what the constants
define. `isOfflineMode` is as inverted as in the code. Signet is not combined with the mainnet.

## Runs

| Run | Shows |
| --- | --- |
| `TxBuilder` | six invariants, and that `payFee` ends unless it finds an exact match again and again or may deduct from an output, over 4056 requests: up to two caller inputs (also a duplicate), up to two outputs of twelve kinds or an RGB++-like list of three, three sets of excluded UTXOs, deduction on and off, three listings |
| `Rbf` | three invariants, nine sent transactions with the change last, first, in the middle or nowhere, large or little; every change index, change address and combination of checks; five listings |
| `RgbppTransfer` | five invariants, four kinds of transactions, eight lists of locks over four UTXOs with eight cells of three types, two of them bound late |
| `RgbppMixedJump` | the binding of other cells in a leap to CKB (a finding) |
| `DataCache` | three invariants, three calls, two of them for one address and interchangeable (symmetry), two milliseconds, two versions |
| `CkbFunding` | five invariants, eight kinds of transactions with amounts and capacities at their boundaries, eight cells of four kinds, three of which appear late, two cells to a page |
| `TransferAll` | five invariants, four UTXOs of two owners with up to twelve cells of four types, three UTXOs for fees, two steps of other wallets |
| `RgbppLifecycle` | refinement, two invariants and liveness: a transfer in the queue and a rival completed by a client with an issuer's cells, both for one asset, and a leap of another; two calls of `sendRgbppTxGroups`, two callbacks at a time, one dropped block, one transaction that meets failures |
| `SpentMeansArrived` | the same system: success is reported for a leap that has not happened (a finding) |
| `Spore` | four invariants over sequences of up to five transactions, two at a time, one cluster, up to two spores, two owners |
| `CellDeps` | an invariant and liveness: one call at a time, a transfer carrying any of three types, a batch, a leap, an unlock of any set of types or a launch; two requests for a list under way, two lists in two versions, one switch of the URL, two failures of hosts |
| `OfflineFetches` | the same system: a call with its own cell deps starts a request (a finding) |

What the properties of the passing runs say, by name; each is stated in full above its
definition.

- `TxBuilder`: what was deducted, collected and returned stays accounted for in every round
  (`Conservation`); a built transaction pays the estimated fee up to one satoshi (`FeePaid`);
  no output is dust (`NoDust`); the leading fixed outputs keep their
  index (`LeadingFixedKept`); the caller's inputs are kept and only listed UTXOs are added
  (`InputsAccounted`); a call is refused for lack of value only if less was listed
  than is missing plus a change's dust limit (`InsufficientOnlyIfTight`); `SettlesUnlessExactMatch` is the liveness.
- `Rbf`: with a change output no excluded UTXO is spent (`ExcludedUnspentWithChangeOutput`),
  every receiver is in the replacement (`ReceiversKept`), the fee does not fall by more than a
  satoshi (`FeeNeverLower`).
- `RgbppTransfer`: a cell whose UTXO is spent is consumed with it, but for the two kinds of
  cells a call cannot see (`NoCellStranded`),
  an accepted transaction's cells stay live (`InputsStayLive`), amounts are conserved
  (`AmountsConserved`), the paymaster pays what the CKB side lacks (`CapacityPaid`), and each new
  cell is bound to the Bitcoin output made for it, except in a leap with other types
  (`BindingCorrectUnlessMixedJump`).
- `DataCache`: the keyed collections of a call see one list and the others never an older one
  (`OneSnapshot`, for a call whose millisecond no other call has); whatever a call collects
  from belongs to a call of its millisecond and is not older than that call (`NothingStale`);
  no list is kept but for calls that run or failed (`OnlyFailuresLeak`).
- `CkbFunding`: paging misses no cell that stays (`NothingMissed`), refusals are true
  (`PoorOnlyIfPoor`), the capacity balances (`CapacityBalanced`), no other cell is burned
  (`NothingBurned`), outputs hold what they occupy (`OutputsViableIfPrepared`).
- `TransferAll`: grouping is a partition within the limit (`GroupsPartition`), summaries tell
  the truth (`SummaryTrue`), others' cells go home (`OthersReturned`), a UTXO is shared only
  to enlarge a change (`SharedOnlyIfEnlarged`), failures have a cause (`FailsForAReason`).
- `RgbppLifecycle`: the system implements the abstract binding (`ImplementsBinding`), results
  stand at their groups' places (`ResultsTrue`), a client whose interval is cleared has moved
  its transaction, or it cannot move, or one of the listed accidents has happened
  (`NothingAbandoned`), and what was handed over settles (`HandedOverSettles`).
- `Spore`: a spore can always move on (`NothingStuck`), witnesses stand where their locks look
  for them (`WitnessesInPlace`), CKB gets what Bitcoin committed to (`CommitmentKept`), each
  asset is in one cell of its receiver (`EveryAssetOwned`).
- `CellDeps`: deps of one network and one deployment (`OneDeployment`), and the registry ends
  with the newest list of the URL named last (`ListSettles`).

`CHECK_DEADLOCK FALSE` where each behaviour ends when its call does, or when all
transactions of the instance are settled.

The bounds are small because what matters are boundaries, not sizes. In `MCTxBuilder` one
unit is about a quarter of the dust limit, so that values of 0 to 16 lie below, at and above
the limit, the fee of an input and of an output, and their sums; five UTXOs allow a first
collection, a second for the change, and excluded ones. `MCRgbppTransfer` uses the real
capacities in CKB, minimal and rich cells, and amounts that make change 0, 1 and more.
`MCCkbFunding` counts in tenths of a CKB, so that 61 CKB, the 0.2 CKB of `MAX_FEE` and two
smaller fees are all exact; a page of two cells makes listings of zero to four pages, with
the last one full or not, and the page size is a parameter of the theorems anyway. In
`MCTransferAll` four cells fit into a transaction: the three initial worlds need two groups,
hold a UTXO that is too large, and hold a token with the target's type args under another
code hash; two steps of others are a spend and the move of its cells, or one before and one
after the summary. Three clients in `DataCache` give two that share an address and one that
does not; in two milliseconds any two of them, or all, may share a key, or one may fail, leave
its list and another start later.
`MCRgbppLifecycle` has one rival pair across the two ways of completion and one leap; a time
cell waits for two blocks where Bitcoin drops one, and confirmations are counted no further;
one transaction may meet failures, any number of them, so that the other two show what
must still settle. `MCSpore` uses a byte for every size, with the fee smaller than a byte and
a paymaster cell larger than what a leap lacks: each branch of `PayerAndOutput` occurs. Five
transactions are a cluster, spores, a leap, the unlocking, and a leap back to a kept UTXO, or
a transfer and rivals among them. In `MCCellDeps` two slots let a late answer arrive after a newer one,
and a token that is published later, or missing in the document, meets every call.

Fairness. For `payFee`, `WF_vars(Next)` says that a pending promise is settled (the HTTP
client's answer or error) and that its continuation runs; `TxBuilder` is one sequential call,
so weak fairness of `Next` is fairness of the program. In `RgbppLifecycle` Bitcoin mines what
waits, the queue's worker and the cron job for time cells run, the interval ticks, and who asks
for a proof again and again gets it (`SF` of `Proof` and `ProveTimeCell`, since a request may
always fail first). Nothing is assumed of the callers of `sendRgbppTxGroups`. In `CellDeps`
requests end, time goes on, transfers of a token with a caller's own document are started again
and again, and every host but the static one comes back: the race with GitHub is what the
property is about.

## What disagrees with the code's own words

Three runs end in a counterexample, and `PROJECT.json` lists them as findings.

* **A leap to CKB misplaces other assets** (`RgbppMixedJump`). Their lock args count the BTC
  time output, for which there is no Bitcoin output.
* **A leap is reported as successful before it has happened** (`SpentMeansArrived`).
  `isBtcTimeCellsSpent` takes the absence of a time cell as success, and it looks for the
  default number of confirmations only.
* **A call with its own cell deps fetches** (`OfflineFetches`). `isOfflineMode` is inverted: a
  call with `vendorCellDeps` may start a refresh, a call without them never sees a list that
  `refreshCache` brought.

Further places depart from a comment or a name next to them; the properties are stated so
that they hold beside them:

* Step 5 of `injectSatoshi` (`build.ts:380`) does not pass `excludeUtxos` and
  `internalCacheKey` to `injectChange`: a change below the dust limit is enlarged from a fresh
  list, so one round may collect from two lists (`OneSnapshot` says that the second is not the
  older one). `ExcludedUnspentWithChangeOutput` is what remains true, and is proved: a protected
  output to the change address absorbs every change. Consequently a replacement whose change
  output was last (and is popped) may spend an output of the transaction that it replaces,
  when unconfirmed UTXOs are allowed (`sendRbf.ts:125`).
* `changeToOutputs` is inverted (`build.ts:350`): a second collection, and the error if it
  fails, happen exactly when an existing output could take the change.
* `payFee` may not end (`build.ts:219`): after an exact match there is no change output, so
  the fee drops by one output; the next round then has a change output again.
* Two calls in one millisecond share a list even if they are for different addresses
  (`build.ts:157`); `MCDataCache` has them, `OneSnapshot` excepts them (`Alone`) and
  `NothingStale` says whose list it can be (`Together`).
* A transfer or a leap to CKB checks the types of the cells it carries along "to avoid building
  invalid CKB TX" (`utils/rgbpp.ts:312`), but selects the cell dep of its own asset alone
  (`btc-transfer.ts:198`, `btc-jump-ckb.ts:165`). If the UTXOs hold another supported type, its
  dep is missing, and CKB refuses the transaction after Bitcoin has accepted its half.
* A replacement may pay exactly what it replaces (`sendRbf.ts:149`): the fee compared is the
  estimate, and the rate that is compared comes from another request than the one used.
* An issuer may add nothing (`btc-transfer.ts:410`): if the inputs exceed the outputs by a
  shannon, no issuer cell is appended, and the change made from the difference is too small
  or negative.
* A UTXO that one service reports and the other does not fails a transfer of everything with a
  `TypeError` (`btc-transfer-all.ts:230`), although line 90 says it is excluded.

Limits that no line of the repository denies:

* Cells bound after their lock was read, and cells of other types in a batch transfer, are
  lost (`Forgotten`). A paymaster cell of 316 CKB may not suffice if the first cell holds no
  more than the receiver's output occupies; the CKB half then cannot be completed after
  Bitcoin has taken the other (`PaymasterCovers`).
* `Prepared` names the callers whose transactions are viable. What it leaves out are arithmetic
  limits: a batch leap with two or more receivers collects the capacity of one
  (`ckb-jump-btc.ts:202`, the check in line 194 counts all), an xUDT change cell may need more
  than the consumed cells gave, a launch cell may be larger than what `collectInputs` asks for
  on its behalf, and `transferXudt` and `generateBtcTimeCell` make a change smaller than a cell
  when the xUDT cells give slightly more than the outputs take. No error is thrown; the CKB
  node rejects the transaction.
* The interval is cleared before the CKB transaction is sent: if sending fails, or Bitcoin
  has dropped the proof, nobody tries again. Two overlapping callbacks that both get a proof
  add the SPV dep twice, and CKB refuses both (`Excused` in `RgbppLifecycle`).
* The local spore scripts 4 and 5 add no paymaster cell when `needPaymasterCell` is set; only
  the queue completes such a transaction. Creating a cluster consumes the first empty cell of
  its UTXO only. A UTXO with two bound cells makes its spore immovable. A leap to Bitcoin
  must target a UTXO without a cell.
* `refreshCache()` without a URL asks one host only, the race with GitHub needs the URL by name;
  a call never waits for the refresh it starts; late answers may replace a newer list for a
  while (`ListSettles` says it settles). A token that the document of cell deps does not
  list gives an undefined dep: the error in `cell-dep.ts:195` is never thrown for it. An
  unlock leaves the dep of a type out that the registry does not know.

## Proofs

All theorems hold for every value of the constants that satisfies the named assumptions:
`ConstantsAssumption` and `ListingsAssumption` (`TxBuilder`), `RbfAssumption`,
`DataCacheAssumption`, `CellsAssumption`, `PaymasterAssumption` and `RequestsAssumption`
(`RgbppTransfer`), `CellsAssumption`, `CapacityAssumption`, `OccupiedAssumption` and
`RequestsAssumption` (`CkbFunding`), `WorldAssumption` and `LimitAssumption` (`TransferAll`),
`SizeAssumption` (`Spore`), `RegistryAssumption` (`CellDeps`), `TxAssumption` and `FinalityAssumption`. Beyond types they ask for this:

* every cell holds the capacity it occupies, which CKB enforces, and a plain cell carries no
  amount of a token;
* a listing holds no UTXO below the dust limit: `collectSatoshi` passes `min_satoshi` to the
  service (`source.ts:132`); `InsufficientOnlyIfTight` is false without it;
* an output of a sent transaction that is not an `OP_RETURN` has an address;
* a split names at most one receiver per lock, the requests of an issuer balance, a jump names
  the sender only;
* the paymaster's cell pays for one RGB++ cell and the least change, and the calculators of
  `ckb-tx.ts` give a cell at least what it occupies;
* a time lock is longer than an RGB++ lock, and by no more than `BTC_TIME_CELL_INCREASED_SIZE`;
  a Spore's fee is less than a byte's worth of capacity (1 CKB), and a paymaster's cell is
  worth the least change and that increase;
* a compatible token is none of the SDK's own contracts;
* who leaps waits for more blocks than Bitcoin drops.

* **Sums.** `Sums` derives what a total gains when an element is changed, appended or
  removed, and that the total of a union of disjoint sets is the sum of totals. The library's
  induction theorems take an operator and cannot be used; `NatSetInduction` does induction
  on a set of naturals instead, and is proved from the least-element principle.
* **TxBuilder.** `TypeInv` adds to `TypeOK` that change which is being given back is positive
  (a credit could otherwise make a value negative). `BalanceInv` adds to `Conservation` that a
  round starts from the caller's transaction (`FreshRound`) and the ranges of the amounts in
  the locals (`AmountsInRange`): without them deduction could leave with more than was missing
  and nobody would return it. `FeePaid` follows, since at the end of a round the surplus is
  the goal of the round and an accepted fee differs from it by at most one.
  `OutputsStep` shows that a step can change the outputs in five ways only; `NoDustInv` (no
  dust, and none in the request once it was accepted), `LeadingFixedKept` and
  `InputsAccounted` are inductive over them. `ExclusionInv` shows that a protected output to
  the change address is always there to take the change (`ShieldKept`), so the unkeyed
  collection never happens. `TightInv` is for `InsufficientIfTight`: the call in
  progress is short only when everything of a listing has been taken (`Exhausted`), an
  enlargement of the change asks for less than the dust limit, and until change is given back
  the outputs are worth no more than the caller's. With `BalanceInv` what was collected is
  then a bound for that listing.
* **Rbf.** `RbfInv` says where a call stands: before `Build` nothing has happened
  (`NothingBuilt`); afterwards the invariants of `TxBuilder` hold (`BuilderInv`) and the
  outputs are those of the sent transaction in their order, except for the change
  (`LayoutKept`). Since `Next` is that of `TxBuilder`, `OutputsStep` and the step lemmas of
  the builder are used as they are; so the theorems stand in `TxBuilderProofs`.
* **DataCache.** `SourcesInv` says of every list, in the cache, on its way or used, which
  calls of its millisecond it can be from; `NothingStale` follows. `SnapshotInv` says that a
  call that is alone with its key finds in the cache only what it put there itself, and that a
  list fetched later is a newer one; it needs the versions that `SourcesInv` bounds.
  `OnlyFailuresLeak` is inductive with `TypeInv`.
* **RgbppTransfer.** `CellsInv` follows the cells of the call: what is live at a
  lock that was read has been found, or is one of the cells named in `Forgotten`
  (`Reading`), and a UTXO in the Bitcoin transaction is
  spent by it, so no other wallet can spend it and then move its cells (`Chains`). With
  `InOrderLists` (the list of a finite set in ascending order has exactly its members) the
  inputs of the virtual transaction are all the cells found, which gives `NothingStranded`
  and `AcceptedStaysValid`. `BuiltInv` says from the virtual transaction on what the
  two transactions are made of (`Made`, `Completed`): lemmas for each kind of request add up
  the outputs per type and relate each one to the Bitcoin output at its index. `NoAmountLost`,
  `CapacityIsPaid` and `CellsAreBound` are its parts.
* **CkbFunding.** `ListInv` adds to `NothingMissed` that a cell at or before the cursor that
  still exists has been read. It is inductive because a page is a dense piece of what lies
  behind the cursor (`PageIsDense`), a page that is not full is the rest of it
  (`LastPageHoldsAll`), and new cells appear behind the cursor. `RefusedOnlyIfPoor` follows
  with `LackingMonotone`: what lacks among the cells of an answer lacks among the fewer ones
  that stayed; that a move has chosen assets when it asks for plain cells is
  `ShortestNonempty`. `TxInv` carries the balance: each kind of transaction has a lemma
  that adds up its outputs with `OneMoreOutput`. `CellsInv` does the same for amounts and for
  what each output occupies: `Chosen` keeps what `collectUdtInputs` and `collectInputs` took
  between the two awaits, and `AmountsMoved` and `PreparedAreViable` follow.
* **TransferAll.** `IInv` has three layers. `ListInv` is about the answers and the grouping.
  `Backtrack` and `GroupNumbersBySum` are recursive functions; `IterationExists` shows that a
  function with those equations exists, and `VisitGroups` that each `Visit` keeps the groups
  disjoint, within the limit, and complete up to its index, from which `GroupsPartition`
  follows. `BuildInv` is about the transactions: others may spend a UTXO and move its cells
  between the summary and `getCells`, but the cells of a UTXO are all there or all gone
  (`FoundIsSummary`), so what is built is what was summarised; `FeesAreUsed` shows by an
  injection that the inputs for fees become used before the next group chooses. `QuietInv`
  says that nothing has changed as long as nobody else moved, for `FailureHasAReason`.
* **Spore.** `IInv` has three parts. `CellsInv` is about CKB: every cell comes from a
  transaction that is no longer under way and holds what it occupies, a cell on CKB even what
  a time cell would; no two cells have one out point, one asset or one RGB++ lock; and no
  asset is named after a cell that is still live, so that ids cannot collide. `UtxosInv` is
  about Bitcoin and the transactions under way: each is what its call built (`Formed`), the
  UTXOs of one that was accepted are there, and one that can still be accepted has its cell.
  `OwnersInv` relates both to what the callers asked for. A rival that was built earlier
  may be dropped at any time, which is why `Spent(tx)` is promised only while `tx.utxo` is
  there. `CompletedShape` has a case for each payer and gives witnesses, order and balance at
  once (`PaidShape` for those with a cell that pays); `UnlockedShape` does it for any set of
  time cells, sorted (`SortedCells`). `WitnessesStay` and `CommitmentStays` follow for every
  state. `MovedOutput` holds the arithmetic of `PayerAndOutput`: after any move the output holds
  what it occupies, and what the paymaster has to give is at most a byte and the increase of a
  time cell.
* **CellDeps.** `DepsInv` says of each call what it has selected so far (`Chosen`): lists come
  and go between the check of the type, the answer of the cells and the document, but the
  contracts are the SDK's own and the tokens are tokens, so that no dep is taken for another. `CodeOfNetwork` and `DeployedDep` show for every
  contract, network and document that the code's dep is of the network of the lock script;
  that the config cell belongs to it (`DepsOfOneDeployment`) then follows for every choice.
* **RgbppLifecycle.** `IInv` says that no two transactions of the chain spend one UTXO
  (`NoRivals`), that an asset has moved once (`MovedOnce`), that released time cells were
  committed (`TimeCellsCommitted`), and contains `ResultsTrue`. `NextMaps` has a case per action and shows which step of `IsomorphicBinding` it
  is: mining and dropping blocks are `BitcoinMoves` (what is final survives because `MaxReorg`
  bounds what is dropped), each commit is a `Follow` (`CommitFollows`), spending time cells is
  a `Release` (`ReleaseMaps`), all others stutter. `CkbFollowsBitcoin` is the refinement
  theorem. `ClientsKeepAsking` rests on a second invariant, `LInv`, which says of each client
  where it stands (`ClientOf`): a transaction is on Bitcoin only if its client has sent it, an
  interval is cleared only after a failed broadcast or with a proof, and the first callback
  with a proof has sent a valid transaction unless it still waits for the issuer's cells. Every
  other step leaves this alone, because commits and failures are never taken back
  (`Onward`). The run has one client, who takes an issuer's cells; the theorem covers both
  kinds, and any number.

Every invariant that a passing run checks, and the refinement, is a theorem. Only
model-checked are the liveness properties (`SettlesUnlessExactMatch`, `HandedOverSettles`,
`ListSettles`), since liveness under fairness is outside what the prover does. The type
invariants of `TxBuilder` and `CkbFunding` are proved and not checked by a run.

## Not modelled, and the plan

To model, if the code around it grows: the token of the assets API, which is fetched when
missing and never again after a 401 (`service/base.ts:31`); the offline collector, whose cell
objects `prepareBtcTimeCellSpentUnsignedTx` changes (`btc-time.ts:145`); repeated entries in
the batch transfer's list of lock args (`btc-transfer.ts:279`); the limit of 255 cells, which
`RGBPP_TX_INPUTS_MAX_LENGTH` is checked against before the cells of other types are added.

Left out for good: PSBT construction and signing, addresses, molecule encodings and generated
schemas (pure conversions), HTTP, the NestJS service and the command-line side of the
examples.
