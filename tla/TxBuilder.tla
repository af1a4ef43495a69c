----------------------------- MODULE TxBuilder ------------------------------
(***************************************************************************)
(* The BTC transaction builder of packages/btc: TxBuilder.payFee and the   *)
(* two procedures it alternates, injectSatoshi (find the missing satoshi)  *)
(* and injectChange (give the surplus back), as createSendUtxosBuilder     *)
(* drives them.  One behaviour of this module is one call of               *)
(* createSendUtxosBuilder.                                                 *)
(*                                                                         *)
(* payFee does not know the fee before the transaction is built and the    *)
(* transaction depends on the fee, so it iterates: it rebuilds the         *)
(* transaction from the original inputs and outputs with the fee of the    *)
(* previous round until two consecutive fees differ by at most one.        *)
(* injectChange and injectSatoshi call each other in tail position, which  *)
(* is why one record "call" holds the locals of the call in progress.      *)
(***************************************************************************)
EXTENDS Sums, Sequences, SequencesExt

CONSTANTS
    NumUtxo,        \* number of UTXOs, in the order DataSource.getUtxos sorts them
    Value,          \* Value[u]: satoshi locked in UTXO u
    Listings,       \* the answers the service can give for the "from" address
    MinUtxo,        \* TxBuilder.minUtxoSatoshi
    FeeBase, FeePerInput, FeePerOutput, FeeJitter,  \* see Fees
    Address,        \* addresses an output can pay to
    Script,         \* stands for an output that has a script and no address
    Requests        \* the calls of createSendUtxosBuilder under consideration

Utxo == 1..NumUtxo

\* TxOutput, with minUtxoSatoshi resolved to the builder's default.
Output == [to: Address \cup {Script}, value: Nat, min: Nat,
           fixed: BOOLEAN, protected: BOOLEAN, opReturn: BOOLEAN]

\* SendUtxosProps.  "change" is changeAddress ?? from.
Request == [inputs: Seq(Utxo), outputs: Seq(Output), change: Address,
            excluded: SUBSET Utxo, deduct: BOOLEAN]

ASSUME ConstantsAssumption ==
    /\ NumUtxo \in Nat
    /\ Value \in [Utxo -> Nat]
    /\ MinUtxo \in Nat
    /\ {FeeBase, FeePerInput, FeePerOutput, FeeJitter} \subseteq Nat
    /\ Listings \subseteq SUBSET Utxo
    /\ Script \notin Address
    /\ Requests \subseteq Request

\* collectSatoshi asks for UTXOs of min_satoshi = minUtxoSatoshi at least.
ASSUME ListingsAssumption == \A list \in Listings : \A u \in list : Value[u] >= MinUtxo

NoChange == 0                   \* changeIndex = -1; indices start at 1 here

VARIABLES
    request,      \* the props of this call
    step,         \* where the call stands
    inputs,       \* TxBuilder.inputs
    outputs,      \* TxBuilder.outputs
    previousFee, currentFee,
    changeIndex,  \* currentChangeIndex
    call,         \* locals of the injectSatoshi or injectChange in progress
    cached        \* DataCache entry under payFee's internalCacheKey: {} or {list}

vars == <<request, step, inputs, outputs, previousFee, currentFee,
          changeIndex, call, cached>>

Steps == {"prepare", "loop", "change", "deduct", "collect", "again",
          "check", "fee", "done", "rejected", "unreachable", "insufficient"}
-----------------------------------------------------------------------------
(* summary(), the fee and the choice of UTXOs.                             *)

InputsTotal(S) == SumTo([u \in Utxo |-> IF u \in S THEN Value[u] ELSE 0], NumUtxo)
OutputsTotal(outs) == SumTo([i \in DOMAIN outs |-> outs[i].value], Len(outs))

OriginalInputs == ToSet(request.inputs)
Remaining == InputsTotal(inputs) - OutputsTotal(outputs)

\* The estimated fee: the virtual size grows with every input and output.
\* Signatures of the estimator's random key vary by a byte, which the rate
\* turns into at most FeeJitter satoshi.
Fees == {FeeBase + FeePerInput * Cardinality(inputs) + FeePerOutput * Len(outputs) + j :
            j \in 0..FeeJitter}

\* [bug] stops before the target is reached.
PickedBelow(candidates, target) ==
    {u \in candidates : InputsTotal({v \in candidates : v <= u}) < target}

\* UTXOs are taken in the listed order until the target is reached.
Picked(candidates, target) ==
    {u \in candidates : InputsTotal({v \in candidates : v < u}) < target}

\* The outputs injectChange may credit.
Creditable == {i \in DOMAIN outputs : ~outputs[i].fixed /\ outputs[i].to = request.change}

CanInjectChangeToOutputs ==
    \E i \in DOMAIN outputs : ~outputs[i].fixed /\ outputs[i].to \in {Script, request.change}

\* Steps 3 and 4 of injectSatoshi: the change counts as too small.
ChangeTooSmall ==
    CanInjectChangeToOutputs /\ call.change > 0 /\ call.change < MinUtxo
-----------------------------------------------------------------------------
(* Calls.  "keyed" tells whether the caller passed internalCacheKey and    *)
(* excludeUtxos: injectSatoshi does not hand them to injectChange.         *)

\* [bug] forgets internalCacheKey and excludeUtxos, as step 5 does.
InjectSatoshiUnkeyed(target, injectCollected, deduct, keyed) ==
    /\ step' = "deduct"
    /\ call' = [amount |-> target, collected |-> 0, change |-> 0, next |-> 1,
                injectCollected |-> injectCollected, deduct |-> deduct, keyed |-> FALSE]

InjectSatoshi(target, injectCollected, deduct, keyed) ==
    /\ step' = "deduct"
    /\ call' = [amount |-> target, collected |-> 0, change |-> 0, next |-> 1,
                injectCollected |-> injectCollected, deduct |-> deduct, keyed |-> keyed]

InjectChange(amount, keyed) ==
    /\ step' = "change"
    /\ call' = [amount |-> amount, collected |-> 0, change |-> 0, next |-> 1,
                injectCollected |-> FALSE, deduct |-> FALSE, keyed |-> keyed]

NoCall == [amount |-> 0, collected |-> 0, change |-> 0, next |-> 1,
           injectCollected |-> FALSE, deduct |-> FALSE, keyed |-> TRUE]

Return(index) ==
    /\ step' = "fee"
    /\ changeIndex' = index
    /\ call' = NoCall

\* The call rejects: payFee has no handler, so nothing cleans the cache.
Fail(reason) ==
    /\ step' = reason
    /\ UNCHANGED <<request, inputs, outputs, previousFee, currentFee,
                   changeIndex, call, cached>>
-----------------------------------------------------------------------------
(* createSendUtxosBuilder: the inputs and outputs of the caller.           *)

HasDuplicateInput == ~IsInjective(request.inputs)
HasDustOutput == \E i \in DOMAIN request.outputs :
    ~request.outputs[i].opReturn /\ request.outputs[i].value < request.outputs[i].min

\* prepareUtxoInputs throws (a public key is missing, an input is unconfirmed),
\* addInput meets a duplicate, or addOutput a dust value.
RejectRequest ==
    /\ step = "prepare"
    /\ Fail("rejected")

AddInputsAndOutputs ==
    /\ step = "prepare"
    /\ ~HasDuplicateInput
    /\ ~HasDustOutput
    /\ inputs' = OriginalInputs
    /\ outputs' = request.outputs
    /\ step' = "loop"
    /\ UNCHANGED <<request, previousFee, currentFee, changeIndex, call, cached>>

-----------------------------------------------------------------------------
(* payFee.                                                                 *)

NeedReturn == IF Remaining > 0 THEN Remaining ELSE 0
NeedCollect == IF Remaining < 0 THEN -Remaining ELSE 0
SafeToProcess == InputsTotal(inputs) > 0 \/ previousFee > 0

\* One satoshi is collected when nothing forces a first input into the transaction.
ProtectionAmount == IF SafeToProcess THEN 0 ELSE 1

\* The surplus beyond the fee goes back to the sender.
ReturnSurplus ==
    /\ step = "loop"
    /\ SafeToProcess /\ NeedReturn - previousFee > 0
    /\ InjectChange(NeedReturn - previousFee, TRUE)
    /\ UNCHANGED <<request, inputs, outputs, previousFee, currentFee, changeIndex, cached>>

\* The transaction cannot pay the fee yet: find the missing satoshi.
CollectShortage ==
    /\ step = "loop"
    /\ ~(SafeToProcess /\ NeedReturn - previousFee > 0)
    /\ InjectSatoshi(NeedCollect - NeedReturn + previousFee + ProtectionAmount,
                     FALSE, request.deduct, TRUE)
    /\ UNCHANGED <<request, inputs, outputs, previousFee, currentFee, changeIndex, cached>>

\* [bugs] a window that is too wide, and one that expects a fixpoint.
IsFeeRoughlyExpected(fee) == fee - previousFee \in -2..2
IsFeeRepeated(fee) == fee = previousFee

\* Whether the transaction built for previousFee is accepted at its real fee.
IsFeeExpected(fee) == fee - previousFee \in {-1, 0, 1}

\* The end of a round.  Two consecutive fees within one satoshi end the loop and
\* release the cached list; otherwise the next round starts from the original
\* transaction and the fee just computed.
CalculateFee ==
    /\ step = "fee"
    /\ \E fee \in Fees :
        /\ currentFee' = fee
        /\ \/ /\ IsFeeExpected(fee)
              /\ step' = "done"
              /\ cached' = {}
              /\ UNCHANGED <<inputs, outputs, previousFee>>
           \/ /\ ~IsFeeExpected(fee)
              /\ step' = "loop"
              /\ previousFee' = fee
              /\ inputs' = OriginalInputs
              /\ outputs' = request.outputs
              /\ UNCHANGED cached
    /\ UNCHANGED <<request, changeIndex, call>>
-----------------------------------------------------------------------------
(* injectChange.                                                           *)

\* The first output that is not fixed and pays to the change address is credited.
CreditOutput ==
    /\ step = "change"
    /\ \E i \in Creditable :
        /\ \A j \in Creditable : i <= j
        /\ outputs' = [outputs EXCEPT ![i].value = @ + call.amount]
        /\ Return(i)
    /\ UNCHANGED <<request, inputs, previousFee, currentFee, cached>>

\* [bug] puts the change output first.
PrependChange ==
    /\ step = "change"
    /\ Creditable = {}
    /\ call.amount >= MinUtxo
    /\ outputs' = <<[to |-> request.change, value |-> call.amount,
                     min |-> MinUtxo, fixed |-> FALSE, protected |-> FALSE,
                     opReturn |-> FALSE]>> \o outputs
    /\ Return(1)
    /\ UNCHANGED <<request, inputs, previousFee, currentFee, cached>>
\* [bug] appends a change output of any value.
AppendAnyChange ==
    /\ step = "change"
    /\ Creditable = {}
    /\ outputs' = Append(outputs, [to |-> request.change, value |-> call.amount,
                       min |-> MinUtxo, fixed |-> FALSE, protected |-> FALSE,
                       opReturn |-> FALSE])
    /\ Return(Len(outputs) + 1)
    /\ UNCHANGED <<request, inputs, previousFee, currentFee, cached>>

\* No such output: a new one is appended if the change is worth an output ...
AppendChange ==
    /\ step = "change"
    /\ Creditable = {}
    /\ call.amount >= MinUtxo
    /\ outputs' = Append(outputs, [to |-> request.change, value |-> call.amount,
                       min |-> MinUtxo, fixed |-> FALSE, protected |-> FALSE,
                       opReturn |-> FALSE])
    /\ Return(Len(outputs) + 1)
    /\ UNCHANGED <<request, inputs, previousFee, currentFee, cached>>

\* ... and more satoshi are collected if it is not.
EnlargeChange ==
    /\ step = "change"
    /\ Creditable = {}
    /\ call.amount < MinUtxo
    /\ InjectSatoshi(call.amount, TRUE, FALSE, call.keyed)
    /\ UNCHANGED <<request, inputs, outputs, previousFee, currentFee, changeIndex, cached>>
-----------------------------------------------------------------------------
(* injectSatoshi.                                                          *)

Lesser(a, b) == IF a < b THEN a ELSE b

\* What step 1 takes from output o when r satoshi are missing: a protected
\* output keeps its minimum; another one keeps it too, unless it is used up.
Deductible(o, r) ==
    IF ~o.protected /\ o.value <= r THEN o.value ELSE Lesser(o.value - o.min, r)

\* Step 1 goes on while there is an output to pass over or to deduct from.
Deducting ==
    /\ call.deduct
    /\ call.next <= Len(outputs)
    /\ outputs[call.next].fixed \/ call.collected < call.amount

\* Step 1, one output: the loop passes over fixed outputs and removes an
\* unprotected one that it emptied.
DeductFromOutput ==
    /\ step = "deduct" /\ Deducting
    /\ LET o == outputs[call.next]
           taken == Deductible(o, call.amount - call.collected)
       IN  \/ /\ o.fixed
              /\ call' = [call EXCEPT !.next = @ + 1]
              /\ UNCHANGED outputs
           \/ /\ ~o.fixed /\ ~o.protected /\ o.value = taken
              /\ outputs' = RemoveAt(outputs, call.next)
              /\ call' = [call EXCEPT !.collected = @ + taken]
           \/ /\ ~o.fixed /\ (o.protected \/ o.value # taken)
              /\ outputs' = [outputs EXCEPT ![call.next].value = @ - taken]
              /\ call' = [call EXCEPT !.collected = @ + taken, !.next = @ + 1]
    /\ UNCHANGED <<request, step, inputs, previousFee, currentFee, changeIndex, cached>>

EndDeduction ==
    /\ step = "deduct" /\ ~Deducting
    /\ step' = IF call.collected < call.amount THEN "collect" ELSE "again"
    /\ UNCHANGED <<request, inputs, outputs, previousFee, currentFee, changeIndex, call, cached>>

\* [bug] the second collection of a call overwrites the result of the first.
CollectOverwrites(target) ==
    \E list \in IF call.keyed /\ cached # {} THEN cached ELSE Listings :
        LET excluded == inputs \cup (IF call.keyed THEN request.excluded ELSE {})
            picked == Picked(list \ excluded, target)
            collected == InputsTotal(picked)
        IN  /\ inputs' = inputs \cup picked
            /\ call' = [call EXCEPT
                  !.collected = collected,
                  !.change = IF call.injectCollected THEN collected + call.amount
                                                     ELSE collected - call.amount]
            /\ cached' = IF call.keyed THEN {list} ELSE cached
\* [bug] the collected inputs replace those of the caller.
CollectReplaces(target) ==
    \E list \in IF call.keyed /\ cached # {} THEN cached ELSE Listings :
        LET picked == Picked(list \ request.excluded, target)
            collected == call.collected + InputsTotal(picked)
        IN  /\ inputs' = picked
            /\ call' = [call EXCEPT !.collected = collected,
                                    !.change = collected - call.amount]
            /\ cached' = IF call.keyed THEN {list} ELSE cached

\* _collect: DataSource.collectSatoshi from the cached list, or from a fresh
\* answer of the service, which is cached only for a keyed call.
Collect(target) ==
    \E list \in IF call.keyed /\ cached # {} THEN cached ELSE Listings :
        LET excluded == inputs \cup (IF call.keyed THEN request.excluded ELSE {})
            picked == Picked(list \ excluded, target)
            collected == call.collected + InputsTotal(picked)
        IN  /\ inputs' = inputs \cup picked
            /\ call' = [call EXCEPT
                  !.collected = collected,
                  !.change = IF call.injectCollected THEN collected + call.amount
                                                     ELSE collected - call.amount]
            /\ cached' = IF call.keyed THEN {list} ELSE cached

\* Step 2.
CollectMissing ==
    /\ step = "collect"
    /\ Collect(call.amount - call.collected)
    /\ step' = "again"
    /\ UNCHANGED <<request, outputs, previousFee, currentFee, changeIndex>>

\* Step 3.
CollectForChange ==
    /\ step = "again"
    /\ IF ChangeTooSmall THEN Collect(MinUtxo - call.change)
                         ELSE UNCHANGED <<inputs, call, cached>>
    /\ step' = "check"
    /\ UNCHANGED <<request, outputs, previousFee, currentFee, changeIndex>>

\* The service may fail to answer a fetch.
FetchFails ==
    /\ \/ step = "collect"
       \/ step = "again" /\ ChangeTooSmall
    /\ ~(call.keyed /\ cached # {})
    /\ Fail("unreachable")

\* Step 4: INSUFFICIENT_UTXO.
InsufficientUtxo ==
    /\ step = "check"
    /\ call.collected < call.amount \/ ChangeTooSmall
    /\ Fail("insufficient")

\* Step 5: injectChange without internalCacheKey and excludeUtxos.
SettleChange ==
    /\ step = "check"
    /\ ~(call.collected < call.amount \/ ChangeTooSmall)
    /\ IF call.change > 0
       THEN InjectChange(call.change, FALSE) /\ UNCHANGED changeIndex
       ELSE Return(NoChange)
    /\ UNCHANGED <<request, inputs, outputs, previousFee, currentFee, cached>>
-----------------------------------------------------------------------------
Init ==
    /\ request \in Requests
    /\ step = "prepare"
    /\ inputs = {}
    /\ outputs = <<>>
    /\ previousFee = 0 /\ currentFee = 0
    /\ changeIndex = NoChange
    /\ call = NoCall
    /\ cached = {}

Next ==
    \/ RejectRequest \/ AddInputsAndOutputs
    \/ ReturnSurplus \/ CollectShortage \/ CalculateFee
    \/ CreditOutput \/ AppendChange \/ EnlargeChange
    \/ DeductFromOutput \/ EndDeduction
    \/ CollectMissing \/ CollectForChange \/ FetchFails
    \/ InsufficientUtxo \/ SettleChange

Spec == Init /\ [][Next]_vars
\* A pending promise is eventually settled and its continuation runs.
FairSpec == Spec /\ WF_vars(Next)
-----------------------------------------------------------------------------
(* Correctness.                                                            *)

Call == [amount: Int, collected: Int, change: Int, next: Nat \ {0},
         injectCollected: BOOLEAN, deduct: BOOLEAN, keyed: BOOLEAN]

\* The types of the builder's state.
TypeOK ==
    /\ request \in Request
    /\ step \in Steps
    /\ inputs \subseteq Utxo
    /\ outputs \in Seq(Output)
    /\ previousFee \in Nat /\ currentFee \in Nat
    /\ changeIndex \in Nat
    /\ call \in Call
    /\ cached \subseteq Listings

\* What a round aims at: the fee of the previous round, or one satoshi when nothing
\* forces an input into the transaction yet.
Goal == previousFee +
    (IF InputsTotal(OriginalInputs) > 0 \/ previousFee > 0 THEN 0 ELSE 1)

\* No satoshi is lost or made up between deduction, collection and change: at every
\* step of a round the surplus of the transaction is the round's goal, corrected by
\* what the call in progress still has to find or to give back.
Conservation ==
    LET found == call.collected - call.amount
        grown == call.collected + call.amount
    IN  /\ step = "change" => Remaining = Goal + call.amount
        /\ step \in {"deduct", "collect", "again", "check"} =>
               Remaining = Goal + (IF call.injectCollected THEN grown ELSE found)
        /\ step \in {"again", "check"} =>
               \/ call.change = (IF call.injectCollected THEN grown ELSE found)
               \/ call.change = 0 /\ found = 0 /\ ~call.injectCollected
        /\ step = "fee" => Remaining = Goal

\* A built transaction pays the estimated fee up to one satoshi: whatever was
\* deducted, collected and returned on the way, inputs - outputs is the fee of the
\* last round (the comment above isFeeExpected in payFee).
FeePaid == step = "done" => Remaining - currentFee \in {-1, 0, 1}

\* Deduction, rounds and change never leave a dust output in the transaction:
\* every output but OP_RETURN keeps its own minimum.
NoDust == \A i \in DOMAIN outputs :
              ~outputs[i].opReturn => outputs[i].value >= outputs[i].min

\* The outputs before the first one that is not fixed keep their index: RGB++ binds
\* a CKB cell to a (transaction, vout) before the transaction is completed here.
LeadingFixedKept ==
    step \notin {"prepare", "rejected"} =>
        \A k \in DOMAIN request.outputs :
            (\A i \in 1..k : request.outputs[i].fixed) =>
                /\ k <= Len(outputs)
                /\ outputs[k] = request.outputs[k]

\* Deduction takes a negative amount from an OP_RETURN output below its minimum.
NothingBelowMinimum == \A i \in DOMAIN request.outputs :
    request.outputs[i].fixed \/ request.outputs[i].value >= request.outputs[i].min

\* The inputs of the caller are never dropped, and nobody else's are touched: what
\* is added was listed for the "from" address.
InputsAccounted ==
    step \notin {"prepare", "rejected"} =>
        /\ OriginalInputs \subseteq inputs
        /\ inputs \subseteq OriginalInputs \cup UNION Listings

\* INSUFFICIENT_UTXO is thrown only if the service listed less than the missing
\* satoshi plus the dust limit of a change output.
Shortage == OutputsTotal(request.outputs) - InputsTotal(OriginalInputs) + previousFee + 1
InsufficientOnlyIfTight ==
    step = "insufficient" /\ NothingBelowMinimum =>
        \E list \in Listings :
            InputsTotal(list \ (OriginalInputs \cup request.excluded)) < Shortage + MinUtxo

\* A protected output that pays to the change address can always take the change,
\* so that no excluded UTXO is collected (sendRbf keeps the change output this way).
HasChangeOutput == \E i \in DOMAIN request.outputs :
    LET o == request.outputs[i] IN ~o.fixed /\ o.protected /\ o.to = request.change
ExcludedUnspent == inputs \cap (request.excluded \ OriginalInputs) = {}
ExcludedUnspentWithChangeOutput == HasChangeOutput => ExcludedUnspent

\* payFee settles: the fees of consecutive rounds converge.
PayFeeSettles == <>(step \in {"done", "rejected", "unreachable", "insufficient"})

\* A payFee that never settles is one that finds, again and again, a set of inputs
\* that pays outputs and fee exactly, and so needs no change output, or that may deduct
\* from an output neither fixed nor protected: PayFeeSettles holds of every other call.
ExactMatch == step = "fee" /\ changeIndex = NoChange
MayDeduct == request.deduct /\ \E i \in DOMAIN request.outputs :
    ~ request.outputs[i].fixed /\ ~ request.outputs[i].protected
SettlesUnlessExactMatch == PayFeeSettles \/ []<>ExactMatch \/ MayDeduct
=============================================================================
