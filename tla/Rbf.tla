--------------------------------- MODULE Rbf --------------------------------
(***************************************************************************)
(* Replacing a transaction that is not mined yet (sendRbf of packages/btc).*)
(* createSendRbfBuilder takes the inputs and outputs of the sent           *)
(* transaction, says which output is the change, and has TxBuilder build   *)
(* them once more at a higher rate; a builder that comes back without a    *)
(* higher fee is refused.                                                  *)
(*                                                                         *)
(* The callers here pass onlyConfirmedUtxos = false: the service may list  *)
(* the outputs of the very transaction that is replaced.                   *)
(***************************************************************************)
EXTENDS TxBuilder

CONSTANTS
    Sent,          \* transactions to replace; "own" are their outputs to the sender, as UTXOs
    Calls,         \* SendRbfProps; changeIndex counts from 1, NoChange if it is undefined
    NoAddress,     \* changeAddress = undefined
    FeeRate,       \* rate of the replacement: FeeBase and the others are fees at this rate
    Fetched        \* the fastestFee answers sendRbf may get; the builder asks for its own

SentOutput == [to: Address \cup {Script}, value: Nat, opReturn: BOOLEAN]

ASSUME RbfAssumption ==
    /\ Sent \subseteq [inputs: Seq(Utxo), outputs: Seq(SentOutput), own: SUBSET Utxo]
    /\ Calls \subseteq [from: Address, changeIndex: Nat, changeAddress: Address \cup {NoAddress},
                        rateGiven: BOOLEAN, validOutputs: BOOLEAN, greater: BOOLEAN]
    /\ FeeRate \in Nat /\ Fetched \subseteq Nat /\ FeeBase > 0
    \* An output that is not an OP_RETURN script is rebuilt with the address of its script.
    /\ \A s \in Sent : \A i \in DOMAIN s.outputs :
           ~ s.outputs[i].opReturn => s.outputs[i].to \in Address

VARIABLES
    sent,       \* previousTx
    props

rbfVars == <<vars, sent, props>>

Index == props.changeIndex
PreviousFee == InputsTotal(ToSet(sent.inputs)) - OutputsTotal(sent.outputs)

\* floor(fee / virtual size), with the size as the fee at FeeRate over FeeRate.
PreviousRate == (PreviousFee * FeeRate) \div
    (FeeBase + FeePerInput * Len(sent.inputs) + FeePerOutput * Len(sent.outputs))

\* The outputs of the sent transaction stay what they are.
Rebuilt == [i \in DOMAIN sent.outputs |->
    LET o == sent.outputs[i]
    IN  [to |-> o.to, value |-> o.value, opReturn |-> o.opReturn, fixed |-> TRUE,
         protected |-> FALSE,
         min |-> IF o.opReturn \/ props.validOutputs THEN MinUtxo ELSE o.value]]

\* The index names an output with an address, that of changeAddress if both are given.
ChangeFound ==
    Index # NoChange =>
        /\ Index \in DOMAIN sent.outputs
        /\ ~ sent.outputs[Index].opReturn
        /\ props.changeAddress \in {NoAddress, sent.outputs[Index].to}

ChangeAddress ==
    CASE props.changeAddress # NoAddress -> props.changeAddress
      [] props.changeAddress = NoAddress /\ Index # NoChange -> sent.outputs[Index].to
      [] OTHER -> props.from

IsLastOutput == Index # NoChange /\ Index = Len(sent.outputs)

\* [bug] the change output may be used up.
OutputsUnprotected ==
    CASE Index = NoChange -> Rebuilt
      [] IsLastOutput -> Front(Rebuilt)
      [] OTHER -> [Rebuilt EXCEPT ![Index].min = MinUtxo, ![Index].value = MinUtxo,
                                  ![Index].fixed = FALSE]

\* The change gives up its value: the last output is dropped, to come back if there is
\* change again; another one shrinks to the dust limit and keeps its place.
Outputs ==
    CASE Index = NoChange -> Rebuilt
      [] IsLastOutput -> Front(Rebuilt)
      [] OTHER -> [Rebuilt EXCEPT ![Index] =
                      [to |-> @.to, value |-> MinUtxo, min |-> MinUtxo, fixed |-> FALSE,
                       protected |-> TRUE, opReturn |-> @.opReturn]]

RateRaised ==
    props.greater =>
        \E rate \in IF props.rateGiven THEN {FeeRate} ELSE Fetched : rate > PreviousRate

\* createSendRbfBuilder up to the call of createSendUtxosBuilder.
CreateSendRbf ==
    /\ step = "rebuild"
    /\ ChangeFound /\ RateRaised
    /\ request' = [inputs |-> sent.inputs, outputs |-> Outputs, change |-> ChangeAddress,
                   excluded |-> sent.own, deduct |-> TRUE]
    /\ step' = "prepare"
    /\ UNCHANGED <<inputs, outputs, previousFee, currentFee, changeIndex, call, cached, sent, props>>

\* An input that the service does not know, a change output that is not there, a low rate.
RefuseRbf ==
    /\ step = "rebuild"
    /\ Fail("refused")
    /\ UNCHANGED <<sent, props>>

Build == Next /\ UNCHANGED <<sent, props>>

\* [bug] any fee will do.
AcceptRbf ==
    /\ step = "done"
    /\ Fail("replaced")
    /\ UNCHANGED <<sent, props>>

\* The builder's fee has to be higher, too.
FinishRbf ==
    /\ step = "done"
    /\ Fail(IF props.greater /\ currentFee <= PreviousFee THEN "refused" ELSE "replaced")
    /\ UNCHANGED <<sent, props>>

RbfInit ==
    /\ sent \in Sent /\ props \in Calls
    /\ request = [inputs |-> <<>>, outputs |-> <<>>, change |-> props.from, excluded |-> {},
                  deduct |-> TRUE]
    /\ step = "rebuild"
    /\ inputs = {} /\ outputs = <<>>
    /\ previousFee = 0 /\ currentFee = 0 /\ changeIndex = NoChange
    /\ call = NoCall /\ cached = {}

RbfNext == CreateSendRbf \/ RefuseRbf \/ Build \/ FinishRbf

RbfSpec == RbfInit /\ [][RbfNext]_rbfVars
-----------------------------------------------------------------------------
(* Correctness.                                                            *)

\* Every output but the change is in the replacement, at its index (a commitment and the
\* outputs it binds cells to), and nobody is paid who was not before, or is owed the change.
ReceiversKept ==
    step = "replaced" =>
        /\ \A i \in DOMAIN sent.outputs \ {Index} :
               /\ i \in DOMAIN outputs
               /\ outputs[i].to = sent.outputs[i].to /\ outputs[i].value = sent.outputs[i].value
        /\ \A i \in DOMAIN outputs :
               i \notin DOMAIN sent.outputs \ {Index} => outputs[i].to = ChangeAddress

\* The replacement conflicts with the sent transaction and never pays less than it: the
\* fee that is compared is the estimate, which what is paid may miss by one satoshi.
FeeNeverLower ==
    step = "replaced" =>
        /\ ToSet(sent.inputs) \subseteq inputs
        /\ props.greater => Remaining >= PreviousFee
=============================================================================
