--------------------------- MODULE TxBuilderProofs --------------------------
(***************************************************************************)
(* Theorems about TxBuilder, for every wallet, every fee rate and every    *)
(* request: no satoshi is lost between deduction, collection and change,   *)
(* so that a built transaction pays the estimated fee; no output becomes   *)
(* dust; the outputs RGB++ commits to stay where they are; nobody's UTXOs  *)
(* but the sender's are spent, and none that was excluded; and a call      *)
(* gives up only when the wallet is short.  Rbf drives the same builder,   *)
(* and its theorems follow: for every sent transaction, who is paid, what  *)
(* is paid for the replacement, and what it must not spend.                *)
(***************************************************************************)
EXTENDS Rbf, SequenceTheorems, FiniteSetTheorems

-----------------------------------------------------------------------------
(* Totals.                                                                 *)

ValueIn(S) == [u \in Utxo |-> IF u \in S THEN Value[u] ELSE 0]
ValueOf(outs) == [i \in DOMAIN outs |-> outs[i].value]

\* The totals of summary() are natural numbers.
LEMMA InputsTotalNat == \A S : InputsTotal(S) \in Nat
<1> TAKE S
<1>1. \A u \in 1..NumUtxo : ValueIn(S)[u] \in Nat
  BY ConstantsAssumption DEF ValueIn, Utxo
<1>2. NumUtxo \in Nat
  BY ConstantsAssumption
<1>3. SumTo(ValueIn(S), NumUtxo) \in Nat
  BY <1>1, <1>2, SumNat
<1> QED BY <1>3 DEF InputsTotal, ValueIn

LEMMA ValueOfOutput ==
    ASSUME NEW outs \in Seq(Output), NEW i \in 1..Len(outs)
    PROVE  ValueOf(outs)[i] = outs[i].value /\ outs[i].value \in Nat
<1>1. i \in DOMAIN outs /\ outs[i] \in Output
  OBVIOUS
<1>2. outs[i].value \in Nat
  BY <1>1 DEF Output
<1> QED BY <1>1, <1>2 DEF ValueOf

LEMMA OutputsTotalNat ==
    ASSUME NEW outs \in Seq(Output)
    PROVE  OutputsTotal(outs) \in Nat
<1>1. \A i \in 1..Len(outs) : ValueOf(outs)[i] \in Nat
  BY ValueOfOutput
<1>2. Len(outs) \in Nat
  OBVIOUS
<1>3. SumTo(ValueOf(outs), Len(outs)) \in Nat
  BY <1>1, <1>2, SumNat
<1> QED BY <1>3 DEF OutputsTotal, ValueOf

\* Collected UTXOs add their value: collectSatoshi never returns an input again.
LEMMA InputsTotalUnion ==
    ASSUME NEW S, NEW T, S \cap T = {}
    PROVE  InputsTotal(S \cup T) = InputsTotal(S) + InputsTotal(T)
<1>1. \A u \in 1..NumUtxo : /\ ValueIn(S)[u] \in Int
                            /\ ValueIn(T)[u] \in Int
                            /\ ValueIn(S \cup T)[u] = ValueIn(S)[u] + ValueIn(T)[u]
  BY ConstantsAssumption DEF ValueIn, Utxo
<1>2. NumUtxo \in Nat
  BY ConstantsAssumption
<1>3. SumTo(ValueIn(S \cup T), NumUtxo) = SumTo(ValueIn(S), NumUtxo) + SumTo(ValueIn(T), NumUtxo)
  BY <1>1, <1>2, SumPlus
<1> QED BY <1>3 DEF InputsTotal, ValueIn

\* Changing the value of one output changes the total by the same amount.
LEMMA OutputsTotalChange ==
    ASSUME NEW outs \in Seq(Output), NEW i \in DOMAIN outs, NEW v \in Nat
    PROVE  OutputsTotal([outs EXCEPT ![i].value = v]) = OutputsTotal(outs) + v - outs[i].value
<1> DEFINE new == [outs EXCEPT ![i].value = v]
<1>1. Len(new) = Len(outs) /\ i \in 1..Len(outs) /\ Len(outs) \in Nat
  OBVIOUS
<1>2. new \in Seq(Output)
  <2>1. outs[i] \in Output
    OBVIOUS
  <2>2. [outs[i] EXCEPT !.value = v] \in Output
    BY <2>1 DEF Output
  <2> QED BY <2>2
<1>3. new[i].value = v
  <2>1. outs[i] \in Output
    OBVIOUS
  <2> QED BY <2>1 DEF Output
<1>4. \A k \in 1..Len(outs) : k # i => new[k] = outs[k]
  OBVIOUS
<1> HIDE DEF new
<1>5. \A k \in 1..Len(outs) : ValueOf(outs)[k] \in Int /\ ValueOf(new)[k] \in Int
  BY <1>1, <1>2, ValueOfOutput
<1>6. \A k \in 1..Len(outs) : k # i => ValueOf(new)[k] = ValueOf(outs)[k]
  BY <1>1, <1>2, <1>4, ValueOfOutput
<1>7. ValueOf(new)[i] = v /\ ValueOf(outs)[i] = outs[i].value
  BY <1>1, <1>2, <1>3, ValueOfOutput
<1>8. SumTo(ValueOf(new), Len(outs)) =
          SumTo(ValueOf(outs), Len(outs)) + ValueOf(new)[i] - ValueOf(outs)[i]
  BY <1>1, <1>5, <1>6, SumUpdate
<1>9. /\ OutputsTotal(new) = SumTo(ValueOf(new), Len(outs))
      /\ OutputsTotal(outs) = SumTo(ValueOf(outs), Len(outs))
  BY <1>1 DEF OutputsTotal, ValueOf
<1> QED BY <1>7, <1>8, <1>9 DEF new

\* An appended output adds its value.
LEMMA OutputsTotalAppend ==
    ASSUME NEW outs \in Seq(Output), NEW o \in Output
    PROVE  OutputsTotal(Append(outs, o)) = OutputsTotal(outs) + o.value
<1> DEFINE new == Append(outs, o)
           n == Len(outs)
<1>1. n \in Nat /\ new \in Seq(Output) /\ Len(new) = n + 1 /\ new[n + 1] = o
  OBVIOUS
<1>2. \A k \in 1..n : new[k] = outs[k]
  OBVIOUS
<1> HIDE DEF new
<1>3. \A k \in 1..(n + 1) : ValueOf(new)[k] \in Int
  BY <1>1, ValueOfOutput
<1>4. \A k \in 1..n : ValueOf(outs)[k] \in Int /\ ValueOf(new)[k] = ValueOf(outs)[k]
  BY <1>1, <1>2, ValueOfOutput
<1>5. ValueOf(new)[n + 1] = o.value
  BY <1>1, ValueOfOutput
<1>6. /\ OutputsTotal(new) = SumTo(ValueOf(new), n + 1)
      /\ OutputsTotal(outs) = SumTo(ValueOf(outs), n)
  BY <1>1 DEF OutputsTotal, ValueOf
<1> HIDE DEF n
<1>7. SumTo(ValueOf(new), n + 1) = SumTo(ValueOf(new), n) + ValueOf(new)[n + 1]
  BY <1>1, <1>3, SumOneMore
<1>8. SumTo(ValueOf(outs), n) = SumTo(ValueOf(new), n)
  BY <1>1, <1>4, SumSame
<1> QED BY <1>5, <1>6, <1>7, <1>8 DEF new

\* RemoveAt drops one element and shifts those behind it.
LEMMA RemoveAtProperties ==
    ASSUME NEW S, NEW s \in Seq(S), NEW i \in 1..Len(s)
    PROVE  /\ RemoveAt(s, i) \in Seq(S)
           /\ Len(RemoveAt(s, i)) = Len(s) - 1
           /\ \A k \in 1..(Len(s) - 1) :
                  RemoveAt(s, i)[k] = IF k < i THEN s[k] ELSE s[k + 1]
<1> DEFINE a == SubSeq(s, 1, i - 1)
           b == SubSeq(s, i + 1, Len(s))
<1>1. a \in Seq(S) /\ Len(a) = i - 1 /\ \A k \in 1..(i - 1) : a[k] = s[k]
  OBVIOUS
<1>2. b \in Seq(S) /\ Len(b) = Len(s) - i /\ \A k \in 1..(Len(s) - i) : b[k] = s[i + k]
  OBVIOUS
<1>3. RemoveAt(s, i) = a \o b
  BY DEF RemoveAt
<1> HIDE DEF a, b
<1>4. /\ a \o b \in Seq(S) /\ Len(a \o b) = Len(a) + Len(b)
      /\ \A k \in 1..(Len(a) + Len(b)) :
             (a \o b)[k] = IF k <= Len(a) THEN a[k] ELSE b[k - Len(a)]
  BY <1>1, <1>2, ConcatProperties
<1>5. Len(a) + Len(b) = Len(s) - 1 /\ Len(s) \in Nat
  BY <1>1, <1>2
<1>6. ASSUME NEW k \in 1..(Len(s) - 1)
      PROVE  (a \o b)[k] = IF k < i THEN s[k] ELSE s[k + 1]
  <2>1. (a \o b)[k] = IF k <= i - 1 THEN a[k] ELSE b[k - (i - 1)]
    BY <1>1, <1>4, <1>5
  <2>2. CASE k < i
    BY <2>1, <2>2, <1>1
  <2>3. CASE k >= i
    <3>1. k - (i - 1) \in 1..(Len(s) - i) /\ i + (k - (i - 1)) = k + 1 /\ ~(k <= i - 1)
      BY <2>3
    <3>2. b[k - (i - 1)] = s[k + 1]
      BY <3>1, <1>2
    <3> QED BY <2>1, <2>3, <3>1, <3>2
  <2> QED BY <2>2, <2>3, <1>5
<1> QED BY <1>3, <1>4, <1>5, <1>6

\* A removed output takes its value with it.
LEMMA OutputsTotalRemove ==
    ASSUME NEW outs \in Seq(Output), NEW i \in DOMAIN outs
    PROVE  OutputsTotal(RemoveAt(outs, i)) = OutputsTotal(outs) - outs[i].value
<1> DEFINE new == RemoveAt(outs, i)
           n == Len(outs) - 1
<1>1. i \in 1..Len(outs) /\ i \in 1..(n + 1) /\ n \in Nat /\ n + 1 = Len(outs)
  OBVIOUS
<1>2. /\ new \in Seq(Output) /\ Len(new) = n
      /\ \A k \in 1..n : new[k] = IF k < i THEN outs[k] ELSE outs[k + 1]
  BY <1>1, RemoveAtProperties
<1> HIDE DEF new, n
<1>3. \A k \in 1..(n + 1) : ValueOf(outs)[k] \in Int
  BY <1>1, ValueOfOutput
<1>4. \A k \in 1..n : ValueOf(new)[k] = IF k < i THEN ValueOf(outs)[k] ELSE ValueOf(outs)[k + 1]
  <2> TAKE k \in 1..n
  <2>1. k \in 1..Len(outs) /\ k + 1 \in 1..Len(outs)
    BY <1>1
  <2>2. ValueOf(outs)[k] = outs[k].value /\ ValueOf(outs)[k + 1] = outs[k + 1].value
    BY <2>1, ValueOfOutput
  <2>3. ValueOf(new)[k] = new[k].value
    BY <1>2, ValueOfOutput
  <2> QED BY <2>2, <2>3, <1>2
<1>5. SumTo(ValueOf(new), n) = SumTo(ValueOf(outs), n + 1) - ValueOf(outs)[i]
  BY <1>1, <1>3, <1>4, SumRemove
<1>6. /\ OutputsTotal(new) = SumTo(ValueOf(new), n)
      /\ OutputsTotal(outs) = SumTo(ValueOf(outs), n + 1)
  BY <1>1, <1>2 DEF OutputsTotal, ValueOf
<1>7. ValueOf(outs)[i] = outs[i].value
  BY <1>1, ValueOfOutput
<1> QED BY <1>5, <1>6, <1>7 DEF new
-----------------------------------------------------------------------------
(* Types.                                                                  *)

LEMMA RequestFields ==
    ASSUME request \in Request
    PROVE  /\ request.outputs \in Seq(Output)
           /\ request.change \in Address
           /\ request.deduct \in BOOLEAN
           /\ OriginalInputs \subseteq Utxo
<1>1. request.inputs \in Seq(Utxo)
  BY DEF Request
<1>2. OriginalInputs \subseteq Utxo
  BY <1>1 DEF OriginalInputs, ToSet
<1> QED BY <1>2 DEF Request

LEMMA RemainingInt == TypeOK => Remaining \in Int
BY InputsTotalNat, OutputsTotalNat DEF Remaining, TypeOK

LEMMA FeesNat == TypeOK => Fees \subseteq Nat
<1>1. SUFFICES ASSUME TypeOK, NEW j \in 0..FeeJitter
               PROVE  FeeBase + FeePerInput * Cardinality(inputs)
                        + FeePerOutput * Len(outputs) + j \in Nat
  BY DEF Fees
<1>2. Cardinality(inputs) \in Nat
  <2>1. IsFiniteSet(Utxo)
    BY ConstantsAssumption, FS_Interval DEF Utxo
  <2>2. IsFiniteSet(inputs)
    BY <1>1, <2>1, FS_Subset DEF TypeOK
  <2> QED BY <2>2, FS_CardinalityType
<1>3. Len(outputs) \in Nat
  BY <1>1 DEF TypeOK
<1>4. FeeBase \in Nat /\ FeePerInput \in Nat /\ FeePerOutput \in Nat /\ FeeJitter \in Nat
  BY ConstantsAssumption
<1>5. FeePerInput * Cardinality(inputs) \in Nat /\ FeePerOutput * Len(outputs) \in Nat
  BY <1>2, <1>3, <1>4
<1> QED BY <1>4, <1>5

\* Deduction leaves a natural number of satoshi in the output.
LEMMA DeductibleInt ==
    ASSUME NEW o \in Output, NEW r \in Int, r > 0
    PROVE  /\ Deductible(o, r) \in Int
           /\ Deductible(o, r) <= r
           /\ o.value - Deductible(o, r) \in Nat
<1>1. o.value \in Nat /\ o.min \in Nat /\ o.protected \in BOOLEAN
  BY DEF Output
<1> QED BY <1>1 DEF Deductible, Lesser

\* The fields of calls and outputs, before and after an update.
LEMMA CallFields ==
    ASSUME NEW c \in Call
    PROVE  /\ c.amount \in Int /\ c.collected \in Int /\ c.change \in Int
           /\ c.next \in Nat \ {0} /\ c.injectCollected \in BOOLEAN
           /\ c.deduct \in BOOLEAN /\ c.keyed \in BOOLEAN
BY DEF Call

LEMMA OutputFields ==
    ASSUME NEW o \in Output
    PROVE  /\ o.value \in Nat /\ o.min \in Nat /\ o.fixed \in BOOLEAN
           /\ o.protected \in BOOLEAN /\ o.opReturn \in BOOLEAN
BY DEF Output

LEMMA OutputValued ==
    ASSUME NEW o \in Output, NEW v \in Nat, NEW p, p = [o EXCEPT !.value = v]
    PROVE  /\ p \in Output
           /\ p.value = v
           /\ p.to = o.to /\ p.min = o.min /\ p.fixed = o.fixed
           /\ p.protected = o.protected /\ p.opReturn = o.opReturn
BY DEF Output

\* Collect adds UTXOs that are not inputs yet, and accounts for them.
LEMMA CollectEffect ==
    ASSUME TypeOK, NEW target, Collect(target)
    PROVE  /\ inputs' \subseteq Utxo /\ inputs \subseteq inputs'
           /\ cached' \subseteq Listings
           /\ call' \in Call
           /\ call'.collected - call.collected \in Nat
           /\ InputsTotal(inputs') = InputsTotal(inputs) + (call'.collected - call.collected)
           /\ call'.change = IF call.injectCollected THEN call'.collected + call.amount
                                                     ELSE call'.collected - call.amount
           /\ call'.amount = call.amount /\ call'.injectCollected = call.injectCollected
           /\ call'.keyed = call.keyed /\ call'.deduct = call.deduct
           /\ call.keyed => (inputs' \ inputs) \cap request.excluded = {}
           /\ inputs' \subseteq inputs \cup UNION Listings
<1>1. PICK list \in (IF call.keyed /\ cached # {} THEN cached ELSE Listings) :
        LET excluded == inputs \cup (IF call.keyed THEN request.excluded ELSE {})
            picked == Picked(list \ excluded, target)
            collected == call.collected + InputsTotal(picked)
        IN  /\ inputs' = inputs \cup picked
            /\ call' = [call EXCEPT
                  !.collected = collected,
                  !.change = IF call.injectCollected THEN collected + call.amount
                                                     ELSE collected - call.amount]
            /\ cached' = IF call.keyed THEN {list} ELSE cached
  BY DEF Collect
<1> DEFINE excluded == inputs \cup (IF call.keyed THEN request.excluded ELSE {})
           picked == Picked(list \ excluded, target)
           total == call.collected + InputsTotal(picked)
           change == IF call.injectCollected THEN total + call.amount ELSE total - call.amount
<1>2. list \in Listings
  BY DEF TypeOK
<1>3. picked \subseteq Utxo /\ inputs \cap picked = {} /\ picked \subseteq UNION Listings
  BY <1>2, ConstantsAssumption DEF Picked
<1>4. call.keyed => picked \cap request.excluded = {}
  BY DEF Picked
<1>5. inputs' = inputs \cup picked
  BY <1>1
<1>6. cached' \subseteq Listings /\ inputs' \subseteq Utxo
  BY <1>1, <1>2, <1>3 DEF TypeOK
<1>7. call' = [call EXCEPT !.collected = total, !.change = change]
  BY <1>1
<1> HIDE DEF picked
<1>8. InputsTotal(inputs') = InputsTotal(inputs) + InputsTotal(picked)
  BY <1>3, <1>5, InputsTotalUnion
<1>9. /\ InputsTotal(picked) \in Nat /\ call \in Call /\ call.collected \in Int
      /\ call.amount \in Int /\ call.injectCollected \in BOOLEAN
  BY InputsTotalNat, CallFields DEF TypeOK
<1>10. total \in Int /\ change \in Int /\ total - call.collected = InputsTotal(picked)
  BY <1>9
<1> HIDE DEF total, change
<1>11. /\ call' \in Call /\ call'.collected = total /\ call'.change = change
       /\ call'.amount = call.amount /\ call'.injectCollected = call.injectCollected
       /\ call'.keyed = call.keyed /\ call'.deduct = call.deduct
  <2> DEFINE d == [call EXCEPT !.collected = total, !.change = change]
  <2>1. /\ d \in Call /\ d.collected = total /\ d.change = change
        /\ d.amount = call.amount /\ d.injectCollected = call.injectCollected
        /\ d.keyed = call.keyed /\ d.deduct = call.deduct
    BY <1>9, <1>10 DEF Call
  <2> QED BY <1>7, <2>1
<1>12. (inputs' \ inputs) \subseteq picked
  BY <1>5
<1>13. call'.change = IF call.injectCollected THEN call'.collected + call.amount
                                              ELSE call'.collected - call.amount
  BY <1>11 DEF change
<1> QED BY <1>3, <1>4, <1>5, <1>6, <1>8, <1>9, <1>10, <1>11, <1>12, <1>13

\* One turn of injectSatoshi's first loop passes over a fixed output, removes an
\* unprotected one, or leaves at least its minimum in an output; what the output loses
\* is found.
LEMMA DeductEffect ==
    ASSUME TypeOK, DeductFromOutput
    PROVE  /\ call.next \in DOMAIN outputs
           /\ \/ outputs' = outputs
              \/ /\ ~outputs[call.next].fixed /\ ~outputs[call.next].protected
                 /\ outputs' = RemoveAt(outputs, call.next)
              \/ /\ ~outputs[call.next].fixed
                 /\ \E v \in Nat : /\ v >= outputs[call.next].min
                                   /\ outputs' = [outputs EXCEPT ![call.next].value = v]
           /\ outputs' \in Seq(Output)
           /\ call' \in Call
           /\ OutputsTotal(outputs') = OutputsTotal(outputs) - (call'.collected - call.collected)
           /\ call'.collected <= call.amount \/ call'.collected = call.collected
           /\ call.deduct
           /\ call'.amount = call.amount /\ call'.change = call.change
           /\ call'.injectCollected = call.injectCollected
           /\ call'.keyed = call.keyed /\ call'.deduct = call.deduct
<1> DEFINE i == call.next
           o == outputs[i]
           r == call.amount - call.collected
           taken == Deductible(o, r)
           total == call.collected + taken
           rest == o.value - taken
<1> USE DEF TypeOK
<1>1. i \in DOMAIN outputs /\ i \in 1..Len(outputs) /\ o \in Output /\ call.deduct
  BY CallFields DEF DeductFromOutput, Deducting
<1>2. /\ r \in Int /\ call \in Call /\ call.collected \in Int /\ call.amount \in Int
      /\ i + 1 \in Nat \ {0}
  BY CallFields
<1>3. ~o.fixed => r > 0
  BY <1>2 DEF DeductFromOutput, Deducting
<1>4. o.value \in Nat /\ o.min \in Nat /\ o.protected \in BOOLEAN
  BY <1>1, OutputFields
<1>5. CASE o.fixed
  <2>1. outputs' = outputs /\ call' = [call EXCEPT !.next = @ + 1]
    BY <1>5 DEF DeductFromOutput
  <2>2. /\ call' \in Call /\ call'.collected = call.collected /\ call'.amount = call.amount
        /\ call'.change = call.change /\ call'.injectCollected = call.injectCollected
        /\ call'.keyed = call.keyed /\ call'.deduct = call.deduct
    BY <1>2, <2>1 DEF Call
  <2>3. OutputsTotal(outputs') = OutputsTotal(outputs) - (call'.collected - call.collected)
    <3>1. OutputsTotal(outputs) \in Nat
      BY OutputsTotalNat
    <3> QED BY <1>2, <2>1, <2>2, <3>1
  <2> QED BY <1>1, <2>1, <2>2, <2>3
<1>6. CASE ~o.fixed
  <2>1. /\ taken \in Int /\ rest \in Nat /\ total \in Int /\ total <= call.amount
        /\ total - call.collected = taken
    <3>1. taken \in Int /\ taken <= r /\ rest \in Nat
      BY <1>1, <1>2, <1>3, <1>6, DeductibleInt
    <3> HIDE DEF taken
    <3> QED BY <1>2, <3>1
  <2>2. CASE /\ ~o.protected /\ o.value = taken /\ outputs' = RemoveAt(outputs, i)
             /\ call' = [call EXCEPT !.collected = @ + taken]
    <3>1. /\ call' \in Call /\ call'.collected = total /\ call'.amount = call.amount
          /\ call'.change = call.change /\ call'.injectCollected = call.injectCollected
          /\ call'.keyed = call.keyed /\ call'.deduct = call.deduct
      <4> HIDE DEF taken
      <4> QED BY <1>2, <2>1, <2>2 DEF Call
    <3>2. outputs' \in Seq(Output)
      BY <1>1, <2>2, RemoveAtProperties
    <3>3. OutputsTotal(outputs') = OutputsTotal(outputs) - taken
      BY <1>1, <2>2, OutputsTotalRemove
    <3> HIDE DEF taken
    <3> QED BY <1>1, <1>6, <2>1, <2>2, <3>1, <3>2, <3>3
  <2>3. CASE /\ o.protected \/ o.value # taken
             /\ outputs' = [outputs EXCEPT ![i].value = @ - taken]
             /\ call' = [call EXCEPT !.collected = @ + taken, !.next = @ + 1]
    <3>1. rest >= o.min
      <4>1. CASE ~o.protected /\ o.value <= r
        <5>1. taken = o.value
          BY <4>1 DEF Deductible
        <5> QED BY <2>3, <4>1, <5>1
      <4>2. CASE ~ (~o.protected /\ o.value <= r)
        <5>1. taken = Lesser(o.value - o.min, r)
          BY <4>2 DEF Deductible
        <5>2. o.value - o.min \in Int
          BY <1>4
        <5> HIDE DEF taken
        <5>3. taken <= o.value - o.min /\ taken \in Int
          BY <1>2, <5>1, <5>2 DEF Lesser
        <5> QED BY <1>4, <5>3
      <4> QED BY <4>1, <4>2
    <3>2. /\ call' \in Call /\ call'.collected = total /\ call'.amount = call.amount
          /\ call'.change = call.change /\ call'.injectCollected = call.injectCollected
          /\ call'.keyed = call.keyed /\ call'.deduct = call.deduct
      <4> HIDE DEF taken
      <4> QED BY <1>2, <2>1, <2>3 DEF Call
    <3>3. outputs' = [outputs EXCEPT ![i].value = rest]
      BY <2>3
    <3> HIDE DEF taken, rest
    <3>4. [o EXCEPT !.value = rest] \in Output
      BY <1>1, <2>1, OutputValued
    <3>5. outputs' \in Seq(Output)
      BY <1>1, <3>3, <3>4
    <3>6. OutputsTotal(outputs') = OutputsTotal(outputs) + rest - o.value
      BY <1>1, <2>1, <3>3, OutputsTotalChange
    <3>7. OutputsTotal(outputs') = OutputsTotal(outputs) - taken
      <4>1. OutputsTotal(outputs) \in Nat
        BY OutputsTotalNat
      <4>2. rest = o.value - taken
        BY DEF rest
      <4> HIDE DEF o
      <4> QED BY <1>4, <2>1, <3>6, <4>1, <4>2
    <3>8. \E v \in Nat : v >= o.min /\ outputs' = [outputs EXCEPT ![i].value = v]
      BY <2>1, <3>1, <3>3
    <3> HIDE DEF total
    <3> QED BY <1>1, <1>6, <2>1, <3>2, <3>5, <3>7, <3>8
  <2> QED BY <1>6, <2>2, <2>3 DEF DeductFromOutput
<1> QED BY <1>5, <1>6

\* Change is positive whenever it is given back, so that no credit makes a value
\* negative: TypeOK alone is not inductive.
ChangePositive == step = "change" => call.amount > 0
TypeInv == TypeOK /\ ChangePositive

LEMMA TypeInit == Init => TypeInv
BY ConstantsAssumption
   DEF Init, TypeInv, TypeOK, ChangePositive, Steps, Call, NoCall, NoChange

LEMMA TypeNext == TypeInv /\ [Next]_vars => TypeInv'
<1> SUFFICES ASSUME TypeInv, [Next]_vars PROVE TypeInv'
  OBVIOUS
<1> USE DEF TypeInv, TypeOK, ChangePositive, Steps
<1>1. CASE RejectRequest
  BY <1>1 DEF RejectRequest, Fail
<1>2. CASE AddInputsAndOutputs
  BY <1>2, RequestFields DEF AddInputsAndOutputs, OriginalInputs
<1>3. CASE ReturnSurplus
  <2>1. NeedReturn - previousFee \in Int
    BY RemainingInt DEF NeedReturn
  <2> QED BY <1>3, <2>1 DEF ReturnSurplus, InjectChange, Call
<1>4. CASE CollectShortage
  <2>1. NeedCollect - NeedReturn + previousFee + ProtectionAmount \in Int
    BY RemainingInt DEF NeedReturn, NeedCollect, ProtectionAmount
  <2>2. request.deduct \in BOOLEAN
    BY RequestFields
  <2> QED BY <1>4, <2>1, <2>2 DEF CollectShortage, InjectSatoshi, Call
<1>5. CASE CalculateFee
  BY <1>5, FeesNat, RequestFields DEF CalculateFee
<1>6. CASE CreditOutput
  <2>1. PICK i \in Creditable : /\ outputs' = [outputs EXCEPT ![i].value = @ + call.amount]
                               /\ Return(i)
    BY <1>6 DEF CreditOutput
  <2>2. i \in DOMAIN outputs /\ i \in Nat /\ outputs[i] \in Output
    BY DEF Creditable
  <2>3. outputs[i].value + call.amount \in Nat
    BY <1>6, <2>2, CallFields, OutputFields DEF CreditOutput
  <2>4. [outputs[i] EXCEPT !.value = @ + call.amount] \in Output
    BY <2>2, <2>3, OutputValued
  <2>5. outputs' \in Seq(Output)
    BY <2>1, <2>2, <2>4
  <2> QED BY <1>6, <2>1, <2>2, <2>5 DEF CreditOutput, Return, Call, NoCall
<1>7. CASE AppendChange
  <2> DEFINE o == [to |-> request.change, value |-> call.amount, min |-> MinUtxo,
                   fixed |-> FALSE, protected |-> FALSE, opReturn |-> FALSE]
  <2>1. o \in Output
    BY <1>7, RequestFields, ConstantsAssumption DEF AppendChange, Output, Call
  <2>2. outputs' = Append(outputs, o)
    BY <1>7 DEF AppendChange
  <2> HIDE DEF o
  <2>3. outputs' \in Seq(Output) /\ Len(outputs) + 1 \in Nat
    BY <2>1, <2>2
  <2> QED BY <1>7, <2>3 DEF AppendChange, Return, Call, NoCall
<1>8. CASE EnlargeChange
  BY <1>8 DEF EnlargeChange, InjectSatoshi, Call
<1>9. CASE DeductFromOutput
  <2>1. outputs' \in Seq(Output) /\ call' \in Call
    BY <1>9, DeductEffect
  <2> QED BY <1>9, <2>1 DEF DeductFromOutput
<1>10. CASE EndDeduction
  BY <1>10 DEF EndDeduction
<1>11. CASE CollectMissing
  <2>1. Collect(call.amount - call.collected)
    BY <1>11 DEF CollectMissing
  <2>2. call' \in Call /\ inputs' \subseteq Utxo /\ cached' \subseteq Listings
    BY <2>1, CollectEffect
  <2> QED BY <1>11, <2>2 DEF CollectMissing
<1>12. CASE CollectForChange
  <2>1. CASE ChangeTooSmall
    <3>1. Collect(MinUtxo - call.change)
      BY <1>12, <2>1 DEF CollectForChange
    <3>2. call' \in Call /\ inputs' \subseteq Utxo /\ cached' \subseteq Listings
      BY <3>1, CollectEffect
    <3> QED BY <1>12, <3>2 DEF CollectForChange
  <2>2. CASE ~ChangeTooSmall
    BY <1>12, <2>2 DEF CollectForChange
  <2> QED BY <2>1, <2>2
<1>13. CASE FetchFails
  BY <1>13 DEF FetchFails, Fail
<1>14. CASE InsufficientUtxo
  BY <1>14 DEF InsufficientUtxo, Fail
<1>15. CASE SettleChange
  <2>1. CASE call.change > 0
    <3>1. call.change \in Int
      BY CallFields
    <3>2. InjectChange(call.change, FALSE) /\ UNCHANGED changeIndex
      BY <1>15, <2>1 DEF SettleChange
    <3>3. call' \in Call /\ call'.amount > 0 /\ step' = "change"
      BY <2>1, <3>1, <3>2 DEF InjectChange, Call
    <3> QED BY <1>15, <3>2, <3>3 DEF SettleChange
  <2>2. CASE ~(call.change > 0)
    <3>1. Return(NoChange)
      BY <1>15, <2>2 DEF SettleChange
    <3>2. call' \in Call /\ step' = "fee" /\ changeIndex' \in Nat
      BY <3>1 DEF Return, NoCall, NoChange, Call
    <3> QED BY <1>15, <3>2 DEF SettleChange
  <2> QED BY <2>1, <2>2
<1>16. CASE UNCHANGED vars
  BY <1>16 DEF vars
<1> QED
  BY <1>1, <1>2, <1>3, <1>4, <1>5, <1>6, <1>7, <1>8, <1>9, <1>10, <1>11, <1>12,
     <1>13, <1>14, <1>15, <1>16 DEF Next

\* In every behaviour the builder's state keeps its types: no value, fee or index ever
\* goes below zero.
THEOREM TypeCorrect == Spec => []TypeOK
<1>1. Spec => []TypeInv
  BY TypeInit, TypeNext, PTL DEF Spec
<1>2. TypeInv => TypeOK
  BY DEF TypeInv
<1> QED BY <1>1, <1>2, PTL

-----------------------------------------------------------------------------
(* Satoshi.                                                                *)

CallSteps == {"deduct", "collect", "again", "check"}

\* Conservation is not inductive alone: it needs the signs of the amounts, and that
\* every round starts from the transaction the caller described.
FreshRound == step = "loop" => inputs = OriginalInputs /\ outputs = request.outputs
AmountsInRange ==
    /\ step \in CallSteps =>
          /\ call.amount >= 0
          /\ call.injectCollected => call.amount > 0 /\ ~call.deduct
    /\ step = "deduct" =>
          /\ call.collected <= call.amount /\ call.change = 0
          /\ call.injectCollected => call.collected = 0
BalanceInv == TypeInv /\ FreshRound /\ AmountsInRange /\ Conservation

LEMMA GoalNat == TypeOK => Goal \in Nat
BY InputsTotalNat DEF Goal, TypeOK

\* Only CalculateFee changes what a round aims at.
LEMMA GoalKept == UNCHANGED <<request, previousFee>> => Goal' = Goal
BY DEF Goal, OriginalInputs

LEMMA BalanceInit == Init => BalanceInv
<1> SUFFICES ASSUME Init PROVE BalanceInv
  OBVIOUS
<1>1. TypeInv
  BY TypeInit
<1> QED BY <1>1 DEF Init, BalanceInv, FreshRound, AmountsInRange, Conservation, CallSteps

LEMMA BalanceNext == BalanceInv /\ [Next]_vars => BalanceInv'
<1> SUFFICES ASSUME BalanceInv, [Next]_vars
             PROVE  FreshRound' /\ AmountsInRange' /\ Conservation'
  BY TypeNext DEF BalanceInv
<1> USE DEF BalanceInv, FreshRound, AmountsInRange, Conservation, CallSteps
<1>1. TypeInv /\ TypeOK /\ TypeOK'
  BY TypeNext DEF TypeInv
<1>2. /\ Remaining \in Int /\ Remaining' \in Int /\ Goal \in Nat /\ previousFee \in Nat
      /\ Remaining = InputsTotal(inputs) - OutputsTotal(outputs)
      /\ Remaining' = InputsTotal(inputs') - OutputsTotal(outputs')
      /\ InputsTotal(inputs) \in Nat /\ InputsTotal(inputs') \in Nat
      /\ OutputsTotal(outputs) \in Nat /\ OutputsTotal(outputs') \in Nat
  BY <1>1, RemainingInt, GoalNat, InputsTotalNat, OutputsTotalNat DEF TypeOK, Remaining
<1>3. /\ call.amount \in Int /\ call.collected \in Int /\ call.change \in Int
      /\ call.injectCollected \in BOOLEAN /\ call.deduct \in BOOLEAN
  BY <1>1, CallFields DEF TypeOK
<1>4. CASE RejectRequest
  BY <1>4 DEF RejectRequest, Fail
<1>5. CASE AddInputsAndOutputs
  BY <1>5 DEF AddInputsAndOutputs, OriginalInputs
<1>6. CASE ReturnSurplus
  <2>1. NeedReturn - previousFee > 0 /\ SafeToProcess /\ step = "loop"
    BY <1>6 DEF ReturnSurplus
  <2>2. NeedReturn = Remaining /\ Goal = previousFee
    BY <1>2, <2>1 DEF NeedReturn, Goal, SafeToProcess
  <2>3. /\ step' = "change" /\ call'.amount = Remaining - previousFee
        /\ Goal' = Goal /\ Remaining' = Remaining
    BY <1>6, <2>2, GoalKept DEF ReturnSurplus, InjectChange, Remaining
  <2> QED BY <1>2, <2>2, <2>3
<1>7. CASE CollectShortage
  <2> DEFINE target == NeedCollect - NeedReturn + previousFee + ProtectionAmount
  <2>1. step = "loop" /\ ~(SafeToProcess /\ NeedReturn - previousFee > 0)
    BY <1>7 DEF CollectShortage
  <2>2. Goal = previousFee + ProtectionAmount
    BY <1>2, <2>1 DEF Goal, ProtectionAmount, SafeToProcess
  <2>3. NeedCollect - NeedReturn = -Remaining /\ NeedReturn \in Nat /\ NeedCollect \in Nat
    BY <1>2 DEF NeedCollect, NeedReturn
  <2>4. target = Goal - Remaining
    BY <1>2, <2>2, <2>3 DEF ProtectionAmount
  <2>5. target >= 0
    <3>1. CASE SafeToProcess
      <4>1. NeedReturn <= previousFee
        BY <1>2, <2>1, <2>3, <3>1
      <4> QED BY <1>2, <2>2, <2>4, <3>1, <4>1 DEF NeedReturn, ProtectionAmount
    <3>2. CASE ~SafeToProcess
      <4>1. Remaining <= 0
        BY <1>2, <3>2 DEF SafeToProcess
      <4> QED BY <1>2, <2>4, <4>1
    <3> QED BY <3>1, <3>2
  <2> HIDE DEF target
  <2>6. /\ step' = "deduct" /\ call'.amount = target /\ call'.collected = 0
        /\ call'.change = 0 /\ call'.injectCollected = FALSE
    BY <1>7 DEF CollectShortage, InjectSatoshi, target
  <2>7. Goal' = Goal /\ Remaining' = Remaining
    BY <1>7, GoalKept DEF CollectShortage, Remaining
  <2> QED BY <1>2, <2>4, <2>5, <2>6, <2>7
<1>8. CASE CalculateFee
  BY <1>8 DEF CalculateFee, OriginalInputs
<1>9. CASE CreditOutput
  <2>1. PICK i \in Creditable : /\ outputs' = [outputs EXCEPT ![i].value = @ + call.amount]
                               /\ Return(i)
    BY <1>9 DEF CreditOutput
  <2>2. i \in DOMAIN outputs /\ outputs \in Seq(Output) /\ outputs[i].value \in Nat
    BY <1>1, OutputFields DEF Creditable, TypeOK
  <2>3. outputs[i].value + call.amount \in Nat
    BY <1>1, <1>3, <1>9, <2>2 DEF CreditOutput, TypeInv, ChangePositive
  <2> DEFINE v == outputs[i].value + call.amount
  <2>4. OutputsTotal(outputs') = OutputsTotal(outputs) + call.amount
    <3>1. v \in Nat /\ outputs' = [outputs EXCEPT ![i].value = v]
      BY <2>1, <2>3
    <3> HIDE DEF v
    <3>2. OutputsTotal(outputs') = OutputsTotal(outputs) + v - outputs[i].value
      BY <2>2, <3>1, OutputsTotalChange
    <3>3. v = outputs[i].value + call.amount
      BY DEF v
    <3>4. OutputsTotal(outputs) \in Int
      BY <1>2
    <3> QED BY <1>3, <2>2, <3>2, <3>3, <3>4
  <2>5. step = "change" /\ step' = "fee" /\ Goal' = Goal /\ inputs' = inputs
    BY <1>9, <2>1, GoalKept DEF CreditOutput, Return
  <2> QED BY <1>2, <1>3, <2>4, <2>5
<1>10. CASE AppendChange
  <2> DEFINE o == [to |-> request.change, value |-> call.amount, min |-> MinUtxo,
                   fixed |-> FALSE, protected |-> FALSE, opReturn |-> FALSE]
  <2>1. o \in Output /\ o.value = call.amount
    BY <1>1, <1>3, <1>10, RequestFields, ConstantsAssumption DEF AppendChange, Output, TypeOK
  <2>2. outputs' = Append(outputs, o) /\ outputs \in Seq(Output)
    BY <1>1, <1>10 DEF AppendChange, TypeOK
  <2> HIDE DEF o
  <2>3. OutputsTotal(outputs') = OutputsTotal(outputs) + call.amount
    BY <2>1, <2>2, OutputsTotalAppend
  <2>4. step = "change" /\ step' = "fee" /\ Goal' = Goal /\ inputs' = inputs
    BY <1>10, GoalKept DEF AppendChange, Return
  <2> QED BY <1>2, <1>3, <2>3, <2>4
<1>11. CASE EnlargeChange
  <2>1. /\ step = "change" /\ step' = "deduct" /\ call'.amount = call.amount
        /\ call'.collected = 0 /\ call'.change = 0
        /\ call'.injectCollected = TRUE /\ call'.deduct = FALSE
    BY <1>11 DEF EnlargeChange, InjectSatoshi
  <2>2. Goal' = Goal /\ Remaining' = Remaining
    BY <1>11, GoalKept DEF EnlargeChange, Remaining
  <2>3. call.amount > 0
    BY <1>1, <2>1 DEF TypeInv, ChangePositive
  <2> QED BY <1>2, <1>3, <2>1, <2>2, <2>3
<1>12. CASE DeductFromOutput
  <2>1. /\ step = "deduct" /\ step' = "deduct" /\ inputs' = inputs /\ Goal' = Goal
    BY <1>12, GoalKept DEF DeductFromOutput
  <2>2. /\ OutputsTotal(outputs') = OutputsTotal(outputs) - (call'.collected - call.collected)
        /\ call'.collected <= call.amount \/ call'.collected = call.collected
        /\ call.deduct /\ call'.amount = call.amount /\ call'.change = call.change
        /\ call'.injectCollected = call.injectCollected /\ call' \in Call
    BY <1>1, <1>12, DeductEffect
  <2>3. call'.collected \in Int
    BY <2>2, CallFields
  <2>4. ~call.injectCollected /\ ~call'.injectCollected
    BY <2>1, <2>2
  <2>5. Remaining = Goal + (call.collected - call.amount)
    BY <2>1, <2>4
  <2>6. Remaining' = Goal' + (call'.collected - call'.amount)
    BY <1>2, <1>3, <2>1, <2>2, <2>3, <2>5
  <2>7. call'.collected <= call'.amount /\ call'.change = 0 /\ call'.amount >= 0
    BY <1>3, <2>1, <2>2
  <2>8. AmountsInRange'
    BY <2>1, <2>4, <2>7
  <2>9. Conservation'
    <3>1. call'.injectCollected = FALSE
      BY <1>3, <2>2, <2>4
    <3>2. Goal' + (IF call'.injectCollected THEN call'.collected + call'.amount
                                            ELSE call'.collected - call'.amount) = Remaining'
      BY <2>6, <3>1
    <3> QED BY <2>1, <3>2
  <2> QED BY <2>1, <2>8, <2>9
<1>13. CASE EndDeduction
  <2>1. /\ step = "deduct" /\ step' \in {"collect", "again"} /\ call' = call
        /\ step' = "again" => call.collected >= call.amount
    BY <1>3, <1>13 DEF EndDeduction
  <2>2. Goal' = Goal /\ Remaining' = Remaining
    BY <1>13, GoalKept DEF EndDeduction, Remaining
  <2> QED BY <1>2, <1>3, <2>1, <2>2
<1>14. CASE CollectMissing
  <2>1. /\ step = "collect" /\ step' = "again" /\ outputs' = outputs /\ Goal' = Goal
        /\ Collect(call.amount - call.collected)
    BY <1>14, GoalKept DEF CollectMissing
  <2>2. /\ call'.collected - call.collected \in Nat /\ call' \in Call
        /\ InputsTotal(inputs') = InputsTotal(inputs) + (call'.collected - call.collected)
        /\ call'.change = IF call.injectCollected THEN call'.collected + call.amount
                                                  ELSE call'.collected - call.amount
        /\ call'.amount = call.amount /\ call'.injectCollected = call.injectCollected
        /\ call'.deduct = call.deduct
    BY <1>1, <2>1, CollectEffect
  <2>3. call'.collected \in Int
    BY <2>2, CallFields
  <2>4. Remaining' = Remaining + (call'.collected - call.collected)
    BY <1>2, <1>3, <2>1, <2>2, <2>3
  <2>5. AmountsInRange'
    BY <1>3, <2>1, <2>2
  <2>6. Conservation'
    <3>1. CASE call.injectCollected
      <4>1. Remaining = Goal + (call.collected + call.amount)
        BY <2>1, <3>1
      <4>2. Remaining' = Goal' + (call'.collected + call'.amount)
        BY <1>2, <1>3, <2>1, <2>2, <2>3, <2>4, <4>1
      <4> QED BY <2>1, <2>2, <3>1, <4>2
    <3>2. CASE ~call.injectCollected
      <4>1. Remaining = Goal + (call.collected - call.amount)
        BY <2>1, <3>2
      <4>2. Remaining' = Goal' + (call'.collected - call'.amount)
        BY <1>2, <1>3, <2>1, <2>2, <2>3, <2>4, <4>1
      <4> QED BY <2>1, <2>2, <3>2, <4>2
    <3> QED BY <3>1, <3>2
  <2> QED BY <2>1, <2>5, <2>6
<1>15. CASE CollectForChange
  <2>1. step = "again" /\ step' = "check" /\ outputs' = outputs /\ Goal' = Goal
    BY <1>15, GoalKept DEF CollectForChange
  <2>2. CASE ChangeTooSmall
    <3>1. Collect(MinUtxo - call.change)
      BY <1>15, <2>2 DEF CollectForChange
    <3>2. /\ call'.collected - call.collected \in Nat /\ call' \in Call
          /\ InputsTotal(inputs') = InputsTotal(inputs) + (call'.collected - call.collected)
          /\ call'.change = IF call.injectCollected THEN call'.collected + call.amount
                                                    ELSE call'.collected - call.amount
          /\ call'.amount = call.amount /\ call'.injectCollected = call.injectCollected
          /\ call'.deduct = call.deduct
      BY <1>1, <3>1, CollectEffect
    <3>3. call'.collected \in Int
      BY <3>2, CallFields
    <3> QED BY <1>2, <1>3, <2>1, <3>2, <3>3
  <2>3. CASE ~ChangeTooSmall
    <3>1. call' = call /\ Remaining' = Remaining
      BY <1>15, <2>3 DEF CollectForChange, Remaining
    <3> QED BY <1>2, <1>3, <2>1, <3>1
  <2> QED BY <2>2, <2>3
<1>16. CASE FetchFails
  BY <1>16 DEF FetchFails, Fail
<1>17. CASE InsufficientUtxo
  BY <1>17 DEF InsufficientUtxo, Fail
<1>18. CASE SettleChange
  <2>1. /\ step = "check" /\ call.collected >= call.amount
        /\ Goal' = Goal /\ Remaining' = Remaining
    BY <1>3, <1>18, GoalKept DEF SettleChange, Remaining
  <2>2. CASE call.change > 0
    <3>1. step' = "change" /\ call'.amount = call.change
      BY <1>18, <2>2 DEF SettleChange, InjectChange
    <3> QED BY <1>2, <1>3, <2>1, <2>2, <3>1
  <2>3. CASE ~(call.change > 0)
    <3>1. step' = "fee"
      BY <1>18, <2>3 DEF SettleChange, Return
    <3> QED BY <1>2, <1>3, <2>1, <2>3, <3>1
  <2> QED BY <2>2, <2>3
<1>19. CASE UNCHANGED vars
  <2>1. Goal' = Goal /\ Remaining' = Remaining /\ call' = call /\ step' = step
    BY <1>19, GoalKept DEF vars, Remaining
  <2> QED BY <1>19, <2>1 DEF vars, OriginalInputs
<1> QED
  BY <1>4, <1>5, <1>6, <1>7, <1>8, <1>9, <1>10, <1>11, <1>12, <1>13, <1>14, <1>15,
     <1>16, <1>17, <1>18, <1>19 DEF Next

LEMMA BalanceAlways == Spec => []BalanceInv
BY BalanceInit, BalanceNext, PTL DEF Spec

\* Whatever is deducted, collected and given back, no satoshi is lost or made up: the
\* surplus of the transaction is what the round aims at, corrected by the call in progress.
THEOREM SatoshiConserved == Spec => []Conservation
<1>1. BalanceInv => Conservation
  BY DEF BalanceInv
<1> QED BY <1>1, BalanceAlways, PTL

\* The fee of a finished transaction is settled by the round that finishes it.
LEMMA FeePaidNext == BalanceInv /\ FeePaid /\ [Next]_vars => FeePaid'
<1> SUFFICES ASSUME BalanceInv, FeePaid, [Next]_vars, step' = "done"
             PROVE  (Remaining - currentFee \in {-1, 0, 1})'
  BY DEF FeePaid
<1>1. TypeOK
  BY DEF BalanceInv, TypeInv
<1>2. CASE UNCHANGED vars
  BY <1>2 DEF vars, FeePaid, Remaining
<1>3. CASE CalculateFee
  <2>1. /\ currentFee' \in Fees /\ currentFee' - previousFee \in {-1, 0, 1}
        /\ step = "fee" /\ Remaining' = Remaining
    BY <1>3 DEF CalculateFee, IsFeeExpected, Remaining
  <2>2. currentFee' \in Nat /\ previousFee \in Nat
    BY <1>1, <2>1, FeesNat DEF TypeOK
  <2>3. Remaining = Goal
    BY <2>1 DEF BalanceInv, Conservation
  <2>4. Goal = previousFee \/ (Goal = 1 /\ previousFee = 0)
    BY <2>2 DEF Goal
  <2>5. \/ Remaining' = previousFee
        \/ Remaining' = 1 /\ previousFee = 0
    BY <2>1, <2>3, <2>4
  <2>6. ASSUME NEW paid \in Int, NEW fee \in Nat, fee - previousFee \in {-1, 0, 1},
               paid = previousFee \/ (paid = 1 /\ previousFee = 0)
        PROVE  paid - fee \in {-1, 0, 1}
    BY <2>2, <2>6
  <2>7. Remaining' \in Int
    BY <2>2, <2>5
  <2>8. Remaining' - currentFee' \in {-1, 0, 1}
    BY <2>1, <2>2, <2>5, <2>6, <2>7
  <2> QED BY <2>8
<1> QED
  BY <1>2, <1>3 DEF Next, RejectRequest, Fail, AddInputsAndOutputs, ReturnSurplus,
     CollectShortage, CreditOutput, AppendChange, EnlargeChange, InjectChange,
     InjectSatoshi, Return, DeductFromOutput, EndDeduction, CollectMissing,
     CollectForChange, FetchFails, InsufficientUtxo, SettleChange

\* A built transaction pays the estimated fee, up to one satoshi.
THEOREM FeeIsPaid == Spec => []FeePaid
<1>1. Init => FeePaid
  BY DEF Init, FeePaid
<1> QED BY <1>1, FeePaidNext, BalanceAlways, PTL DEF Spec

-----------------------------------------------------------------------------
(* Outputs and inputs.                                                     *)


Running == step \notin {"prepare", "rejected"}

\* Every step keeps the outputs, restores them, values one that is not fixed, appends
\* one, or removes one that is neither fixed nor protected.
OutputKept == outputs' = outputs /\ (Running' => Running)
OutputsRestored == outputs' = request.outputs /\ Running' /\ (Running \/ ~HasDustOutput)
OutputValuedAnew == \E i \in DOMAIN outputs, v \in Nat :
    /\ Running /\ ~outputs[i].fixed
    /\ v >= outputs[i].value \/ v >= outputs[i].min
    /\ outputs' = [outputs EXCEPT ![i].value = v]
OutputAppended == \E o \in Output :
    Running /\ o.value >= o.min /\ o.to = request.change /\ outputs' = Append(outputs, o)
OutputRemoved == \E i \in DOMAIN outputs :
    /\ Running /\ ~outputs[i].fixed /\ ~outputs[i].protected
    /\ outputs' = RemoveAt(outputs, i)

LEMMA OutputsStep ==
    ASSUME TypeInv, [Next]_vars
    PROVE  /\ request' = request
           /\ \/ OutputKept \/ OutputsRestored \/ OutputValuedAnew
              \/ OutputAppended \/ OutputRemoved
<1> USE DEF TypeInv, TypeOK, Running
<1>1. CASE AddInputsAndOutputs
  BY <1>1 DEF AddInputsAndOutputs, OutputsRestored
<1>2. CASE CalculateFee
  BY <1>2 DEF CalculateFee, OutputKept, OutputsRestored
<1>3. CASE CreditOutput
  <2>1. PICK i \in Creditable : /\ outputs' = [outputs EXCEPT ![i].value = @ + call.amount]
                               /\ Return(i)
    BY <1>3 DEF CreditOutput
  <2>2. i \in DOMAIN outputs /\ outputs[i].value \in Nat /\ ~outputs[i].fixed
    BY OutputFields DEF Creditable
  <2> DEFINE v == outputs[i].value + call.amount
  <2>3. v \in Nat /\ v >= outputs[i].value
    BY <1>3, <2>2, CallFields DEF CreditOutput, ChangePositive
  <2>4. outputs' = [outputs EXCEPT ![i].value = v]
    BY <2>1
  <2> HIDE DEF v
  <2>5. OutputValuedAnew
    BY <1>3, <2>2, <2>3, <2>4 DEF CreditOutput, OutputValuedAnew
  <2> QED BY <1>3, <2>5 DEF CreditOutput
<1>4. CASE AppendChange
  <2> DEFINE o == [to |-> request.change, value |-> call.amount, min |-> MinUtxo,
                   fixed |-> FALSE, protected |-> FALSE, opReturn |-> FALSE]
  <2>1. o \in Output /\ o.value >= o.min /\ o.to = request.change
    BY <1>4, RequestFields, CallFields, ConstantsAssumption DEF AppendChange, Output
  <2>2. outputs' = Append(outputs, o)
    BY <1>4 DEF AppendChange
  <2> HIDE DEF o
  <2>3. OutputAppended
    BY <1>4, <2>1, <2>2 DEF AppendChange, OutputAppended
  <2> QED BY <1>4, <2>3 DEF AppendChange
<1>5. CASE DeductFromOutput
  <2> DEFINE i == call.next
  <2>1. /\ i \in DOMAIN outputs
        /\ \/ outputs' = outputs
           \/ ~outputs[i].fixed /\ ~outputs[i].protected /\ outputs' = RemoveAt(outputs, i)
           \/ /\ ~outputs[i].fixed
              /\ \E v \in Nat : v >= outputs[i].min /\ outputs' = [outputs EXCEPT ![i].value = v]
    BY <1>5, DeductEffect
  <2>2. Running /\ Running' /\ request' = request
    BY <1>5 DEF DeductFromOutput
  <2> HIDE DEF i
  <2>3. OutputKept \/ OutputRemoved \/ OutputValuedAnew
    BY <2>1, <2>2 DEF OutputKept, OutputRemoved, OutputValuedAnew
  <2> QED BY <2>2, <2>3
<1>6. CASE \/ RejectRequest \/ ReturnSurplus \/ CollectShortage \/ EnlargeChange
           \/ EndDeduction \/ CollectMissing \/ CollectForChange \/ FetchFails
           \/ InsufficientUtxo \/ SettleChange \/ UNCHANGED vars
  BY <1>6 DEF RejectRequest, ReturnSurplus, CollectShortage, EnlargeChange, EndDeduction,
     CollectMissing, CollectForChange, FetchFails, InsufficientUtxo, SettleChange,
     Fail, vars, OutputKept
<1> QED BY <1>1, <1>2, <1>3, <1>4, <1>5, <1>6 DEF Next

-----------------------------------------------------------------------------
NoDustInv == NoDust /\ (Running => ~HasDustOutput)

LEMMA NoDustNext == TypeInv /\ NoDustInv /\ [Next]_vars => NoDustInv'
<1> SUFFICES ASSUME TypeInv, NoDustInv, [Next]_vars PROVE NoDustInv'
  OBVIOUS
<1>1. /\ request' = request
      /\ \/ OutputKept \/ OutputsRestored \/ OutputValuedAnew
         \/ OutputAppended \/ OutputRemoved
  BY OutputsStep
<1>2. outputs \in Seq(Output) /\ DOMAIN outputs = 1..Len(outputs) /\ Len(outputs) \in Nat
  BY DEF TypeInv, TypeOK
<1>3. HasDustOutput' <=> HasDustOutput
  BY <1>1 DEF HasDustOutput
<1>4. CASE OutputKept
  BY <1>3, <1>4 DEF OutputKept, NoDustInv, NoDust
<1>5. CASE OutputsRestored
  <2>1. request.outputs \in Seq(Output)
    BY RequestFields DEF TypeInv, TypeOK
  <2>2. ASSUME NEW i \in DOMAIN request.outputs, ~request.outputs[i].opReturn
        PROVE  request.outputs[i].value >= request.outputs[i].min
    <3>1. request.outputs[i] \in Output
      BY <2>1
    <3> QED BY <1>5, <2>2, <3>1, OutputFields DEF OutputsRestored, NoDustInv, HasDustOutput
  <2> QED BY <1>3, <1>5, <2>2 DEF OutputsRestored, NoDustInv, NoDust
<1>6. CASE OutputValuedAnew
  <2>1. PICK i \in DOMAIN outputs, v \in Nat :
            /\ Running /\ ~outputs[i].fixed
            /\ v >= outputs[i].value \/ v >= outputs[i].min
            /\ outputs' = [outputs EXCEPT ![i].value = v]
    BY <1>6 DEF OutputValuedAnew
  <2>2. outputs[i] \in Output /\ outputs'[i] = [outputs[i] EXCEPT !.value = v]
    BY <1>2, <2>1
  <2>3. /\ outputs'[i].value = v /\ outputs'[i].min = outputs[i].min
        /\ outputs'[i].opReturn = outputs[i].opReturn
        /\ outputs[i].value \in Nat /\ outputs[i].min \in Nat
    BY <2>2, OutputFields DEF Output
  <2>4. ~outputs'[i].opReturn => outputs'[i].value >= outputs'[i].min
    BY <2>1, <2>3 DEF NoDustInv, NoDust
  <2>5. \A k \in DOMAIN outputs : k # i => outputs'[k] = outputs[k]
    BY <1>2, <2>1
  <2>6. DOMAIN outputs' = DOMAIN outputs
    BY <2>1
  <2> QED BY <1>3, <2>1, <2>4, <2>5, <2>6 DEF NoDustInv, NoDust
<1>7. CASE OutputAppended
  <2>1. PICK o \in Output : Running /\ o.value >= o.min /\ outputs' = Append(outputs, o)
    BY <1>7 DEF OutputAppended
  <2>2. /\ DOMAIN outputs' = 1..(Len(outputs) + 1) /\ outputs'[Len(outputs) + 1] = o
        /\ \A k \in DOMAIN outputs : outputs'[k] = outputs[k]
    BY <1>2, <2>1
  <2> QED BY <1>2, <1>3, <2>1, <2>2 DEF NoDustInv, NoDust
<1>8. CASE OutputRemoved
  <2>1. PICK i \in DOMAIN outputs : Running /\ outputs' = RemoveAt(outputs, i)
    BY <1>8 DEF OutputRemoved
  <2>2. /\ outputs' \in Seq(Output) /\ Len(outputs') = Len(outputs) - 1
        /\ \A k \in 1..(Len(outputs) - 1) :
               outputs'[k] = IF k < i THEN outputs[k] ELSE outputs[k + 1]
    BY <1>2, <2>1, RemoveAtProperties
  <2>3. ASSUME NEW k \in DOMAIN outputs', ~outputs'[k].opReturn
        PROVE  outputs'[k].value >= outputs'[k].min
    <3>1. k \in 1..(Len(outputs) - 1) /\ k \in DOMAIN outputs /\ k + 1 \in DOMAIN outputs
      BY <1>2, <2>2
    <3> QED BY <2>2, <2>3, <3>1 DEF NoDustInv, NoDust
  <2> QED BY <1>3, <2>1, <2>3 DEF NoDustInv, NoDust
<1> QED BY <1>1, <1>4, <1>5, <1>6, <1>7, <1>8

\* At no point of the construction is there an output below its minimum, OP_RETURN
\* outputs aside: the network would refuse the transaction.
THEOREM NeverDust == Spec => []NoDust
<1>1. Init => NoDustInv
  BY DEF Init, NoDustInv, NoDust, Running
<1>2. Spec => [](TypeInv /\ NoDustInv)
  BY <1>1, TypeInit, TypeNext, NoDustNext, PTL DEF Spec
<1>3. NoDustInv => NoDust
  BY DEF NoDustInv
<1> QED BY <1>2, <1>3, PTL
-----------------------------------------------------------------------------
LEMMA LeadingNext == TypeInv /\ LeadingFixedKept /\ [Next]_vars => LeadingFixedKept'
<1> SUFFICES ASSUME TypeInv, LeadingFixedKept, [Next]_vars
             PROVE  LeadingFixedKept'
  OBVIOUS
<1>0. request' = request
  BY OutputsStep
<1> SUFFICES ASSUME Running', NEW k \in DOMAIN request.outputs,
                    \A i \in 1..k : request.outputs[i].fixed
             PROVE  (k <= Len(outputs) /\ outputs[k] = request.outputs[k])'
  BY <1>0 DEF LeadingFixedKept, Running
<1>1. /\ request' = request
      /\ \/ OutputKept \/ OutputsRestored \/ OutputValuedAnew
         \/ OutputAppended \/ OutputRemoved
  BY OutputsStep
<1>2. /\ outputs \in Seq(Output) /\ DOMAIN outputs = 1..Len(outputs) /\ Len(outputs) \in Nat
      /\ request.outputs \in Seq(Output) /\ k \in Nat \ {0} /\ k <= Len(request.outputs)
  BY RequestFields DEF TypeInv, TypeOK
<1>3. Running => \A j \in 1..k : /\ j <= Len(outputs) /\ outputs[j] = request.outputs[j]
                                 /\ request.outputs[j].fixed
  BY <1>2 DEF LeadingFixedKept, Running
<1>4. CASE OutputKept
  BY <1>1, <1>2, <1>3, <1>4 DEF OutputKept
<1>5. CASE OutputsRestored
  BY <1>1, <1>2, <1>5 DEF OutputsRestored
<1>6. CASE OutputValuedAnew
  <2>1. PICK i \in DOMAIN outputs, v \in Nat :
            /\ Running /\ ~outputs[i].fixed
            /\ outputs' = [outputs EXCEPT ![i].value = v]
    BY <1>6 DEF OutputValuedAnew
  <2>2. k <= Len(outputs) /\ outputs[k] = request.outputs[k] /\ outputs[k].fixed
    BY <1>2, <1>3, <2>1
  <2>3. i # k
    BY <2>1, <2>2
  <2>4. outputs'[k] = outputs[k] /\ Len(outputs') = Len(outputs)
    BY <1>2, <2>1, <2>2, <2>3
  <2> QED BY <1>1, <2>2, <2>4
<1>7. CASE OutputAppended
  <2>1. PICK o \in Output : Running /\ outputs' = Append(outputs, o)
    BY <1>7 DEF OutputAppended
  <2>2. Len(outputs') = Len(outputs) + 1 /\ \A j \in DOMAIN outputs : outputs'[j] = outputs[j]
    BY <1>2, <2>1
  <2> QED BY <1>1, <1>2, <1>3, <2>1, <2>2
<1>8. CASE OutputRemoved
  <2>1. PICK i \in DOMAIN outputs : /\ Running /\ ~outputs[i].fixed
                                    /\ outputs' = RemoveAt(outputs, i)
    BY <1>8 DEF OutputRemoved
  <2>2. k < i
    <3>1. ~(i \in 1..k)
      BY <1>3, <2>1
    <3> QED BY <1>2, <2>1, <3>1
  <2>3. /\ Len(outputs') = Len(outputs) - 1
        /\ \A j \in 1..(Len(outputs) - 1) :
               outputs'[j] = IF j < i THEN outputs[j] ELSE outputs[j + 1]
    BY <1>2, <2>1, RemoveAtProperties
  <2>4. k \in 1..(Len(outputs) - 1)
    BY <1>2, <2>1, <2>2
  <2>5. outputs'[k] = outputs[k] /\ outputs[k] = request.outputs[k] /\ k <= Len(outputs')
    BY <1>2, <1>3, <2>1, <2>2, <2>3, <2>4
  <2> QED BY <1>1, <2>5
<1> QED BY <1>1, <1>4, <1>5, <1>6, <1>7, <1>8

\* The leading fixed outputs of the request keep their index and their value, whatever
\* payFee collects, deducts, removes or appends: the commitment of RGB++ and the cells
\* it binds by index stay valid.
THEOREM LeadingOutputsBound == Spec => []LeadingFixedKept
<1>1. Init => LeadingFixedKept
  BY DEF Init, LeadingFixedKept
<1> QED BY <1>1, TypeInit, TypeNext, LeadingNext, PTL DEF Spec

-----------------------------------------------------------------------------
\* How a step changes the inputs.
LEMMA InputsStep ==
    ASSUME TypeInv, [Next]_vars
    PROVE  \/ inputs' = inputs /\ (Running' => Running)
           \/ inputs' = OriginalInputs /\ Running'
           \/ Running /\ inputs \subseteq inputs' /\ inputs' \subseteq inputs \cup UNION Listings
<1> USE DEF TypeInv, Running
<1>1. CASE AddInputsAndOutputs
  BY <1>1 DEF AddInputsAndOutputs
<1>2. CASE CalculateFee
  BY <1>2 DEF CalculateFee
<1>3. CASE CollectMissing
  BY <1>3, CollectEffect DEF CollectMissing
<1>4. CASE CollectForChange
  <2>1. CASE ChangeTooSmall
    BY <1>4, <2>1, CollectEffect DEF CollectForChange
  <2>2. CASE ~ChangeTooSmall
    BY <1>4, <2>2 DEF CollectForChange
  <2> QED BY <2>1, <2>2
<1>5. CASE \/ RejectRequest \/ ReturnSurplus \/ CollectShortage \/ CreditOutput
           \/ AppendChange \/ EnlargeChange \/ DeductFromOutput \/ EndDeduction
           \/ FetchFails \/ InsufficientUtxo \/ SettleChange \/ UNCHANGED vars
  BY <1>5 DEF RejectRequest, ReturnSurplus, CollectShortage, CreditOutput, AppendChange,
     EnlargeChange, DeductFromOutput, EndDeduction, FetchFails, InsufficientUtxo,
     SettleChange, Fail, vars
<1> QED BY <1>1, <1>2, <1>3, <1>4, <1>5 DEF Next

LEMMA AccountedNext == TypeInv /\ InputsAccounted /\ [Next]_vars => InputsAccounted'
<1> SUFFICES ASSUME TypeInv, InputsAccounted, [Next]_vars PROVE InputsAccounted'
  OBVIOUS
<1>1. OriginalInputs' = OriginalInputs
  BY OutputsStep DEF OriginalInputs
<1> QED BY <1>1, InputsStep DEF InputsAccounted, Running

\* The inputs are those of the caller and UTXOs listed for the sender, in every state.
THEOREM OnlySendersUtxos == Spec => []InputsAccounted
<1>1. Init => InputsAccounted
  BY DEF Init, InputsAccounted
<1> QED BY <1>1, TypeInit, TypeNext, AccountedNext, PTL DEF Spec

-----------------------------------------------------------------------------
\* Why the excluded UTXOs are safe: a protected output that can take the change is
\* never removed, so the change is never enlarged by an unkeyed collection.
ShieldAt(outs, i) ==
    ~outs[i].fixed /\ outs[i].protected /\ outs[i].to = request.change
Shielded == \E i \in DOMAIN outputs : ShieldAt(outputs, i)
ExclusionInv ==
    HasChangeOutput =>
        /\ Running => Shielded
        /\ ExcludedUnspent
        /\ step \in {"deduct", "collect", "again", "check"} => call.keyed

LEMMA ShieldKept ==
    ASSUME TypeInv, [Next]_vars, HasChangeOutput, Running => Shielded, Running'
    PROVE  Shielded'
<1>1. /\ request' = request
      /\ \/ OutputKept \/ OutputsRestored \/ OutputValuedAnew
         \/ OutputAppended \/ OutputRemoved
  BY OutputsStep
<1>2. outputs \in Seq(Output) /\ DOMAIN outputs = 1..Len(outputs) /\ Len(outputs) \in Nat
  BY DEF TypeInv, TypeOK
<1>3. CASE OutputKept
  BY <1>1, <1>3 DEF OutputKept, Shielded, ShieldAt
<1>4. CASE OutputsRestored
  BY <1>1, <1>4 DEF OutputsRestored, Shielded, ShieldAt, HasChangeOutput
<1>5. CASE Running /\ ~OutputKept /\ ~OutputsRestored
  <2>1. PICK s \in DOMAIN outputs : ShieldAt(outputs, s)
    BY <1>5 DEF Shielded
  <2>2. CASE OutputValuedAnew
    <3>1. PICK i \in DOMAIN outputs, v \in Nat : outputs' = [outputs EXCEPT ![i].value = v]
      BY <2>2 DEF OutputValuedAnew
    <3>2. outputs'[s].fixed = outputs[s].fixed /\ outputs'[s].protected = outputs[s].protected
          /\ outputs'[s].to = outputs[s].to /\ DOMAIN outputs' = DOMAIN outputs
      <4>1. outputs[i] \in Output
        BY <1>2
      <4> QED BY <3>1, <4>1 DEF Output
    <3> QED BY <1>1, <2>1, <3>2 DEF Shielded, ShieldAt
  <2>3. CASE OutputAppended
    <3>1. PICK o \in Output : outputs' = Append(outputs, o)
      BY <2>3 DEF OutputAppended
    <3>2. outputs'[s] = outputs[s] /\ s \in DOMAIN outputs'
      BY <1>2, <3>1
    <3> QED BY <1>1, <2>1, <3>2 DEF Shielded, ShieldAt
  <2>4. CASE OutputRemoved
    <3>1. PICK i \in DOMAIN outputs : ~outputs[i].protected /\ outputs' = RemoveAt(outputs, i)
      BY <2>4 DEF OutputRemoved
    <3>2. /\ outputs' \in Seq(Output) /\ Len(outputs') = Len(outputs) - 1
          /\ \A k \in 1..(Len(outputs) - 1) :
                 outputs'[k] = IF k < i THEN outputs[k] ELSE outputs[k + 1]
      BY <1>2, <3>1, RemoveAtProperties
    <3>3. s # i
      BY <2>1, <3>1 DEF ShieldAt
    <3> DEFINE t == IF s < i THEN s ELSE s - 1
    <3>4. t \in 1..(Len(outputs) - 1) /\ t \in DOMAIN outputs' /\ outputs'[t] = outputs[s]
      <4>1. t \in 1..(Len(outputs) - 1) /\ (t < i => t = s) /\ (~(t < i) => t + 1 = s)
        BY <1>2, <3>3
      <4> HIDE DEF t
      <4> QED BY <1>2, <3>2, <4>1
    <3> QED BY <1>1, <2>1, <3>4 DEF Shielded, ShieldAt
  <2> QED BY <1>1, <1>5, <2>2, <2>3, <2>4
<1> QED
  BY <1>1, <1>3, <1>4, <1>5 DEF OutputValuedAnew, OutputAppended, OutputRemoved

LEMMA ExclusionNext == TypeInv /\ ExclusionInv /\ [Next]_vars => ExclusionInv'
<1> SUFFICES ASSUME TypeInv, ExclusionInv, [Next]_vars PROVE ExclusionInv'
  OBVIOUS
<1>0. request' = request
  BY OutputsStep
<1> SUFFICES ASSUME HasChangeOutput
             PROVE  /\ (Running => Shielded)'
                    /\ ExcludedUnspent'
                    /\ (step \in {"deduct", "collect", "again", "check"} => call.keyed)'
  BY <1>0 DEF ExclusionInv, HasChangeOutput
<1> USE DEF ExclusionInv
<1>1. request' = request /\ OriginalInputs' = OriginalInputs
  BY OutputsStep DEF OriginalInputs
<1>2. (Running => Shielded)'
  BY ShieldKept
<1>3. Running => Creditable # {}
  BY DEF Shielded, ShieldAt, Creditable
<1>4. CASE AddInputsAndOutputs
  BY <1>1, <1>2, <1>4 DEF AddInputsAndOutputs, ExcludedUnspent
<1>5. CASE CalculateFee
  BY <1>1, <1>2, <1>5 DEF CalculateFee, ExcludedUnspent
<1>6. CASE CollectShortage
  BY <1>1, <1>2, <1>6 DEF CollectShortage, InjectSatoshi, ExcludedUnspent
<1>7. CASE EnlargeChange
  BY <1>3, <1>7 DEF EnlargeChange, Running
<1>8. CASE DeductFromOutput
  <2>1. call'.keyed = call.keyed
    BY <1>8, DeductEffect DEF TypeInv
  <2> QED BY <1>1, <1>2, <1>8, <2>1 DEF DeductFromOutput, ExcludedUnspent
<1>9. CASE CollectMissing
  <2>1. call.keyed
    BY <1>9 DEF CollectMissing
  <2>2. call'.keyed = call.keyed /\ (inputs' \ inputs) \cap request.excluded = {}
    BY <1>9, <2>1, CollectEffect DEF CollectMissing, TypeInv
  <2> QED BY <1>1, <1>2, <1>9, <2>1, <2>2 DEF CollectMissing, ExcludedUnspent
<1>10. CASE CollectForChange
  <2>1. call.keyed
    BY <1>10 DEF CollectForChange
  <2>2. call'.keyed = call.keyed /\ (inputs' \ inputs) \cap request.excluded = {}
    <3>1. CASE ChangeTooSmall
      BY <1>10, <2>1, <3>1, CollectEffect DEF CollectForChange, TypeInv
    <3>2. CASE ~ChangeTooSmall
      BY <1>10, <3>2 DEF CollectForChange
    <3> QED BY <3>1, <3>2
  <2> QED BY <1>1, <1>2, <1>10, <2>1, <2>2 DEF CollectForChange, ExcludedUnspent
<1>11. CASE \/ RejectRequest \/ ReturnSurplus \/ CreditOutput \/ AppendChange
            \/ FetchFails \/ InsufficientUtxo \/ SettleChange
  BY <1>1, <1>2, <1>11 DEF RejectRequest, ReturnSurplus, CreditOutput, AppendChange, FetchFails,
     InsufficientUtxo, SettleChange, InjectChange, Return, Fail, ExcludedUnspent
<1>12. CASE EndDeduction \/ UNCHANGED vars
  BY <1>1, <1>2, <1>12 DEF EndDeduction, vars, ExcludedUnspent
<1> QED BY <1>4, <1>5, <1>6, <1>7, <1>8, <1>9, <1>10, <1>11, <1>12 DEF Next

\* With a protected output to the change address, no excluded UTXO is ever collected.
THEOREM ExclusionHolds == Spec => []ExcludedUnspentWithChangeOutput
<1>1. Init => ExclusionInv
  BY DEF Init, ExclusionInv, Running, ExcludedUnspent
<1>2. Spec => [](TypeInv /\ ExclusionInv)
  BY <1>1, TypeInit, TypeNext, ExclusionNext, PTL DEF Spec
<1>3. ExclusionInv => ExcludedUnspentWithChangeOutput
  BY DEF ExclusionInv, ExcludedUnspentWithChangeOutput
<1> QED BY <1>2, <1>3, PTL

-----------------------------------------------------------------------------
(* When a call may give up.                                                *)

LEMMA InputsTotalMonotone ==
    ASSUME NEW S, NEW T, S \subseteq T
    PROVE  InputsTotal(S) <= InputsTotal(T)
<1>1. InputsTotal(S \cup (T \ S)) = InputsTotal(S) + InputsTotal(T \ S)
  BY InputsTotalUnion
<1>2. S \cup (T \ S) = T
  OBVIOUS
<1>3. /\ InputsTotal(S) \in Nat /\ InputsTotal(T \ S) \in Nat
      /\ InputsTotal(T) = InputsTotal(S) + InputsTotal(T \ S)
  BY <1>1, <1>2, InputsTotalNat
<1> QED BY <1>3

LEMMA InputsTotalMember ==
    ASSUME NEW S, NEW u \in Utxo, u \in S
    PROVE  Value[u] <= InputsTotal(S)
<1> DEFINE f == ValueIn({u})
<1>1. f[u] = Value[u] /\ f[u] \in Int /\ \A k \in 1..NumUtxo : k # u => f[k] = 0
  BY ConstantsAssumption DEF ValueIn, Utxo
<1>2. NumUtxo \in Nat /\ u \in 1..NumUtxo
  BY ConstantsAssumption DEF Utxo
<1> HIDE DEF f
<1>3. SumTo(f, NumUtxo) = Value[u]
  BY <1>1, <1>2, SumSingle
<1>4. InputsTotal({u}) = Value[u]
  BY <1>3 DEF f, InputsTotal, ValueIn
<1>5. InputsTotal({u}) <= InputsTotal(S)
  BY InputsTotalMonotone
<1> QED BY <1>4, <1>5

LEMMA InputsTotalNone == InputsTotal({}) = 0
<1> DEFINE f == ValueIn({})
<1>1. \A k \in 1..NumUtxo : f[k] = 0
  BY DEF ValueIn, Utxo
<1>2. NumUtxo \in Nat
  BY ConstantsAssumption
<1> HIDE DEF f
<1>3. SumTo(f, NumUtxo) = NumUtxo * 0
  BY <1>1, <1>2, SumConstant
<1> QED BY <1>2, <1>3 DEF f, InputsTotal, ValueIn

\* A collection that misses its target has taken every candidate.
LEMMA PickedAll ==
    ASSUME NEW candidates \in SUBSET Utxo, NEW target \in Int,
           InputsTotal(Picked(candidates, target)) < target
    PROVE  Picked(candidates, target) = candidates
<1> DEFINE picked == Picked(candidates, target)
           rest == candidates \ picked
<1>1. SUFFICES ASSUME rest # {} PROVE FALSE
  BY DEF Picked
<1>2. rest \in SUBSET Nat /\ candidates \in SUBSET Nat
  <2>1. Utxo \subseteq Nat
    BY ConstantsAssumption DEF Utxo
  <2> QED BY <2>1
<1>3. PICK u \in rest : \A v \in rest : u <= v
  <2> HIDE DEF rest
  <2> QED BY <1>1, <1>2, LeastExists
<1> DEFINE below == {v \in candidates : v < u}
<1>4. below \subseteq picked
  <2>1. ASSUME NEW v \in candidates, v < u PROVE v \notin rest
    <3>1. u \in Nat /\ v \in Nat
      BY <1>2
    <3>2. ~ (u <= v)
      BY <2>1, <3>1
    <3> QED BY <1>3, <3>2
  <2> QED BY <2>1
<1>5. ~ (InputsTotal(below) < target)
  BY <1>3 DEF Picked
<1> HIDE DEF below, picked
<1>6. InputsTotal(below) <= InputsTotal(picked)
  BY <1>4, InputsTotalMonotone
<1>7. InputsTotal(below) \in Nat /\ InputsTotal(picked) \in Nat /\ InputsTotal(picked) < target
  BY InputsTotalNat DEF picked
<1> QED BY <1>5, <1>6, <1>7

\* All of a listing is in the transaction, or must not be.
Exhausted == \E list \in Listings : list \subseteq inputs \cup request.excluded

LEMMA CollectExhausts ==
    ASSUME TypeOK, NEW target \in Int, Collect(target), request' = request
    PROVE  /\ call'.collected - call.collected < target => Exhausted'
           /\ \/ call'.collected = call.collected
              \/ call'.collected - call.collected >= MinUtxo
<1>1. PICK list \in (IF call.keyed /\ cached # {} THEN cached ELSE Listings) :
        LET excluded == inputs \cup (IF call.keyed THEN request.excluded ELSE {})
            picked == Picked(list \ excluded, target)
            collected == call.collected + InputsTotal(picked)
        IN  /\ inputs' = inputs \cup picked
            /\ call' = [call EXCEPT
                  !.collected = collected,
                  !.change = IF call.injectCollected THEN collected + call.amount
                                                     ELSE collected - call.amount]
            /\ cached' = IF call.keyed THEN {list} ELSE cached
  BY DEF Collect
<1> DEFINE excluded == inputs \cup (IF call.keyed THEN request.excluded ELSE {})
           picked == Picked(list \ excluded, target)
           total == InputsTotal(picked)
<1>2. list \in Listings /\ list \subseteq Utxo /\ picked \subseteq list
  BY ConstantsAssumption DEF TypeOK, Picked
<1>3. call \in Call /\ call.collected \in Int /\ total \in Nat /\ MinUtxo \in Nat
  BY InputsTotalNat, CallFields, ConstantsAssumption DEF TypeOK
<1>4. call'.collected - call.collected = total
  <2>1. call'.collected = call.collected + total
    BY <1>1, <1>3 DEF Call
  <2> HIDE DEF total
  <2> QED BY <1>3, <2>1
<1>5. ASSUME total < target PROVE Exhausted'
  <2>1. list \ excluded \in SUBSET Utxo
    BY <1>2
  <2>2. picked = list \ excluded
    <3> HIDE DEF excluded
    <3> QED BY <1>5, <2>1, PickedAll
  <2>3. list \subseteq inputs \cup picked \cup request.excluded
    BY <2>2
  <2>4. inputs' = inputs \cup picked
    BY <1>1
  <2> HIDE DEF picked
  <2> QED BY <1>2, <2>3, <2>4 DEF Exhausted
<1>6. total = 0 \/ total >= MinUtxo
  <2>1. CASE picked = {}
    BY <2>1, InputsTotalNone
  <2>2. CASE picked # {}
    <3>1. PICK u \in picked : TRUE
      BY <2>2
    <3>2. u \in Utxo /\ Value[u] >= MinUtxo
      BY <1>2, <3>1, ListingsAssumption
    <3>3. Value[u] <= total /\ Value[u] \in Nat
      BY <3>1, <3>2, InputsTotalMember, ConstantsAssumption
    <3> HIDE DEF total
    <3> QED BY <1>3, <3>2, <3>3
  <2> QED BY <2>1, <2>2
<1> HIDE DEF total
<1>7. total = 0 => call'.collected = call.collected
  <2>1. call'.collected \in Int
    <3>1. call' \in Call
      BY CollectEffect
    <3> QED BY <3>1, CallFields
  <2> QED BY <1>3, <1>4, <2>1
<1> QED BY <1>4, <1>5, <1>6, <1>7

\* Every output that may lose satoshi keeps its minimum.
Free(outs) == \A i \in DOMAIN outs : outs[i].fixed \/ outs[i].value >= outs[i].min

\* Then deduction takes satoshi from the outputs and never adds any.
LEMMA DeductTakes ==
    ASSUME TypeOK, DeductFromOutput, Free(outputs)
    PROVE  Free(outputs') /\ OutputsTotal(outputs') <= OutputsTotal(outputs)
<1> DEFINE i == call.next
           o == outputs[i]
           r == call.amount - call.collected
           taken == Deductible(o, r)
<1>1. /\ i \in DOMAIN outputs /\ o \in Output /\ outputs \in Seq(Output)
      /\ call.collected \in Int /\ call.amount \in Int /\ call'.collected \in Int
      /\ OutputsTotal(outputs) \in Nat
      /\ OutputsTotal(outputs') = OutputsTotal(outputs) - (call'.collected - call.collected)
  <2>1. i \in DOMAIN outputs /\ call \in Call /\ outputs \in Seq(Output) /\ call' \in Call
        /\ OutputsTotal(outputs') = OutputsTotal(outputs) - (call'.collected - call.collected)
    BY DeductEffect DEF TypeOK
  <2> QED BY <2>1, CallFields, OutputsTotalNat
<1>2. call'.collected >= call.collected
  <2>1. CASE o.fixed
    <3>1. call' = [call EXCEPT !.next = @ + 1]
      BY <2>1 DEF DeductFromOutput
    <3>2. call'.collected = call.collected
      BY <3>1 DEF TypeOK, Call
    <3> QED BY <1>1, <3>2
  <2>2. CASE ~o.fixed
    <3>1. o.value \in Nat /\ o.min \in Nat /\ o.value >= o.min /\ o.protected \in BOOLEAN
      BY <1>1, <2>2, OutputFields DEF Free
    <3>2. r > 0 /\ r \in Int
      BY <1>1, <2>2 DEF DeductFromOutput, Deducting
    <3>3. taken \in Int /\ taken >= 0
      <4> HIDE DEF r
      <4> QED BY <3>1, <3>2 DEF Deductible, Lesser
    <3>4. call'.collected = call.collected + taken
      BY <2>2 DEF DeductFromOutput, TypeOK, Call
    <3> HIDE DEF taken
    <3> QED BY <1>1, <3>3, <3>4
  <2> QED BY <2>1, <2>2
<1>3. OutputsTotal(outputs') <= OutputsTotal(outputs)
  BY <1>1, <1>2
<1>4. Free(outputs')
  <2>1. \/ outputs' = outputs
        \/ outputs' = RemoveAt(outputs, i)
        \/ \E v \in Nat : v >= outputs[i].min /\ outputs' = [outputs EXCEPT ![i].value = v]
    BY DeductEffect
  <2> HIDE DEF i
  <2>2. CASE outputs' = RemoveAt(outputs, i)
    <3>1. /\ outputs' \in Seq(Output) /\ Len(outputs') = Len(outputs) - 1
          /\ \A k \in 1..(Len(outputs) - 1) :
                 outputs'[k] = IF k < i THEN outputs[k] ELSE outputs[k + 1]
      <4>1. outputs \in Seq(Output) /\ i \in 1..Len(outputs)
        BY <1>1
      <4>2. /\ RemoveAt(outputs, i) \in Seq(Output)
            /\ Len(RemoveAt(outputs, i)) = Len(outputs) - 1
            /\ \A k \in 1..(Len(outputs) - 1) :
                   RemoveAt(outputs, i)[k] = IF k < i THEN outputs[k] ELSE outputs[k + 1]
        BY <4>1, RemoveAtProperties
      <4> QED BY <2>2, <4>2
    <3>2. ASSUME NEW k \in DOMAIN outputs'
          PROVE  outputs'[k].fixed \/ outputs'[k].value >= outputs'[k].min
      <4>1. k \in 1..(Len(outputs) - 1) /\ k \in DOMAIN outputs /\ k + 1 \in DOMAIN outputs
        BY <1>1, <3>1
      <4> QED BY <3>1, <4>1 DEF Free
    <3> QED BY <3>2 DEF Free
  <2>3. ASSUME NEW v \in Nat, v >= outputs[i].min, outputs' = [outputs EXCEPT ![i].value = v]
        PROVE  Free(outputs')
    <3>1. /\ DOMAIN outputs' = DOMAIN outputs
          /\ \A k \in DOMAIN outputs : k # i => outputs'[k] = outputs[k]
      BY <1>1, <2>3
    <3>2. outputs'[i].value >= outputs'[i].min
      BY <1>1, <2>3, OutputValued
    <3> QED BY <3>1, <3>2 DEF Free
  <2> QED BY <2>1, <2>2, <2>3
<1> QED BY <1>3, <1>4

\* The call in progress gives up only when a listing is exhausted, and the outputs are not
\* worth more than those of the caller until change is given back.
OutputsShrink ==
    NothingBelowMinimum /\ step \in CallSteps \cup {"loop", "change"} =>
        Free(outputs) /\ OutputsTotal(outputs) <= OutputsTotal(request.outputs)
Enlarging ==
    step \in CallSteps /\ call.injectCollected =>
        call.amount < MinUtxo /\ (call.collected = 0 \/ call.collected >= MinUtxo)
ShortOnlyIfExhausted ==
    /\ step \in {"again", "check"} /\ call.collected < call.amount => Exhausted
    /\ step = "check" /\ ChangeTooSmall => Exhausted
TightInv == OutputsShrink /\ Enlarging /\ ShortOnlyIfExhausted

\* Then all of the listing is worth less than the missing satoshi and the dust limit.
LEMMA TightFailure ==
    ASSUME BalanceInv, InputsAccounted, TightInv, NothingBelowMinimum, InsufficientUtxo
    PROVE  \E list \in Listings :
               InputsTotal(list \ (OriginalInputs \cup request.excluded)) < Shortage + MinUtxo
<1>1. /\ step = "check" /\ TypeOK
      /\ call.collected < call.amount \/ ChangeTooSmall
  BY DEF InsufficientUtxo, BalanceInv, TypeInv
<1>2. PICK list \in Listings : list \subseteq inputs \cup request.excluded
  BY <1>1 DEF TightInv, ShortOnlyIfExhausted, Exhausted
<1> DEFINE found == inputs \ OriginalInputs
           left == list \ (OriginalInputs \cup request.excluded)
<1>3. InputsTotal(left) <= InputsTotal(found)
  <2>1. left \subseteq found
    BY <1>2
  <2> QED BY <2>1, InputsTotalMonotone
<1>4. InputsTotal(inputs) = InputsTotal(OriginalInputs) + InputsTotal(found)
  <2>1. OriginalInputs \subseteq inputs
    BY <1>1 DEF InputsAccounted
  <2>2. inputs = OriginalInputs \cup found /\ OriginalInputs \cap found = {}
    BY <2>1
  <2> HIDE DEF found
  <2> QED BY <2>2, InputsTotalUnion
<1>5. /\ InputsTotal(inputs) \in Nat /\ InputsTotal(OriginalInputs) \in Nat
      /\ InputsTotal(found) \in Nat /\ InputsTotal(left) \in Nat
      /\ OutputsTotal(outputs) \in Nat /\ OutputsTotal(request.outputs) \in Nat
      /\ previousFee \in Nat /\ MinUtxo \in Nat
      /\ call.amount \in Int /\ call.collected \in Int /\ call.change \in Int
      /\ call.injectCollected \in BOOLEAN
  BY <1>1, InputsTotalNat, OutputsTotalNat, RequestFields, CallFields, ConstantsAssumption
     DEF TypeOK
<1>6. OutputsTotal(outputs) <= OutputsTotal(request.outputs)
  BY <1>1 DEF TightInv, OutputsShrink, CallSteps
<1> DEFINE surplus == IF call.injectCollected THEN call.collected + call.amount
                                              ELSE call.collected - call.amount
<1>7. /\ Remaining = Goal + surplus
      /\ call.change = surplus \/ call.change = 0
  BY <1>1 DEF BalanceInv, Conservation
<1>8. surplus \in Int /\ surplus < MinUtxo
  <2>1. CASE ChangeTooSmall
    BY <1>5, <1>7, <2>1 DEF ChangeTooSmall
  <2>2. CASE call.collected < call.amount /\ call.injectCollected
    <3>1. call.amount < MinUtxo /\ (call.collected = 0 \/ call.collected >= MinUtxo)
      BY <1>1, <2>2 DEF TightInv, Enlarging, CallSteps
    <3> QED BY <1>5, <2>2, <3>1
  <2>3. CASE call.collected < call.amount /\ ~call.injectCollected
    BY <1>5, <2>3
  <2> QED BY <1>1, <2>1, <2>2, <2>3
<1>9. Goal \in Nat /\ Goal <= previousFee + 1
  BY <1>5 DEF Goal
<1> HIDE DEF surplus, found, left
<1>10. InputsTotal(found) =
           Goal + surplus + OutputsTotal(outputs) - InputsTotal(OriginalInputs)
  BY <1>4, <1>5, <1>7, <1>8, <1>9 DEF Remaining
<1>11. InputsTotal(found) < Shortage + MinUtxo
  BY <1>5, <1>6, <1>8, <1>9, <1>10 DEF Shortage
<1>12. InputsTotal(left) < Shortage + MinUtxo
  <2>1. Shortage \in Int
    BY <1>5 DEF Shortage
  <2> QED BY <1>3, <1>5, <1>11, <2>1
<1> QED BY <1>12 DEF left

LEMMA TightNext == BalanceInv /\ TightInv /\ [Next]_vars => TightInv'
<1> SUFFICES ASSUME BalanceInv, TightInv, [Next]_vars PROVE TightInv'
  OBVIOUS
<1> USE DEF TightInv, OutputsShrink, Enlarging, ShortOnlyIfExhausted, CallSteps
<1>1. /\ TypeInv /\ TypeOK /\ request' = request /\ FreshRound /\ AmountsInRange
      /\ ChangePositive
  BY OutputsStep DEF BalanceInv, TypeInv
<1>2. NothingBelowMinimum' <=> NothingBelowMinimum
  BY <1>1 DEF NothingBelowMinimum
<1>3. /\ call.amount \in Int /\ call.collected \in Int /\ call.change \in Int
      /\ call.injectCollected \in BOOLEAN /\ MinUtxo \in Nat
  BY <1>1, CallFields, ConstantsAssumption DEF TypeOK
<1>4. NothingBelowMinimum =>
          /\ Free(request.outputs)
          /\ OutputsTotal(request.outputs) <= OutputsTotal(request.outputs)
  <2>1. OutputsTotal(request.outputs) \in Nat
    BY <1>1, RequestFields, OutputsTotalNat DEF TypeOK
  <2> QED BY <2>1 DEF NothingBelowMinimum, Free
<1>5. CASE RejectRequest \/ FetchFails \/ InsufficientUtxo
  BY <1>5 DEF RejectRequest, FetchFails, InsufficientUtxo, Fail
<1>6. CASE AddInputsAndOutputs
  BY <1>1, <1>2, <1>4, <1>6 DEF AddInputsAndOutputs
<1>7. CASE ReturnSurplus
  <2>1. step = "loop" /\ step' = "change" /\ outputs' = outputs
    BY <1>7 DEF ReturnSurplus, InjectChange
  <2> QED BY <1>1, <1>2, <2>1
<1>8. CASE CollectShortage
  <2>1. step = "loop" /\ step' = "deduct" /\ outputs' = outputs /\ call'.injectCollected = FALSE
    BY <1>8 DEF CollectShortage, InjectSatoshi
  <2> QED BY <1>1, <1>2, <2>1
<1>9. CASE CalculateFee
  <2>1. step' = "done" \/ (step' = "loop" /\ outputs' = request.outputs)
    BY <1>9 DEF CalculateFee
  <2> QED BY <1>1, <1>2, <1>4, <2>1
<1>10. CASE CreditOutput \/ AppendChange
  <2>1. step' = "fee"
    BY <1>10 DEF CreditOutput, AppendChange, Return
  <2> QED BY <2>1
<1>11. CASE EnlargeChange
  <2>1. /\ step = "change" /\ step' = "deduct" /\ outputs' = outputs
        /\ call'.amount = call.amount /\ call'.collected = 0 /\ call.amount < MinUtxo
    BY <1>11 DEF EnlargeChange, InjectSatoshi
  <2> QED BY <1>1, <1>2, <2>1
<1>12. CASE DeductFromOutput
  <2>1. step = "deduct" /\ step' = "deduct"
    BY <1>12 DEF DeductFromOutput
  <2>2. ~call.injectCollected /\ call'.injectCollected = call.injectCollected
    <3>1. call.deduct /\ call'.injectCollected = call.injectCollected
      BY <1>1, <1>12, DeductEffect
    <3> QED BY <1>1, <2>1, <3>1 DEF AmountsInRange
  <2>3. NothingBelowMinimum =>
            Free(outputs') /\ OutputsTotal(outputs') <= OutputsTotal(request.outputs)
    <3>1. SUFFICES ASSUME NothingBelowMinimum
                   PROVE  Free(outputs') /\ OutputsTotal(outputs') <= OutputsTotal(request.outputs)
      OBVIOUS
    <3>2. Free(outputs) /\ OutputsTotal(outputs) <= OutputsTotal(request.outputs)
      BY <2>1, <3>1
    <3>3. Free(outputs') /\ OutputsTotal(outputs') <= OutputsTotal(outputs)
      BY <1>1, <1>12, <3>2, DeductTakes
    <3>4. /\ OutputsTotal(outputs) \in Nat /\ OutputsTotal(request.outputs) \in Nat
          /\ OutputsTotal(outputs') \in Nat
      <4>1. outputs' \in Seq(Output)
        BY <1>1, <1>12, DeductEffect
      <4> QED BY <1>1, <4>1, RequestFields, OutputsTotalNat DEF TypeOK
    <3> QED BY <3>2, <3>3, <3>4
  <2> QED BY <1>1, <1>2, <2>1, <2>2, <2>3
<1>13. CASE EndDeduction
  <2>1. /\ step = "deduct" /\ step' \in {"collect", "again"} /\ call' = call /\ outputs' = outputs
        /\ step' = "again" => ~ (call.collected < call.amount)
    BY <1>13 DEF EndDeduction
  <2> QED BY <1>1, <1>2, <2>1
<1>14. CASE CollectMissing
  <2> DEFINE target == call.amount - call.collected
  <2>1. step = "collect" /\ step' = "again" /\ outputs' = outputs /\ Collect(target)
    BY <1>14 DEF CollectMissing
  <2>2. target \in Int
    BY <1>3
  <2>3. /\ call' \in Call /\ call'.collected - call.collected \in Nat
        /\ call'.amount = call.amount /\ call'.injectCollected = call.injectCollected
    BY <1>1, <2>1, CollectEffect
  <2>4. /\ call'.collected - call.collected < target => Exhausted'
        /\ call'.collected = call.collected \/ call'.collected - call.collected >= MinUtxo
    BY <1>1, <2>1, <2>2, CollectExhausts
  <2>5. call'.collected \in Int
    BY <2>3, CallFields
  <2>6. Enlarging'
    BY <1>3, <2>1, <2>3, <2>4, <2>5
  <2>7. ShortOnlyIfExhausted'
    BY <1>3, <2>1, <2>3, <2>4, <2>5
  <2>8. OutputsShrink'
    BY <1>1, <1>2, <2>1
  <2> QED BY <2>6, <2>7, <2>8
<1>15. CASE CollectForChange
  <2>1. step = "again" /\ step' = "check" /\ outputs' = outputs
    BY <1>15 DEF CollectForChange
  <2>2. CASE ChangeTooSmall
    <3> DEFINE target == MinUtxo - call.change
    <3>1. Collect(target)
      BY <1>15, <2>2 DEF CollectForChange
    <3>2. target \in Int
      BY <1>3
    <3>3. /\ call' \in Call /\ call'.collected - call.collected \in Nat /\ inputs \subseteq inputs'
          /\ call'.amount = call.amount /\ call'.injectCollected = call.injectCollected
          /\ call'.change = IF call.injectCollected THEN call'.collected + call.amount
                                                    ELSE call'.collected - call.amount
      BY <1>1, <3>1, CollectEffect
    <3>4. /\ call'.collected - call.collected < target => Exhausted'
          /\ call'.collected = call.collected \/ call'.collected - call.collected >= MinUtxo
      BY <1>1, <3>1, <3>2, CollectExhausts
    <3>5. call'.collected \in Int
      BY <3>3, CallFields
    <3>6. Enlarging'
      BY <1>3, <2>1, <3>3, <3>4, <3>5
    <3>7. call.change = IF call.injectCollected THEN call.collected + call.amount
                                                ELSE call.collected - call.amount
      BY <2>1, <2>2 DEF ChangeTooSmall, BalanceInv, Conservation
    <3>8. ChangeTooSmall' => call'.collected - call.collected < target
      <4>1. ChangeTooSmall' => call'.change < MinUtxo
        BY DEF ChangeTooSmall
      <4> QED BY <1>3, <3>3, <3>5, <3>7, <4>1
    <3>9. call'.collected < call'.amount => Exhausted'
      <4>1. call'.collected < call'.amount => call.collected < call.amount
        BY <1>3, <3>3, <3>5
      <4>2. Exhausted => Exhausted'
        BY <1>1, <3>3 DEF Exhausted
      <4> QED BY <2>1, <4>1, <4>2
    <3>10. ShortOnlyIfExhausted'
      BY <2>1, <3>4, <3>8, <3>9
    <3>11. OutputsShrink'
      BY <1>1, <1>2, <2>1
    <3> QED BY <3>6, <3>10, <3>11
  <2>3. CASE ~ChangeTooSmall
    <3>1. call' = call /\ inputs' = inputs
      BY <1>15, <2>3 DEF CollectForChange
    <3>2. ChangeTooSmall' <=> ChangeTooSmall
      BY <1>1, <2>1, <3>1 DEF ChangeTooSmall, CanInjectChangeToOutputs
    <3>3. Exhausted' <=> Exhausted
      BY <1>1, <3>1 DEF Exhausted
    <3> QED BY <1>1, <1>2, <2>1, <2>3, <3>1, <3>2, <3>3
  <2> QED BY <2>2, <2>3
<1>16. CASE SettleChange
  <2>1. step = "check" /\ step' \in {"change", "fee"} /\ outputs' = outputs
    BY <1>16 DEF SettleChange, InjectChange, Return
  <2> QED BY <1>1, <1>2, <2>1
<1>17. CASE UNCHANGED vars
  <2>1. ChangeTooSmall' <=> ChangeTooSmall
    BY <1>17 DEF vars, ChangeTooSmall, CanInjectChangeToOutputs
  <2>2. Exhausted' <=> Exhausted
    BY <1>17 DEF vars, Exhausted
  <2>3. outputs' = outputs /\ call' = call /\ step' = step
    BY <1>17 DEF vars
  <2> QED BY <1>1, <1>2, <2>1, <2>2, <2>3
<1> QED BY <1>5, <1>6, <1>7, <1>8, <1>9, <1>10, <1>11, <1>12, <1>13, <1>14, <1>15, <1>16,
           <1>17 DEF Next

\* INSUFFICIENT_UTXO is thrown only if the service listed less than the missing satoshi
\* plus the dust limit: deduction, the first and the second collection and the change that
\* calls for more have then taken everything that a listing offered.
THEOREM InsufficientIfTight == Spec => []InsufficientOnlyIfTight
<1> DEFINE IInv == BalanceInv /\ InputsAccounted /\ TightInv /\ InsufficientOnlyIfTight
<1>1. Init => TightInv /\ InsufficientOnlyIfTight
  BY DEF Init, TightInv, OutputsShrink, Enlarging, ShortOnlyIfExhausted, CallSteps,
     InsufficientOnlyIfTight
<1>2. BalanceInv /\ InputsAccounted /\ TightInv /\ InsufficientOnlyIfTight /\ [Next]_vars
          => InsufficientOnlyIfTight'
  <2> SUFFICES ASSUME BalanceInv, InputsAccounted, TightInv, InsufficientOnlyIfTight,
                      [Next]_vars, step' = "insufficient", NothingBelowMinimum'
               PROVE  (\E list \in Listings :
                          InputsTotal(list \ (OriginalInputs \cup request.excluded))
                              < Shortage + MinUtxo)'
    BY DEF InsufficientOnlyIfTight
  <2>1. request' = request
    BY OutputsStep DEF BalanceInv
  <2>2. NothingBelowMinimum
    BY <2>1 DEF NothingBelowMinimum
  <2>3. CASE InsufficientUtxo
    <3>1. \E list \in Listings :
              InputsTotal(list \ (OriginalInputs \cup request.excluded)) < Shortage + MinUtxo
      BY <2>2, <2>3, TightFailure
    <3>2. previousFee' = previousFee
      BY <2>3 DEF InsufficientUtxo, Fail
    <3> QED BY <2>1, <3>1, <3>2 DEF Shortage, OriginalInputs, InputsTotal
  <2>4. CASE UNCHANGED vars
    <3>1. previousFee' = previousFee /\ step = "insufficient"
      BY <2>4 DEF vars
    <3> QED BY <2>1, <2>2, <3>1 DEF InsufficientOnlyIfTight, Shortage, OriginalInputs, InputsTotal
  <2> QED
    BY <2>3, <2>4 DEF Next, RejectRequest, Fail, AddInputsAndOutputs, ReturnSurplus,
       CollectShortage, CalculateFee, CreditOutput, AppendChange, EnlargeChange, InjectChange,
       InjectSatoshi, Return, DeductFromOutput, EndDeduction, CollectMissing,
       CollectForChange, FetchFails, SettleChange
<1> QED BY <1>1, <1>2, TightNext, BalanceAlways, OnlySendersUtxos, PTL DEF Spec

-----------------------------------------------------------------------------
(* The replacement of a transaction that is not mined yet: the invariants  *)
(* of the builder are carried into the call that drives it.                *)

\* The outputs before this one keep their index: all of them, or all but a change
\* that stands last.
Leading == IF IsLastOutput THEN Len(sent.outputs) - 1 ELSE Len(sent.outputs)

\* The receivers stand where they stood, and only the change stands elsewhere.
LayoutKept(outs) ==
    /\ Leading <= Len(outs)
    /\ \A k \in 1..Leading :
           IF k = Index
           THEN outs[k].protected /\ outs[k].to = ChangeAddress
           ELSE /\ outs[k].fixed
                /\ outs[k].to = sent.outputs[k].to /\ outs[k].value = sent.outputs[k].value
    /\ \A k \in DOMAIN outs : k > Leading => outs[k].to = ChangeAddress

\* What the replacement is built from.
Rebuilding ==
    /\ ChangeFound
    /\ request.inputs = sent.inputs /\ request.change = ChangeAddress
    /\ LayoutKept(request.outputs)

\* No output is in the builder before createSendUtxosBuilder is called.
NothingBuilt ==
    /\ inputs = {} /\ outputs = <<>> /\ previousFee = 0 /\ currentFee = 0
    /\ changeIndex = NoChange /\ call = NoCall /\ cached = {} /\ request.outputs = <<>>

BuilderInv == BalanceInv /\ FeePaid /\ InputsAccounted /\ ExclusionInv

\* ReceiversKept and FeeNeverLower speak of the last step; while the builder runs, the
\* layout is kept and the builder's invariants hold.
RbfInv ==
    /\ sent \in Sent /\ props \in Calls
    /\ step \in Steps \cup {"rebuild", "refused", "replaced"}
    /\ step = "rebuild" => NothingBuilt
    /\ step \in Steps => Rebuilding /\ BuilderInv /\ (Running => LayoutKept(outputs))
    /\ ExcludedUnspentWithChangeOutput /\ ReceiversKept /\ FeeNeverLower

-----------------------------------------------------------------------------
(* The outputs the builder is given.                                       *)

LEMMA SentFields ==
    ASSUME sent \in Sent, props \in Calls
    PROVE  /\ sent.inputs \in Seq(Utxo) /\ sent.own \in SUBSET Utxo
           /\ sent.outputs \in Seq(SentOutput)
           /\ \A i \in DOMAIN sent.outputs :
                  ~ sent.outputs[i].opReturn => sent.outputs[i].to \in Address
           /\ props.from \in Address /\ props.changeIndex \in Nat
           /\ props.changeAddress \in Address \cup {NoAddress}
           /\ props.validOutputs \in BOOLEAN /\ props.greater \in BOOLEAN
<1>1. sent \in [inputs: Seq(Utxo), outputs: Seq(SentOutput), own: SUBSET Utxo]
  BY RbfAssumption
<1>2. props \in [from: Address, changeIndex: Nat, changeAddress: Address \cup {NoAddress},
                 rateGiven: BOOLEAN, validOutputs: BOOLEAN, greater: BOOLEAN]
  BY RbfAssumption
<1>3. \A i \in DOMAIN sent.outputs : ~ sent.outputs[i].opReturn => sent.outputs[i].to \in Address
  BY RbfAssumption
<1> QED BY <1>1, <1>2, <1>3

LEMMA ChangeAddressType ==
    ASSUME sent \in Sent, props \in Calls, ChangeFound
    PROVE  ChangeAddress \in Address
BY SentFields DEF ChangeFound, ChangeAddress, Index

LEMMA RebuiltOutputs ==
    ASSUME sent \in Sent, props \in Calls
    PROVE  /\ Rebuilt \in Seq(Output) /\ Len(Rebuilt) = Len(sent.outputs)
           /\ \A k \in 1..Len(sent.outputs) :
                  /\ Rebuilt[k].to = sent.outputs[k].to /\ Rebuilt[k].fixed
                  /\ Rebuilt[k].value = sent.outputs[k].value
<1>1. sent.outputs \in Seq(SentOutput) /\ props.validOutputs \in BOOLEAN /\ MinUtxo \in Nat
  BY SentFields, ConstantsAssumption
<1>2. Len(sent.outputs) \in Nat /\ DOMAIN sent.outputs = 1..Len(sent.outputs)
  BY <1>1
<1>3. \A k \in 1..Len(sent.outputs) :
          /\ Rebuilt[k] \in Output
          /\ Rebuilt[k].to = sent.outputs[k].to /\ Rebuilt[k].fixed
          /\ Rebuilt[k].value = sent.outputs[k].value
  <2> TAKE k \in 1..Len(sent.outputs)
  <2>1. sent.outputs[k] \in SentOutput
    BY <1>1
  <2>2. /\ sent.outputs[k].to \in Address \cup {Script} /\ sent.outputs[k].value \in Nat
        /\ sent.outputs[k].opReturn \in BOOLEAN
    BY <2>1 DEF SentOutput
  <2> QED BY <1>1, <1>2, <2>2 DEF Rebuilt, Output
<1>4. DOMAIN Rebuilt = 1..Len(sent.outputs) /\ Rebuilt = [k \in 1..Len(sent.outputs) |-> Rebuilt[k]]
  BY <1>2 DEF Rebuilt
<1>5. Rebuilt \in Seq(Output)
  <2> DEFINE r == Rebuilt
  <2>1. r = [k \in 1..Len(sent.outputs) |-> r[k]] /\ \A k \in 1..Len(sent.outputs) : r[k] \in Output
    BY <1>3, <1>4
  <2> HIDE DEF r
  <2>2. r \in Seq(Output)
    BY <1>2, <2>1
  <2> QED BY <2>2 DEF r
<1>6. Len(Rebuilt) = Len(sent.outputs)
  <2> DEFINE r == Rebuilt
  <2>1. r \in Seq(Output) /\ DOMAIN r = 1..Len(sent.outputs)
    BY <1>4, <1>5
  <2> HIDE DEF r
  <2>2. Len(r) = Len(sent.outputs)
    BY <1>2, <2>1, LenProperties
  <2> QED BY <2>2 DEF r
<1> QED BY <1>3, <1>5, <1>6

\* The builder is given the receivers at their index, and the change shrunk or dropped.
LEMMA OutputsLayout ==
    ASSUME sent \in Sent, props \in Calls, ChangeFound
    PROVE  Outputs \in Seq(Output) /\ LayoutKept(Outputs)
<1> DEFINE n == Len(sent.outputs)
<1>1. /\ Rebuilt \in Seq(Output) /\ Len(Rebuilt) = n
      /\ \A k \in 1..n : /\ Rebuilt[k].to = sent.outputs[k].to /\ Rebuilt[k].fixed
                         /\ Rebuilt[k].value = sent.outputs[k].value
  BY RebuiltOutputs
<1>2. n \in Nat /\ Index \in Nat /\ MinUtxo \in Nat /\ DOMAIN sent.outputs = 1..n
  BY SentFields, ConstantsAssumption DEF Index
<1> HIDE DEF n
<1>3. CASE Index = NoChange
  <2>1. Outputs = Rebuilt
    BY <1>3 DEF Outputs, IsLastOutput
  <2>2. Leading = n /\ Index \notin 1..n
    BY <1>2, <1>3 DEF Leading, IsLastOutput, NoChange, n
  <2> QED BY <1>1, <1>2, <2>1, <2>2 DEF LayoutKept
<1>4. CASE Index # NoChange /\ Index = n
  <2> DEFINE front == Front(Rebuilt)
  <2>1. Outputs = front /\ Leading = n - 1 /\ n \in 1..n /\ Index \notin 1..(n - 1)
    BY <1>1, <1>2, <1>4 DEF Outputs, Leading, IsLastOutput, NoChange, n
  <2>2. front \in Seq(Output) /\ Len(front) = n - 1 /\ \A k \in 1..(n - 1) : front[k] = Rebuilt[k]
    <3> DEFINE r == Rebuilt
    <3>1. r \in Seq(Output) /\ Len(r) = n
      BY <1>1
    <3> HIDE DEF r
    <3>2. /\ Front(r) \in Seq(Output) /\ Len(Front(r)) = n - 1
          /\ \A k \in 1..(n - 1) : Front(r)[k] = r[k]
      BY <1>2, <2>1, <3>1 DEF Front
    <3> QED BY <3>2 DEF r
  <2> HIDE DEF front
  <2>3. DOMAIN front = 1..(n - 1)
    BY <2>2
  <2>4. \A k \in 1..(n - 1) : k \in 1..n
    BY <1>2
  <2> QED BY <1>1, <1>2, <2>1, <2>2, <2>3, <2>4 DEF LayoutKept
<1>5. CASE Index # NoChange /\ Index # n
  <2> DEFINE r == Rebuilt
             o == r[Index]
             p == [to |-> o.to, value |-> MinUtxo, min |-> MinUtxo, fixed |-> FALSE,
                   protected |-> TRUE, opReturn |-> o.opReturn]
             shrunk == [r EXCEPT ![Index] = p]
  <2>1. Index \in 1..n /\ Leading = n /\ sent.outputs[Index].to = ChangeAddress
    BY <1>2, <1>5 DEF ChangeFound, Leading, IsLastOutput, n, ChangeAddress, NoChange
  <2>2. /\ r \in Seq(Output) /\ Len(r) = n
        /\ \A k \in 1..n : /\ r[k].to = sent.outputs[k].to /\ r[k].fixed
                           /\ r[k].value = sent.outputs[k].value
    BY <1>1
  <2>3. Outputs = shrunk
    BY <1>1, <1>5 DEF Outputs, IsLastOutput, n
  <2> HIDE DEF r
  <2>4. o \in Output
    BY <2>1, <2>2
  <2>5. p \in Output /\ p.protected /\ p.to = ChangeAddress
    BY <1>2, <2>1, <2>2, <2>4 DEF Output
  <2> HIDE DEF p
  <2>6. /\ shrunk \in Seq(Output) /\ Len(shrunk) = n /\ shrunk[Index] = p
        /\ \A k \in 1..n : k # Index => shrunk[k] = r[k]
    BY <1>2, <2>1, <2>2, <2>5
  <2> HIDE DEF shrunk
  <2> QED BY <1>2, <2>1, <2>2, <2>3, <2>5, <2>6 DEF LayoutKept
<1> QED BY <1>3, <1>4, <1>5

-----------------------------------------------------------------------------
(* The builder keeps the layout.                                           *)

LEMMA LayoutNext ==
    ASSUME TypeInv, [Next]_vars, UNCHANGED <<sent, props>>, sent \in Sent, props \in Calls,
           Rebuilding, Running => LayoutKept(outputs), Running'
    PROVE  LayoutKept(outputs)'
<1>1. /\ request' = request
      /\ \/ OutputKept \/ OutputsRestored \/ OutputValuedAnew
         \/ OutputAppended \/ OutputRemoved
  BY OutputsStep
<1>2. outputs \in Seq(Output) /\ DOMAIN outputs = 1..Len(outputs) /\ Len(outputs) \in Nat
  BY DEF TypeInv, TypeOK
<1>3. Leading \in Int /\ Leading' = Leading /\ Index' = Index /\ ChangeAddress' = ChangeAddress
  <2>1. Len(sent.outputs) \in Nat
    BY SentFields
  <2> QED BY <2>1 DEF Leading, IsLastOutput, Index, ChangeAddress
<1>4. ASSUME LayoutKept(outputs') PROVE LayoutKept(outputs)'
  BY <1>3, <1>4 DEF LayoutKept
<1>5. CASE OutputKept
  BY <1>4, <1>5 DEF OutputKept
<1>6. CASE OutputsRestored
  BY <1>4, <1>6 DEF OutputsRestored, Rebuilding
<1>7. CASE OutputValuedAnew
  <2>1. PICK i \in DOMAIN outputs, v \in Nat :
            Running /\ ~outputs[i].fixed /\ outputs' = [outputs EXCEPT ![i].value = v]
    BY <1>7 DEF OutputValuedAnew
  <2>2. /\ Len(outputs') = Len(outputs) /\ DOMAIN outputs' = DOMAIN outputs
        /\ outputs'[i] = [outputs[i] EXCEPT !.value = v] /\ outputs[i] \in Output
        /\ \A k \in DOMAIN outputs : k # i => outputs'[k] = outputs[k]
    BY <1>2, <2>1
  <2>3. outputs'[i].to = outputs[i].to /\ outputs'[i].protected = outputs[i].protected
    BY <2>2, OutputValued
  <2>4. LayoutKept(outputs) /\ \A k \in 1..Leading : k \in DOMAIN outputs
    BY <1>2, <1>3, <2>1 DEF LayoutKept
  <2>5. LayoutKept(outputs')
    BY <2>1, <2>2, <2>3, <2>4 DEF LayoutKept
  <2> QED BY <1>4, <2>5
<1>8. CASE OutputAppended
  <2>1. PICK o \in Output : Running /\ o.to = request.change /\ outputs' = Append(outputs, o)
    BY <1>8 DEF OutputAppended
  <2>2. /\ Len(outputs') = Len(outputs) + 1 /\ DOMAIN outputs' = 1..(Len(outputs) + 1)
        /\ outputs'[Len(outputs) + 1] = o
        /\ \A k \in DOMAIN outputs : outputs'[k] = outputs[k]
    BY <1>2, <2>1
  <2>3. LayoutKept(outputs) /\ \A k \in 1..Leading : k \in DOMAIN outputs
    BY <1>2, <1>3, <2>1 DEF LayoutKept
  <2>4. o.to = ChangeAddress
    BY <2>1 DEF Rebuilding
  <2>5. ASSUME NEW k \in DOMAIN outputs', k > Leading PROVE outputs'[k].to = ChangeAddress
    <3>1. k \in DOMAIN outputs \/ k = Len(outputs) + 1
      BY <1>2, <2>2
    <3> QED BY <2>2, <2>3, <2>4, <2>5, <3>1 DEF LayoutKept
  <2>6. Leading <= Len(outputs')
    BY <1>2, <1>3, <2>2, <2>3 DEF LayoutKept
  <2>7. LayoutKept(outputs')
    BY <2>2, <2>3, <2>5, <2>6 DEF LayoutKept
  <2> QED BY <1>4, <2>7
<1>9. CASE OutputRemoved
  <2>1. PICK i \in DOMAIN outputs : /\ Running /\ ~outputs[i].fixed /\ ~outputs[i].protected
                                    /\ outputs' = RemoveAt(outputs, i)
    BY <1>9 DEF OutputRemoved
  <2>2. /\ Len(outputs') = Len(outputs) - 1 /\ DOMAIN outputs' = 1..(Len(outputs) - 1)
        /\ \A k \in 1..(Len(outputs) - 1) :
               outputs'[k] = IF k < i THEN outputs[k] ELSE outputs[k + 1]
    <3>1. /\ outputs' \in Seq(Output) /\ Len(outputs') = Len(outputs) - 1
          /\ \A k \in 1..(Len(outputs) - 1) :
                 outputs'[k] = IF k < i THEN outputs[k] ELSE outputs[k + 1]
      BY <1>2, <2>1, RemoveAtProperties
    <3> QED BY <3>1
  <2>3. LayoutKept(outputs) /\ i \in 1..Len(outputs)
    BY <1>2, <2>1
  <2>4. i > Leading
    <3>1. i \notin 1..Leading
      BY <2>1, <2>3 DEF LayoutKept
    <3> QED BY <1>3, <2>3, <3>1
  <2>5. \A k \in 1..Leading : outputs'[k] = outputs[k]
    BY <1>2, <1>3, <2>2, <2>3, <2>4
  <2>6. ASSUME NEW k \in DOMAIN outputs', k > Leading PROVE outputs'[k].to = ChangeAddress
    <3>1. /\ k \in DOMAIN outputs /\ k + 1 \in DOMAIN outputs /\ k + 1 > Leading
          /\ outputs'[k] \in {outputs[k], outputs[k + 1]}
      BY <1>2, <1>3, <2>2, <2>6
    <3> QED BY <2>3, <2>6, <3>1 DEF LayoutKept
  <2>7. Leading <= Len(outputs')
    BY <1>2, <1>3, <2>2, <2>3, <2>4
  <2>8. LayoutKept(outputs')
    BY <2>3, <2>5, <2>6, <2>7 DEF LayoutKept
  <2> QED BY <1>4, <2>8
<1> QED BY <1>1, <1>5, <1>6, <1>7, <1>8, <1>9

LEMMA RebuildingKept ==
    ASSUME Rebuilding, request' = request, UNCHANGED <<sent, props>>
    PROVE  Rebuilding'
BY DEF Rebuilding, ChangeFound, ChangeAddress, LayoutKept, Leading, IsLastOutput, Index

-----------------------------------------------------------------------------
(* The inductive invariant.                                                *)

LEMMA RbfInit_Inv == RbfInit => RbfInv
<1> SUFFICES ASSUME RbfInit PROVE RbfInv
  OBVIOUS
<1>1. sent \in Sent /\ props \in Calls /\ step = "rebuild" /\ NothingBuilt
  BY DEF RbfInit, NothingBuilt
<1>2. ExcludedUnspentWithChangeOutput
  BY <1>1 DEF ExcludedUnspentWithChangeOutput, ExcludedUnspent, NothingBuilt
<1> QED BY <1>1, <1>2 DEF RbfInv, Steps, ReceiversKept, FeeNeverLower

LEMMA CreateSendRbfInv == RbfInv /\ CreateSendRbf => RbfInv'
<1> SUFFICES ASSUME RbfInv, CreateSendRbf PROVE RbfInv'
  OBVIOUS
<1>1. /\ sent \in Sent /\ props \in Calls /\ sent' = sent /\ props' = props
      /\ NothingBuilt /\ ChangeFound /\ step' = "prepare"
      /\ request' = [inputs |-> sent.inputs, outputs |-> Outputs, change |-> ChangeAddress,
                     excluded |-> sent.own, deduct |-> TRUE]
      /\ UNCHANGED <<inputs, outputs, previousFee, currentFee, changeIndex, call, cached>>
  BY DEF RbfInv, CreateSendRbf
<1>2. Outputs \in Seq(Output) /\ LayoutKept(Outputs) /\ ChangeAddress \in Address
  BY <1>1, OutputsLayout, ChangeAddressType
<1>3. sent.inputs \in Seq(Utxo) /\ sent.own \in SUBSET Utxo
  BY <1>1, SentFields
<1>4. request' \in Request
  BY <1>1, <1>2, <1>3 DEF Request
<1>5. Rebuilding'
  BY <1>1, <1>2 DEF Rebuilding, ChangeFound, ChangeAddress, LayoutKept, Leading, IsLastOutput,
     Index
<1>6. TypeInv'
  BY <1>1, <1>4 DEF NothingBuilt, TypeInv, TypeOK, ChangePositive, Steps, Call, NoCall, NoChange
<1>7. BuilderInv'
  BY <1>1, <1>6 DEF NothingBuilt, BuilderInv, BalanceInv, FreshRound, AmountsInRange,
     Conservation, CallSteps, FeePaid, InputsAccounted, ExclusionInv, Running, ExcludedUnspent
<1>8. ExcludedUnspentWithChangeOutput'
  BY <1>1 DEF NothingBuilt, ExcludedUnspentWithChangeOutput, ExcludedUnspent
<1> QED BY <1>1, <1>5, <1>7, <1>8 DEF RbfInv, Steps, Running, ReceiversKept, FeeNeverLower

LEMMA BuildInv == RbfInv /\ Build => RbfInv'
<1> SUFFICES ASSUME RbfInv, Build PROVE RbfInv'
  OBVIOUS
<1>1. [Next]_vars /\ UNCHANGED <<sent, props>>
  BY DEF Build
<1>2. step \in Steps /\ step # "rebuild"
  BY DEF Build, Next, RejectRequest, AddInputsAndOutputs, ReturnSurplus, CollectShortage,
     CalculateFee, CreditOutput, AppendChange, EnlargeChange, DeductFromOutput, EndDeduction,
     CollectMissing, CollectForChange, FetchFails, InsufficientUtxo, SettleChange, Steps
<1>3. sent \in Sent /\ props \in Calls /\ Rebuilding /\ (Running => LayoutKept(outputs))
  BY <1>2 DEF RbfInv
<1>4. BalanceInv /\ FeePaid /\ InputsAccounted /\ ExclusionInv /\ TypeInv
  BY <1>2 DEF RbfInv, BuilderInv, BalanceInv
<1>5. BuilderInv'
  BY <1>1, <1>4, BalanceNext, FeePaidNext, AccountedNext, ExclusionNext DEF BuilderInv
<1>6. step' \in Steps /\ step' \notin {"rebuild", "refused", "replaced"}
  BY <1>5 DEF BuilderInv, BalanceInv, TypeInv, TypeOK, Steps
<1>7. Rebuilding' /\ (Running => LayoutKept(outputs))'
  <2>1. request' = request
    BY <1>1, <1>4, OutputsStep
  <2> QED BY <1>1, <1>3, <1>4, <2>1, RebuildingKept, LayoutNext
<1>8. ExcludedUnspentWithChangeOutput'
  BY <1>5 DEF BuilderInv, ExclusionInv, ExcludedUnspentWithChangeOutput
<1> QED BY <1>1, <1>3, <1>5, <1>6, <1>7, <1>8 DEF RbfInv, ReceiversKept, FeeNeverLower

\* What a finished builder means for the sent transaction.
LEMMA LayoutMeansKept ==
    ASSUME sent \in Sent, props \in Calls, Rebuilding, outputs \in Seq(Output),
           LayoutKept(outputs)
    PROVE  /\ \A i \in DOMAIN sent.outputs \ {Index} :
                  /\ i \in DOMAIN outputs
                  /\ outputs[i].to = sent.outputs[i].to /\ outputs[i].value = sent.outputs[i].value
           /\ \A i \in DOMAIN outputs :
                  i \notin DOMAIN sent.outputs \ {Index} => outputs[i].to = ChangeAddress
<1>1. /\ Len(sent.outputs) \in Nat /\ DOMAIN sent.outputs = 1..Len(sent.outputs)
      /\ Len(outputs) \in Nat /\ DOMAIN outputs = 1..Len(outputs) /\ Index \in Nat
  BY SentFields DEF Index
<1>2. ASSUME NEW i \in DOMAIN sent.outputs \ {Index}
      PROVE  /\ i \in DOMAIN outputs
             /\ outputs[i].to = sent.outputs[i].to /\ outputs[i].value = sent.outputs[i].value
  <2>1. i \in 1..Leading
    BY <1>1 DEF Leading, IsLastOutput
  <2> QED BY <1>1, <2>1 DEF LayoutKept, Leading
<1>3. ASSUME NEW i \in DOMAIN outputs, i \notin DOMAIN sent.outputs \ {Index}
      PROVE  outputs[i].to = ChangeAddress
  <2>1. i > Leading \/ (i = Index /\ i \in 1..Leading)
    BY <1>1, <1>3 DEF Leading, IsLastOutput, NoChange
  <2> QED BY <2>1 DEF LayoutKept
<1> QED BY <1>2, <1>3

LEMMA PreviousFeeInt == sent \in Sent /\ props \in Calls => PreviousFee \in Int
<1> SUFFICES ASSUME sent \in Sent, props \in Calls PROVE PreviousFee \in Int
  OBVIOUS
<1> DEFINE f == [i \in DOMAIN sent.outputs |-> sent.outputs[i].value]
<1>1. Len(sent.outputs) \in Nat /\ \A i \in 1..Len(sent.outputs) : f[i] \in Nat
  <2>1. sent.outputs \in Seq(SentOutput) /\ DOMAIN sent.outputs = 1..Len(sent.outputs)
    BY SentFields
  <2>2. \A i \in DOMAIN sent.outputs : sent.outputs[i] \in SentOutput
    BY <2>1
  <2>3. \A i \in DOMAIN sent.outputs : sent.outputs[i].value \in Nat
    BY <2>2 DEF SentOutput
  <2> QED BY <2>1, <2>3
<1> HIDE DEF f
<1>2. SumTo(f, Len(sent.outputs)) \in Nat
  BY <1>1, SumNat
<1>3. OutputsTotal(sent.outputs) \in Nat
  BY <1>2 DEF f, OutputsTotal
<1> QED BY <1>3, InputsTotalNat DEF PreviousFee

LEMMA FinishRbfInv == RbfInv /\ FinishRbf => RbfInv'
<1> SUFFICES ASSUME RbfInv, FinishRbf PROVE RbfInv'
  OBVIOUS
<1>1. /\ step = "done" /\ step' \in {"refused", "replaced"}
      /\ step' = "replaced" => ~(props.greater /\ currentFee <= PreviousFee)
      /\ UNCHANGED <<request, inputs, outputs, previousFee, currentFee, changeIndex, call,
                     cached, sent, props>>
  BY DEF FinishRbf, Fail
<1>2. /\ sent \in Sent /\ props \in Calls /\ Rebuilding /\ BuilderInv /\ LayoutKept(outputs)
      /\ ExcludedUnspentWithChangeOutput
  BY <1>1 DEF RbfInv, Steps, Running
<1>3. TypeOK
  BY <1>2 DEF BuilderInv, BalanceInv, TypeInv
<1>4. ReceiversKept'
  <2>1. /\ \A i \in DOMAIN sent.outputs \ {Index} :
               /\ i \in DOMAIN outputs
               /\ outputs[i].to = sent.outputs[i].to /\ outputs[i].value = sent.outputs[i].value
        /\ \A i \in DOMAIN outputs :
               i \notin DOMAIN sent.outputs \ {Index} => outputs[i].to = ChangeAddress
    BY <1>2, <1>3, LayoutMeansKept DEF TypeOK
  <2>2. Index' = Index /\ ChangeAddress' = ChangeAddress /\ sent' = sent /\ outputs' = outputs
    BY <1>1 DEF Index, ChangeAddress
  <2> QED BY <2>1, <2>2 DEF ReceiversKept
<1>5. FeeNeverLower'
  <2>1. ToSet(sent.inputs) \subseteq inputs
    <3>1. OriginalInputs \subseteq inputs
      BY <1>1, <1>2 DEF BuilderInv, InputsAccounted
    <3> QED BY <1>2, <3>1 DEF Rebuilding, OriginalInputs
  <2>2. ASSUME step' = "replaced", props.greater PROVE Remaining >= PreviousFee
    <3>1. ~(currentFee <= PreviousFee)
      BY <1>1, <2>2
    <3>2. Remaining - currentFee \in {-1, 0, 1}
      BY <1>1, <1>2 DEF BuilderInv, FeePaid
    <3>3. Remaining \in Int /\ currentFee \in Int /\ PreviousFee \in Int
      BY <1>2, <1>3, RemainingInt, PreviousFeeInt DEF TypeOK
    <3> QED BY <3>1, <3>2, <3>3
  <2>3. Remaining' = Remaining /\ PreviousFee' = PreviousFee /\ inputs' = inputs /\ sent' = sent
        /\ props' = props
    BY <1>1 DEF Remaining, PreviousFee
  <2> QED BY <2>1, <2>2, <2>3 DEF FeeNeverLower
<1>6. ExcludedUnspentWithChangeOutput'
  BY <1>1, <1>2 DEF ExcludedUnspentWithChangeOutput, ExcludedUnspent, HasChangeOutput,
     OriginalInputs
<1> QED BY <1>1, <1>2, <1>4, <1>5, <1>6 DEF RbfInv, Steps

LEMMA RbfNext_Inv == RbfInv /\ [RbfNext]_rbfVars => RbfInv'
<1> SUFFICES ASSUME RbfInv, [RbfNext]_rbfVars PROVE RbfInv'
  OBVIOUS
<1>1. CASE RefuseRbf
  BY <1>1 DEF RefuseRbf, Fail, RbfInv, Steps, ReceiversKept, FeeNeverLower,
     ExcludedUnspentWithChangeOutput, ExcludedUnspent, HasChangeOutput, OriginalInputs
<1>2. CASE UNCHANGED rbfVars
  <2>1. UNCHANGED <<request, step, inputs, outputs, previousFee, currentFee, changeIndex, call,
                    cached, sent, props>>
    BY <1>2 DEF rbfVars, vars
  <2>2. step \in Steps => BuilderInv'
    <3> SUFFICES ASSUME step \in Steps PROVE BuilderInv'
      OBVIOUS
    <3>1. [Next]_vars /\ BuilderInv
      BY <2>1 DEF vars, RbfInv
    <3> QED BY <3>1, BalanceNext, FeePaidNext, AccountedNext, ExclusionNext
        DEF BuilderInv, BalanceInv
  <2>3. /\ step \in Steps => Rebuilding' /\ (Running => LayoutKept(outputs))'
        /\ (step = "rebuild" => NothingBuilt)'
    BY <2>1, RebuildingKept DEF RbfInv, Running, LayoutKept, Leading, IsLastOutput, Index,
       ChangeAddress, NothingBuilt
  <2>4. (ExcludedUnspentWithChangeOutput /\ ReceiversKept /\ FeeNeverLower)'
    BY <2>1 DEF RbfInv, ExcludedUnspentWithChangeOutput, ExcludedUnspent, HasChangeOutput,
       OriginalInputs, ReceiversKept, FeeNeverLower, Index, ChangeAddress, Remaining, PreviousFee
  <2> QED BY <2>1, <2>2, <2>3, <2>4 DEF RbfInv
<1> QED BY <1>1, <1>2, CreateSendRbfInv, BuildInv, FinishRbfInv DEF RbfNext

LEMMA RbfAlways == RbfSpec => []RbfInv
BY RbfInit_Inv, RbfNext_Inv, PTL DEF RbfSpec

-----------------------------------------------------------------------------
(* The theorems.                                                           *)

\* Whatever the builder deducts, collects and removes, every receiver of the sent
\* transaction is paid the same at the same index, and what else is paid is the change.
THEOREM NobodyIsShort == RbfSpec => []ReceiversKept
<1>1. RbfInv => ReceiversKept
  BY DEF RbfInv
<1> QED BY <1>1, RbfAlways, PTL

\* A replacement spends all inputs of the sent transaction and, unless the caller waives
\* it, never pays less than that one did.
THEOREM ReplacementPays == RbfSpec => []FeeNeverLower
<1>1. RbfInv => FeeNeverLower
  BY DEF RbfInv
<1> QED BY <1>1, RbfAlways, PTL

\* When the change keeps its place the builder does not collect an output of the very
\* transaction that is replaced, even if the service lists it.
THEOREM OwnOutputsUnspent == RbfSpec => []ExcludedUnspentWithChangeOutput
<1>1. RbfInv => ExcludedUnspentWithChangeOutput
  BY DEF RbfInv
<1> QED BY <1>1, RbfAlways, PTL

=============================================================================
