---------------------------- MODULE MCTxBuilder -----------------------------
(***************************************************************************)
(* Small wallets and requests for TxBuilder.  One unit stands for about a  *)
(* quarter of the dust limit; an input costs more than an output, as a     *)
(* P2WPKH input (68 vbytes) does against an output (31 vbytes).            *)
(***************************************************************************)
EXTENDS TxBuilder

CONSTANTS A, B          \* the change address and a receiver

MCValue == <<10, 7, 4, 5, 16>>
MCListings == {{3, 4, 5}, {3, 4}, {2, 5}}

Plain(to, value) == [to |-> to, value |-> value, min |-> MinUtxo, fixed |-> FALSE,
                     protected |-> FALSE, opReturn |-> FALSE]
Fixed(o) == [o EXCEPT !.fixed = TRUE]
Protected(o) == [o EXCEPT !.protected = TRUE]

\* An OP_RETURN commitment, fixed receivers, and change-like outputs.
Commitment == [Fixed(Plain(Script, 0)) EXCEPT !.opReturn = TRUE]
MCOutputs == {Commitment, [Commitment EXCEPT !.fixed = FALSE],
              [Commitment EXCEPT !.fixed = FALSE, !.protected = TRUE],
              Fixed(Plain(B, 5)), Fixed(Plain(A, 9)), Fixed([Plain(B, 2) EXCEPT !.min = 2]),
              Protected(Plain(A, 6)), Protected(Plain(B, 5)),
              Plain(A, 4), Plain(B, 8), Plain(Script, 6), Plain(B, 3)}

MCRequests ==
    [inputs: {<<>>, <<1>>, <<1, 2>>, <<1, 1>>},
     outputs: BoundedSeq(MCOutputs, 2) \cup
              {<<Commitment, Fixed(Plain(B, 5)), o>> : o \in MCOutputs},
     change: {A}, excluded: {{}, {4}, {3, 5}}, deduct: BOOLEAN]
=============================================================================
