-------------------------------- MODULE MCRbf -------------------------------
(***************************************************************************)
(* Transactions of one and two inputs whose change stands last, first, in  *)
(* the middle or nowhere, is large or little.  UTXOs 4 and 5 are their own *)
(* changes; UTXOs 3 and 6 are others of the sender.                   *)
(***************************************************************************)
EXTENDS Rbf

CONSTANTS A, B          \* the sender and a receiver

MCValue == <<30, 10, 4, 15, 5, 8>>
MCListings == {{3, 5, 6}, {3, 4}, {4, 6}, {5}, {}}

Pay(to, value) == [to |-> to, value |-> value, opReturn |-> FALSE]
Commitment == [to |-> Script, value |-> 0, opReturn |-> TRUE]

MCSent == {
    [inputs |-> <<1>>, outputs |-> <<Pay(B, 11), Pay(A, 15)>>, own |-> {4}],
    [inputs |-> <<1>>, outputs |-> <<Pay(A, 15), Pay(B, 11)>>, own |-> {4}],
    [inputs |-> <<1>>, outputs |-> <<Pay(B, 3), Pay(B, 18), Pay(A, 5)>>, own |-> {5}],
    [inputs |-> <<1, 2>>, outputs |-> <<Commitment, Pay(A, 15), Pay(B, 18)>>, own |-> {4}],
    [inputs |-> <<1, 2>>, outputs |-> <<Commitment, Pay(A, 5), Pay(B, 27)>>, own |-> {5}],
    [inputs |-> <<1>>, outputs |-> <<Pay(B, 7), Pay(A, 15)>>, own |-> {4}],
    [inputs |-> <<1>>, outputs |-> <<Pay(B, 9), Pay(A, 15)>>, own |-> {4}],
    [inputs |-> <<1>>, outputs |-> <<Pay(B, 23), Pay(A, 5)>>, own |-> {5}],
    [inputs |-> <<2>>, outputs |-> <<Pay(B, 7)>>, own |-> {}]}

MCCalls ==
    [from: {A}, changeIndex: 0..3, changeAddress: {NoAddress, A, B},
     rateGiven: BOOLEAN, validOutputs: BOOLEAN, greater: BOOLEAN]
=============================================================================
