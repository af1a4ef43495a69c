---------------------------- MODULE MCCkbFunding ----------------------------
(***************************************************************************)
(* Eight cells of one address.  One unit is a tenth of a CKB: a plain cell *)
(* occupies 610, the sender's xUDT cell 1420 and one CKB is added to it,   *)
(* MAX_FEE is 2.                                                           *)
(***************************************************************************)
EXTENDS CkbFunding

\* Cell 1 is an xUDT cell as small as CKB allows, cells 4 and 7 hold a cell and more.
MCKind     == <<"asset", "plain", "typed", "asset", "plain", "data", "asset", "plain">>
MCCapacity == <<1420, 3200, 3000, 1430, 2600, 5000, 6000, 612>>
MCAmount   == <<2, 0, 0, 1, 0, 3, 4, 0>>

Call(kind, amounts, given, asked) ==
    [kind |-> kind, amounts |-> amounts, given |-> given, asked |-> asked]

\* Jumps to one and two receivers, with and without xUDT change, up to more than there
\* is; two sizes of paymaster cells; issuers who pay for little, for much, for nothing.
MCRequests ==
    {Call("jump", amounts, 0, 0) : amounts \in {<<1>>, <<2>>, <<3>>, <<6>>, <<9>>, <<1, 1>>, <<2, 5>>}}
    \cup {Call("transfer", amounts, 0, 0) : amounts \in {<<1>>, <<2>>, <<6>>, <<1, 1>>, <<1, 5>>}}
    \cup {Call("timeCell", amounts, 0, 0) : amounts \in {<<1>>, <<3>>, <<7>>}}
    \cup {Call("issue", <<>>, 0, 0), Call("launch", <<>>, 0, 0), Call("unlock", <<>>, 900, 900)}
    \cup {Call("split", amounts, 0, 0) : amounts \in {<<3160>>, <<1000, 1000>>}}
    \cup {Call("issuer", <<>>, given, 5000) : given \in {4000, 5000, 5001, 9000}}
=============================================================================
