---------------------------- MODULE MCDataCache -----------------------------
(***************************************************************************)
(* Three calls of payFee, two of them for the same address.                *)
(***************************************************************************)
EXTENDS DataCache, TLC

CONSTANTS C1, C2, C3, A, B

MCSymmetry == Permutations({C1, C2})
MCFromOf == (C1 :> A) @@ (C2 :> A) @@ (C3 :> B)
=============================================================================
