-------------------------- MODULE MCRgbppLifecycle --------------------------
(***************************************************************************)
(* Asset x is wanted by a transfer in the queue and by a rival that the    *)
(* client completes itself with an issuer's cells; asset y leaps to CKB.   *)
(* Bitcoin may drop one block, time cells wait for two.                    *)
(***************************************************************************)
EXTENDS RgbppLifecycle

CONSTANTS x, y, transfer, rival, leap

MCAssetOf == [t \in {transfer, rival, leap} |-> IF t = leap THEN y ELSE x]
MCLocksOf == [t \in {transfer, rival, leap} |->
                CASE t = transfer -> <<"rgbpp", "rgbpp">>
                  [] t = rival -> <<"rgbpp", "other">>
                  [] t = leap -> <<"rgbpp", "btcTime">>]
MCGroups == <<transfer, leap>>
MCBtcConfirmationBlocks == [t \in {} |-> 0]
=============================================================================
