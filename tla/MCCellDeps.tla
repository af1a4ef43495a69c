----------------------------- MODULE MCCellDeps -----------------------------
(***************************************************************************)
(* One token of the static list and one that is published later; the       *)
(* user's own list has only the other. One document has everything but     *)
(* the second token, one is of a form without tokens.                      *)
(***************************************************************************)
EXTENDS CellDeps

CONSTANTS c1, t1, t2

MCPublished == [static |-> [v \in Version |-> IF v = 0 THEN {t1} ELSE {t1, t2}],
                own    |-> [v \in Version |-> {t2}]]

MCDocuments == {[has |-> Contract, tokens |-> "some", listed |-> {t1}],
                [has |-> {"rgbpp", "btcTime"}, tokens |-> "undefined", listed |-> {}]}
=============================================================================
