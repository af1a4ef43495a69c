-------------------------------- MODULE Orders ------------------------------
(***************************************************************************)
(* Sets of numbers as ascending lists.  compareInputs and the other sorts  *)
(* of the SDK order cells by a key, and lists are filtered in their order; *)
(* the lemmas of Sums say where an element stands.                         *)
(***************************************************************************)
EXTENDS Integers, FiniteSets

Rank(c, S) == Cardinality({d \in S : d < c}) + 1
InOrder(S) == [k \in 1..Cardinality(S) |-> CHOOSE c \in S : Rank(c, S) = k]

=============================================================================
