----------------------------- MODULE MCTeardown -----------------------------
(* Teardown for TLC: replies whose bodies fit and one whose body does not. *)
EXTENDS Teardown
CONSTANTS a, b
Sizes == [r \in Replies |-> IF r = b THEN 2 ELSE 1]
=============================================================================
