--------------------------- MODULE MCScheduleCalls ---------------------------
(***************************************************************************)
(* ScheduleCalls for TLC: three requests with an empty, a short and a long *)
(* prompt, in every order and at every progress.                           *)
(***************************************************************************)
EXTENDS ScheduleCalls

CONSTANTS r1, r2, r3

ThreeRequests == {r1, r2, r3}

MixedPrompts == [r \in ThreeRequests |-> CASE r = r1 -> 4 [] r = r2 -> 3 [] r = r3 -> 0]

Outputs3 == [r \in ThreeRequests |-> CASE r = r1 -> 2 [] r = r2 -> 1 [] r = r3 -> 2]

=============================================================================
