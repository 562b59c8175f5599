------------------------- MODULE MCOverlapExecutor -------------------------
(***************************************************************************)
(* OverlapExecutor for TLC: a prompt of three tokens that two chunks       *)
(* carry, a short one of another strategy, and a third that a client may   *)
(* cancel; batches of two prompts and three tokens.                        *)
(***************************************************************************)
EXTENDS OverlapExecutor

CONSTANTS r1, r2, r3, greedy, top_k

ThreeRequests == {r1, r2, r3}
Prompts == [r \in ThreeRequests |-> CASE r = r1 -> 3 [] r = r2 -> 1 [] r = r3 -> 2]
Outputs == [r \in ThreeRequests |-> CASE r = r1 -> 2 [] r = r2 -> 3 [] r = r3 -> 1]
OneBlock == [r \in ThreeRequests |-> 1]
TwoStrategies == [r \in ThreeRequests |-> IF r = r2 THEN greedy ELSE top_k]
AllSetups == [chunking : {"EQUAL_PROGRESS", "FCFS"}, full_sequence : BOOLEAN]
CancelledOne == {r3}

=============================================================================
