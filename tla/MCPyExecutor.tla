---------------------------- MODULE MCPyExecutor ----------------------------
(***************************************************************************)
(* PyExecutor for TLC.                                                     *)
(***************************************************************************)
EXTENDS PyExecutor

CONSTANTS r1, r2, r3

TwoRequests == {r1, r2}

ThreeRequests == {r1, r2, r3}

Contexts == [r \in Requests |-> CASE r = r1 -> 3 [] r = r2 -> 2 [] r = r3 -> 1]

Outputs == [r \in Requests |-> CASE r = r1 -> 1 [] r = r2 -> 2 [] r = r3 -> 1]

(* Only r1 is ever split in chunks.                                        *)
OneLongPrompt == [r \in Requests |-> IF r = r1 THEN 3 ELSE 1]

LongOutput == [r \in Requests |-> CASE r = r1 -> 1 [] r = r2 -> 3 [] r = r3 -> 1]

GuaranteedFcfs == {[capacity |-> "GUARANTEED_NO_EVICT", chunking |-> "FCFS"]}

BothPolicies == GuaranteedFcfs \cup
    {[capacity |-> "MAX_UTILIZATION", chunking |-> "EQUAL_PROGRESS"]}

=============================================================================
