-------------------------- MODULE MCResponseManager --------------------------
(***************************************************************************)
(* ResponseManager for TLC.                                                *)
(***************************************************************************)
EXTENDS ResponseManager

CONSTANTS i1, i2, t1, t2

(* t1 waits for i1, t2 for both.                                            *)
Shared == [t \in Threads |-> IF t = t2 THEN {i1, i2} ELSE {i1}]

=============================================================================
