------------------------------- MODULE Lists -------------------------------
(***************************************************************************)
(* The list comprehension with a condition, by which the executors and the *)
(* schedulers pick requests out of their lists (engine/executor.py), and   *)
(* the sum that a loop over a list runs up (engine/scheduler.py).          *)
(***************************************************************************)
EXTENDS Integers, Sequences

(* The elements of s that are in S, in their order.                         *)
Keep(s, S) ==
    LET kept[i \in 0 .. Len(s)] ==
            IF i = 0 THEN <<>>
            ELSE IF s[i] \in S THEN Append(kept[i - 1], s[i]) ELSE kept[i - 1]
    IN  kept[Len(s)]

(* The sum of f over the members of s whose index is in I, up to n.         *)
SumOver(I, s, n, f) ==
    LET sum[k \in 0 .. n] ==
            IF k = 0 THEN 0 ELSE sum[k - 1] + IF k \in I THEN f[s[k]] ELSE 0
    IN  sum[n]

=============================================================================
