------------------------- MODULE MCTensorParallel -------------------------
(***************************************************************************)
(* TensorParallel for TLC: one or two ranks, four query heads on two key   *)
(* and value heads, and weights that differ from row to row and column to  *)
(* column.                                                                 *)
(***************************************************************************)
EXTENDS TensorParallel

Matrix(seed, rows, columns) ==
    [o \in 0 .. rows - 1 |-> [i \in 0 .. columns - 1 |-> ((seed * (3 * o + i + 2)) % 7) + o]]

Weights ==
    [embed |-> Matrix(1, 4, 2), q |-> Matrix(2, 4, 2), k |-> Matrix(3, 2, 2),
     v |-> Matrix(5, 2, 2), o |-> Matrix(4, 2, 4), gate |-> Matrix(6, 2, 2),
     up |-> Matrix(8, 2, 2), down |-> Matrix(9, 2, 2), lm_head |-> Matrix(10, 4, 2)]

Biases == [o |-> [h \in 0 .. 1 |-> h + 1], down |-> [h \in 0 .. 1 |-> 3 - h]]

AttendTo(q, k, v) == (q * k + v) % 13
Gate(gate, up) == (gate * gate + up) % 13

OneOrTwo == {1, 2}

=============================================================================
