--------------------------- MODULE ShardedLayers ---------------------------
(***************************************************************************)
(* The sharded layers of layers/linear.py and layers/embedding.py: which   *)
(* rows of a checkpoint tensor the weight loaders of a rank keep, and what *)
(* forward computes with them before any collective.  Tensors are          *)
(* functions from 0-based indices; a parameter holds, for each of its rows, *)
(* the checkpoint row that was copied there.                               *)
(***************************************************************************)
EXTENDS Lists, FiniteSets

PerRank(n, tp_size) == n \div tp_size

(* loaded_weight[start:end], and loaded_weight[:, start:end].               *)
Shard(n, tp_rank, tp_size) ==
    [i \in 0 .. PerRank(n, tp_size) - 1 |-> tp_rank * PerRank(n, tp_size) + i]

(* The sum of f over 0 .. n - 1.                                            *)
Total(n, f) == SumOver(1 .. n, [k \in 1 .. n |-> k - 1], n, f)

Dot(row, x) == Total(Cardinality(DOMAIN x), [i \in DOMAIN x |-> row[i] * x[i]])

-----------------------------------------------------------------------------
(* Merged parameters: one weight_loader call for each checkpoint tensor.    *)

Copied(param, id, offset, rows) ==
    [j \in DOMAIN param |->
        IF j - offset \in DOMAIN rows THEN <<id, rows[j - offset]>> ELSE param[j]]

(* out_features_list of MergedColumnParallelLinear: gate and up.            *)
GateUpOffset(shard_id, gate, tp_size) ==
    IF shard_id = "gate" THEN 0 ELSE PerRank(gate, tp_size)

LoadGateUp(param, shard_id, gate, up, tp_rank, tp_size) ==
    Copied(param, shard_id, GateUpOffset(shard_id, gate, tp_size),
           Shard(IF shard_id = "gate" THEN gate ELSE up, tp_rank, tp_size))

QKVOffset(shard_id, q_size, kv_size, tp_size) ==
    CASE shard_id = "q" -> 0
      [] shard_id = "k" -> PerRank(q_size, tp_size)
      [] shard_id = "v" -> PerRank(q_size, tp_size) + PerRank(kv_size, tp_size)

LoadQKV(param, shard_id, q_size, kv_size, tp_rank, tp_size) ==
    Copied(param, shard_id, QKVOffset(shard_id, q_size, kv_size, tp_size),
           Shard(IF shard_id = "q" THEN q_size ELSE kv_size, tp_rank, tp_size))

-----------------------------------------------------------------------------
(* forward of each layer on one rank.                                       *)

ColumnParallelLinear(weight, rows, x) == [i \in DOMAIN rows |-> Dot(weight[rows[i]], x)]

MergedLinear(weights, param, x) ==
    [i \in DOMAIN param |-> Dot(weights[param[i][1]][param[i][2]], x)]

(* Only rank 0 has a bias: all_reduce would count it once for each rank.    *)
BiasEverywhere(tp_rank) == TRUE   \* mutant: each rank adds the bias
HasBias(tp_rank) == tp_rank = 0

(* x is the rank's own slice of the input features.  The bias is what       *)
(* nn.Linear holds: weight_loader slices two dimensions and fills none.     *)
RowParallelLinear(weight, bias, in_features, x, tp_rank, tp_size) ==
    LET columns == Shard(in_features, tp_rank, tp_size) IN
    [o \in DOMAIN weight |->
        Dot([i \in DOMAIN columns |-> weight[o][columns[i]]], x)
            + IF HasBias(tp_rank) THEN bias[o] ELSE 0]

(* Out-of-range ids are clamped to a row of the shard and masked to zero.   *)
VocabParallelEmbedding(weight, id, vocab_size, tp_rank, tp_size) ==
    IF tp_size = 1 THEN weight[id]
    ELSE LET rows == Shard(vocab_size, tp_rank, tp_size)
             local_id == id - tp_rank * PerRank(vocab_size, tp_size)
             clamped == IF local_id < 0 THEN 0
                        ELSE IF local_id \in DOMAIN rows THEN local_id
                        ELSE PerRank(vocab_size, tp_size) - 1
             mask == IF local_id \in DOMAIN rows THEN 1 ELSE 0
         IN  [h \in DOMAIN weight[id] |-> mask * weight[rows[clamped]][h]]

=============================================================================
