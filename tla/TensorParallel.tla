-------------------------- MODULE TensorParallel --------------------------
(***************************************************************************)
(* The process group of distributed/tp.py and a decoder built from the     *)
(* sharded layers (ShardedLayers): workers started by spawn_tp_workers     *)
(* initialise, build their layers from get_tp_rank() and get_tp_size(),    *)
(* load the checkpoint, run forward with its all_reduce and all_gather     *)
(* calls, destroy the group, and may start over.  The architecture,        *)
(* activation and attention are those a caller would put between the       *)
(* layers; the process group of torch.distributed is external.             *)
(***************************************************************************)
EXTENDS ShardedLayers

CONSTANTS
    WorldSizes,                   \* the world sizes the workers are started with
    vocab_size, hidden_size, intermediate_size,
    num_heads, num_kv_heads,      \* head_dim is 1
    Weight,                       \* the checkpoint's tensors, by name
    Bias,                         \* what rank 0 has in the biases of o and down
    Attend(_, _, _),              \* of a query head, its key and its value head
    Activate(_, _),               \* of gate and up
    MaxRounds,                    \* bound: init ... destroy rounds of a worker
    MaxReinits                    \* bound: later calls of init_distributed

Divides(d, n) == \E k \in 1 .. n : d * k = n

ASSUME TensorParallelAssumption ==
    /\ WorldSizes \subseteq Nat \ {0}
    /\ \E w \in WorldSizes : \A v \in WorldSizes : v <= w
    /\ {vocab_size, hidden_size, intermediate_size, num_heads, num_kv_heads} \subseteq Nat
    /\ \A w \in WorldSizes :
          \A n \in {vocab_size, num_heads, num_kv_heads, intermediate_size} : Divides(w, n)
    /\ Divides(num_kv_heads, num_heads)

Tensor(rows, columns) == [0 .. rows - 1 -> [0 .. columns - 1 -> Int]]

ASSUME TensorAssumption ==
    /\ Weight.embed \in Tensor(vocab_size, hidden_size)
    /\ Weight.q \in Tensor(num_heads, hidden_size)
    /\ Weight.k \in Tensor(num_kv_heads, hidden_size)
    /\ Weight.v \in Tensor(num_kv_heads, hidden_size)
    /\ Weight.o \in Tensor(hidden_size, num_heads)
    /\ Weight.gate \in Tensor(intermediate_size, hidden_size)
    /\ Weight.up \in Tensor(intermediate_size, hidden_size)
    /\ Weight.down \in Tensor(hidden_size, intermediate_size)
    /\ Weight.lm_head \in Tensor(vocab_size, hidden_size)
    /\ Bias.o \in [0 .. hidden_size - 1 -> Int]
    /\ Bias.down \in [0 .. hidden_size - 1 -> Int]

VARIABLES
    world_size, input_id,        \* what the workers are started with
    pc, rounds,
    reinits,                     \* later calls of init_distributed so far
    misused,                     \* history: one told a rank another group than its own
    _dist_info,                  \* of each process
    initialized,                 \* dist.is_initialized() in each process
    tp,                          \* tp_rank and tp_size of the layers of each rank
    qkv_proj, gate_up_proj,      \* the merged parameters of each rank
    stage,                       \* the layer of forward() a rank is at
    x                            \* its activations there

vars == <<world_size, input_id, pc, rounds, reinits, misused, _dist_info, initialized, tp,
          qkv_proj, gate_up_proj, stage, x>>

MaxWorld == CHOOSE w \in WorldSizes : \A v \in WorldSizes : v <= w
Processes == 0 .. MaxWorld - 1
Ranks == 0 .. world_size - 1

NoDistributedInfo == [rank |-> 0, world_size |-> 1]

Init ==
    /\ world_size \in WorldSizes
    /\ input_id \in 0 .. vocab_size - 1
    /\ pc = [r \in Processes |-> IF r < world_size THEN "init" ELSE "exit"]
    /\ rounds = [r \in Processes |-> 1]
    /\ reinits = 0
    /\ misused = FALSE
    /\ _dist_info = [r \in Processes |-> NoDistributedInfo]
    /\ initialized = [r \in Processes |-> FALSE]
    /\ tp = [r \in Processes |-> [rank |-> 0, size |-> 1]]
    /\ qkv_proj = [r \in Processes |-> <<>>]
    /\ gate_up_proj = [r \in Processes |-> <<>>]
    /\ stage = [r \in Processes |-> "embed"]
    /\ x = [r \in Processes |-> <<>>]

Goto(r, label) == pc' = [pc EXCEPT ![r] = label]

layers == <<tp, qkv_proj, gate_up_proj>>
started == <<world_size, input_id>>
calls == <<reinits, misused>>

-----------------------------------------------------------------------------
(* init_distributed: the module state is set first.                         *)

init_distributed(r) ==
    /\ pc[r] = "init"
    /\ _dist_info' = [_dist_info EXCEPT ![r] = [rank |-> r, world_size |-> world_size]]
    /\ Goto(r, IF world_size <= 1 THEN "build" ELSE "join")
    /\ UNCHANGED <<started, rounds, calls, initialized, layers, stage, x>>

(* init_process_group returns when all ranks have called it.                *)
init_process_group ==
    /\ \A r \in Ranks : pc[r] = "join"
    /\ initialized' = [r \in Processes |-> r \in Ranks]
    /\ pc' = [r \in Processes |-> IF r \in Ranks THEN "build" ELSE pc[r]]
    /\ UNCHANGED <<started, rounds, calls, _dist_info, layers, stage, x>>

InfoLost(rank, size) == NoDistributedInfo   \* mutant: the call undoes its assignment
InfoAfterCall(rank, size) == [rank |-> rank, world_size |-> size]

(* A later call, with any arguments that do not join a second rendezvous.   *)
(* With a size of one it returns; else it raises on an initialised process  *)
(* and its caller goes on.  Either way its arguments are set first.         *)
init_distributed_again(r, rank, size) ==
    /\ pc[r] \in {"build", "load", "forward"}
    /\ size > 1 => initialized[r]
    /\ reinits < MaxReinits
    /\ reinits' = reinits + 1
    /\ _dist_info' = [_dist_info EXCEPT ![r] = InfoAfterCall(rank, size)]
    /\ misused' = (misused \/ size # world_size \/ (rank # r /\ pc[r] = "build"))
    /\ UNCHANGED <<started, pc, rounds, initialized, layers, stage, x>>

-----------------------------------------------------------------------------
(* The layers are built from get_tp_rank() and get_tp_size() and loaded in  *)
(* any order of the checkpoint's tensors.                                   *)

Empty(n) == [i \in 0 .. n - 1 |-> <<"none", 0>>]

Build(r) ==
    /\ pc[r] = "build"
    /\ LET size == _dist_info[r].world_size IN
       /\ tp' = [tp EXCEPT ![r] = [rank |-> _dist_info[r].rank, size |-> size]]
       /\ qkv_proj' = [qkv_proj EXCEPT ![r] =
              Empty(PerRank(num_heads, size) + 2 * PerRank(num_kv_heads, size))]
       /\ gate_up_proj' = [gate_up_proj EXCEPT ![r] =
              Empty((2 * intermediate_size) \div size)]
    /\ Goto(r, "load")
    /\ UNCHANGED <<started, rounds, calls, _dist_info, initialized, stage, x>>

Loaded(param, id) == \E j \in DOMAIN param : param[j][1] = id
AllLoaded(r) ==
    /\ \A id \in {"q", "k", "v"} : Loaded(qkv_proj[r], id)
    /\ \A id \in {"gate", "up"} : Loaded(gate_up_proj[r], id)

weight_loader(r, id) ==
    /\ pc[r] = "load"
    /\ IF id \in {"gate", "up"}
       THEN /\ ~Loaded(gate_up_proj[r], id)
            /\ gate_up_proj' = [gate_up_proj EXCEPT ![r] =
                   LoadGateUp(@, id, intermediate_size, intermediate_size,
                              tp[r].rank, tp[r].size)]
            /\ UNCHANGED qkv_proj
       ELSE /\ ~Loaded(qkv_proj[r], id)
            /\ qkv_proj' = [qkv_proj EXCEPT ![r] =
                   LoadQKV(@, id, num_heads, num_kv_heads, tp[r].rank, tp[r].size)]
            /\ UNCHANGED gate_up_proj
    /\ UNCHANGED <<started, pc, rounds, calls, _dist_info, initialized, tp, stage, x>>

StartForward(r) ==
    /\ pc[r] = "load"
    /\ AllLoaded(r)
    /\ Goto(r, "forward")
    /\ stage' = [stage EXCEPT ![r] = "embed"]
    /\ UNCHANGED <<started, rounds, calls, _dist_info, initialized, layers, x>>

-----------------------------------------------------------------------------
(* forward().                                                              *)

Attention(qkv, size) ==
    LET q == PerRank(num_heads, size)
        kv == PerRank(num_kv_heads, size)
    IN  [h \in 0 .. q - 1 |->
            LET group == h \div (q \div kv) IN
            Attend(qkv[h], qkv[q + group], qkv[q + kv + group])]

GatedAct(gate_up, half) == [i \in 0 .. half - 1 |-> Activate(gate_up[i], gate_up[half + i])]

(* What a rank computes at a stage, up to the collective that ends it.      *)
Local(r) ==
    LET rank == tp[r].rank
        size == tp[r].size
    IN  CASE stage[r] = "embed" ->
                VocabParallelEmbedding(Weight.embed, input_id, vocab_size, rank, size)
          [] stage[r] = "attention" ->
                RowParallelLinear(Weight.o, Bias.o, num_heads,
                    Attention(MergedLinear(Weight, qkv_proj[r], x[r]), size), rank, size)
          [] stage[r] = "mlp" ->
                RowParallelLinear(Weight.down, Bias.down, intermediate_size,
                    GatedAct(MergedLinear(Weight, gate_up_proj[r], x[r]),
                             PerRank(intermediate_size, size)), rank, size)
          [] stage[r] = "lm_head" ->
                ColumnParallelLinear(Weight.lm_head, Shard(vocab_size, rank, size), x[r])

StageAfter ==
    [embed |-> "attention", attention |-> "mlp", mlp |-> "lm_head", lm_head |-> "logits"]

(* all_reduce and all_gather return their tensor without a group; the       *)
(* embedding and the head call them only when their layer is sharded.       *)
NoOp(r) == _dist_info[r].world_size <= 1 \/ ~initialized[r]
CallsCollective(r) == stage[r] \in {"attention", "mlp"} \/ tp[r].size > 1

Compute(r) ==
    /\ pc[r] = "forward"
    /\ stage[r] # "logits"
    /\ x' = [x EXCEPT ![r] = Local(r)]
    /\ IF CallsCollective(r) /\ ~NoOp(r)
       THEN /\ Goto(r, "collective")
            /\ UNCHANGED stage
       ELSE /\ stage' = [stage EXCEPT ![r] = StageAfter[@]]
            /\ UNCHANGED pc
    /\ UNCHANGED <<started, rounds, calls, _dist_info, initialized, layers>>

SumOfRanks == [h \in DOMAIN x[0] |-> Total(world_size, [r \in Ranks |-> x[r][h]])]
Concatenated(n) ==
    LET each == Cardinality(DOMAIN x[0]) IN
    [i \in 0 .. n - 1 |-> x[i \div each][i % each]]

(* The group runs a collective when every rank has called the same one.     *)
Collective ==
    /\ \A r \in Ranks : pc[r] = "collective" /\ stage[r] = stage[0]
    /\ LET result == IF stage[0] = "lm_head" THEN Concatenated(vocab_size) ELSE SumOfRanks
       IN  x' = [r \in Processes |-> IF r \in Ranks THEN result ELSE x[r]]
    /\ stage' = [r \in Processes |-> IF r \in Ranks THEN StageAfter[stage[0]] ELSE stage[r]]
    /\ pc' = [r \in Processes |-> IF r \in Ranks THEN "forward" ELSE pc[r]]
    /\ UNCHANGED <<started, rounds, calls, _dist_info, initialized, layers>>

-----------------------------------------------------------------------------
destroy_distributed(r) ==
    /\ pc[r] = "forward"
    /\ stage[r] = "logits"
    /\ initialized' = [initialized EXCEPT ![r] = FALSE]
    /\ _dist_info' = [_dist_info EXCEPT ![r] = NoDistributedInfo]
    /\ rounds' = [rounds EXCEPT ![r] = @ + 1]
    /\ Goto(r, IF rounds[r] < MaxRounds THEN "init" ELSE "exit")
    /\ UNCHANGED <<started, calls, layers, stage, x>>

Worker(r) ==
    \/ init_distributed(r) \/ Build(r)
    \/ \E id \in {"q", "k", "v", "gate", "up"} : weight_loader(r, id)
    \/ StartForward(r) \/ Compute(r) \/ destroy_distributed(r)

Next ==
    \/ \E r \in Processes :
          \/ Worker(r)
          \/ \E size \in WorldSizes \cup {1} : \E rank \in 0 .. size - 1 :
                init_distributed_again(r, rank, size)
    \/ init_process_group \/ Collective

Spec ==
    /\ Init /\ [][Next]_vars
    /\ \A r \in Processes : WF_vars(Worker(r))
    /\ WF_vars(init_process_group) /\ WF_vars(Collective)

-----------------------------------------------------------------------------
(* Properties.                                                             *)

(* The unsharded decoder, from the whole checkpoint tensors.                *)
Full(weight, bias, input) == [o \in DOMAIN weight |-> Dot(weight[o], input) + bias[o]]
NoBias(weight) == [o \in DOMAIN weight |-> 0]

Reference ==
    LET Linear(name, input) == Full(Weight[name], NoBias(Weight[name]), input)
        embedded == Weight.embed[input_id]
        q == Linear("q", embedded)
        k == Linear("k", embedded)
        v == Linear("v", embedded)
        group == [h \in DOMAIN q |-> h \div (num_heads \div num_kv_heads)]
        attended == Full(Weight.o, Bias.o,
                         [h \in DOMAIN q |-> Attend(q[h], k[group[h]], v[group[h]])])
        gate == Linear("gate", attended)
        up == Linear("up", attended)
    IN  Linear("lm_head", Full(Weight.down, Bias.down,
                               [i \in DOMAIN gate |-> Activate(gate[i], up[i])]))

(* Every rank ends forward with the logits of the unsharded decoder: each   *)
(* row is loaded by one rank, in any order of loading, each bias is added   *)
(* once, ids of other shards count zero, and the ranks' collectives match   *)
(* (weight_loader and forward of the sharded layers, all_reduce,            *)
(* all_gather).  It holds through later calls of init_distributed that tell *)
(* a rank the size it has, and another rank once its layers are built.      *)
ForwardExact ==
    ~misused =>
        \A r \in Processes :
            pc[r] = "forward" /\ stage[r] = "logits" => x[r] = Reference

(* Every worker finishes its rounds: no rank waits in a collective or in    *)
(* init_process_group for a rank that takes it for a no-op or calls another *)
(* one, also when a later init_distributed raises in between, unless one    *)
(* told a rank of another group.                                            *)
WorkersFinish == <>(misused \/ \A r \in Processes : pc[r] = "exit")

=============================================================================
