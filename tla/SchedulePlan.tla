---------------------------- MODULE SchedulePlan ----------------------------
(***************************************************************************)
(* What a call of TwoTierScheduler.schedule computes (engine/scheduler.py),*)
(* as a function of its arguments: who is admitted, and the chunk of each  *)
(* admitted prompt in closed form.  TwoTierScheduler takes the same call   *)
(* one turn of a loop at a time; ScheduleCalls compares the two.           *)
(***************************************************************************)
EXTENDS Integers, Sequences, FiniteSets, Functions, Lists

CONSTANTS max_batch_size, max_num_tokens, max_blocks

AtLeast(m, n) == IF n < m THEN m ELSE n
AtMost(m, n) == IF n < m THEN n ELSE m

(* schedule_capacity: a request is admitted exactly when it fits with the   *)
(* admitted ones before it; one that does not fit is passed over.           *)
schedule_capacity(waiting, active_blocks, blocks) ==
    LET Fits(I, i) ==
            /\ Cardinality(I \cap 1 .. i - 1) < max_batch_size
            /\ active_blocks + SumOver(I, waiting, i - 1, blocks) + blocks[waiting[i]]
                   <= max_blocks
        indices == CHOOSE I \in SUBSET DOMAIN waiting :
                       \A i \in DOMAIN waiting : i \in I <=> Fits(I, i)
        chosen  == Keep([i \in DOMAIN waiting |-> i], indices)
    IN  [k \in DOMAIN chosen |-> waiting[chosen[k]]]

(* The tokens that request i of the admitted list gets of a budget, left[r] *)
(* being what is left of the prompt of r.                                   *)
ChunkOf(chunking, list, i, budget, left) ==
    IF budget <= 0 THEN 0
    ELSE IF chunking = "FCFS"
    THEN AtLeast(0, AtMost(budget - SumOver(1 .. i - 1, list, i - 1, left), left[list[i]]))
    ELSE AtMost(AtLeast(1, budget \div Len(list)), left[list[i]])

(* tokens says how much each admitted request gets.                         *)
schedule_microbatch(chunking, list, active_gen, left) ==
    LET tokens(r)  == ChunkOf(chunking, list, CHOOSE i \in DOMAIN list : list[i] = r,
                              max_num_tokens - Len(active_gen), left)
        Partial == {r \in Range(list) : tokens(r) > 0 /\ tokens(r) < left[r]}
        Whole   == {r \in Range(list) : tokens(r) > 0 /\ tokens(r) = left[r]}
    IN  [context_chunking   |-> Keep(list, Partial),
         context_last_chunk |-> Keep(list, Whole),
         generation         |-> active_gen,
         tokens             |-> [r \in Range(list) |-> tokens(r)]]

EmptyBatch(s) == s.context_chunking \o s.context_last_chunk \o s.generation = <<>>

=============================================================================
