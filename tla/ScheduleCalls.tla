---------------------------- MODULE ScheduleCalls ----------------------------
(***************************************************************************)
(* One call of TwoTierScheduler.schedule, from any list of waiting and     *)
(* active requests with any progress behind them, and what it must return. *)
(***************************************************************************)
EXTENDS TwoTierScheduler

VARIABLE call   \* the arguments of the call

calls_vars == <<call, request_vars, scheduler_vars>>

Distinct(s) == \A i, j \in DOMAIN s : s[i] = s[j] => i = j

Arrangements(S) ==
    UNION {{s \in [1 .. n -> S] : Distinct(s)} : n \in 0 .. Cardinality(S)}

Arguments ==
    [waiting : Arrangements(Requests), active_gen : Arrangements(Requests),
     active_blocks : 0 .. max_blocks]

(* The executor passes distinct requests: those in the generation phase,    *)
(* and those whose prompt is not processed yet.                            *)
Init ==
    /\ call \in Arguments
    /\ Members(call.waiting) \cap Members(call.active_gen) = {}
    /\ num_context_tokens_processed \in
           [Requests -> 0 .. Cardinality(UNION {1 .. ContextLen[r] : r \in Requests})]
    /\ \A r \in Requests :
           LET done == num_context_tokens_processed[r] IN
           CASE r \in Members(call.active_gen) -> done = ContextLen[r]
             [] r \in Members(call.waiting)    -> done = 0 \/ done < ContextLen[r]
             [] OTHER                          -> done = 0
    /\ state = [r \in Requests |->
                   IF r \in Members(call.active_gen) THEN "GENERATION_IN_PROGRESS"
                   ELSE IF num_context_tokens_processed[r] > 0 THEN "CONTEXT_IN_PROGRESS"
                   ELSE "CONTEXT_INIT"]
    /\ num_output_tokens = [r \in Requests |-> 0]
    /\ SchedulerInit

Start ==
    /\ tier = "idle"
    /\ ScheduleCall(call.waiting, call.active_gen, call.active_blocks)
    /\ UNCHANGED <<call, request_vars>>

Turn == ScheduleStep /\ UNCHANGED <<call, request_vars>>

Next == Start \/ Turn

Spec == Init /\ [][Next]_calls_vars

Plan == INSTANCE SchedulePlan

-----------------------------------------------------------------------------
(* Properties.                                                             *)

(* The sum of f over the requests in S.                                     *)
Total(S, f) == Cardinality(UNION {{r} \X (1 .. f[r]) : r \in S})

(* Tier 1 never overcommits: the blocks in use and those of everything it   *)
(* admitted fit together (schedule_capacity).                               *)
NoOvercommit ==
    admitted = <<>> \/
        call.active_blocks
          + Total(Members(admitted), [r \in Requests |-> BlocksForRequest(r)])
            <= max_blocks

(* Under GUARANTEED_NO_EVICT the blocks left hold every token, prompt and   *)
(* output, of every admitted request until it completes.                    *)
RoomToCompletion ==
    policy.capacity = "GUARANTEED_NO_EVICT" /\ admitted # <<>> =>
        Total(Members(admitted), [r \in Requests |-> ContextLen[r] + MaxTokens[r]])
            <= (max_blocks - call.active_blocks) * block_size

(* Tier 1 turns a request away only for a reason that still stands when it  *)
(* has seen them all: the batch is full or its blocks do not fit.           *)
NoIdleCapacity ==
    tier \in {"microbatch", "done"} =>
        \A r \in Members(call.waiting) \ Members(admitted) :
            \/ Len(admitted) = max_batch_size
            \/ blocks_used + BlocksForRequest(r) > max_blocks

(* num_context_tokens + num_generation_tokens of what a call returned.      *)
ScheduledTokens ==
    Total(ContextScheduled, _scheduled_context_tokens) + Len(scheduled.generation)

(* tests/test_scheduler.py:163, test_token_budget_respected: of prompts     *)
(* alone a call never schedules more tokens than the budget.                *)
BudgetRespected ==
    tier = "done" /\ scheduled.generation = <<>> => ScheduledTokens <= max_num_tokens

(* What the code keeps instead: only generation requests, which always go   *)
(* through, or one token of each of more prompts than there are tokens left *)
(* exceed the budget (schedule_microbatch, _schedule_equal_progress).       *)
BudgetKept ==
    tier = "done" /\ ScheduledTokens > max_num_tokens =>
        \/ ContextScheduled = {}
        \/ /\ policy.chunking = "EQUAL_PROGRESS"
           /\ Len(admitted) > RemainingBudget
           /\ \A r \in ContextScheduled : _scheduled_context_tokens[r] = 1

(* The two loops return what the policies say in closed form: FCFS hands    *)
(* out the budget in order, EQUAL_PROGRESS gives each admitted prompt the   *)
(* same share of it and at least one token, and a prompt is a last chunk    *)
(* exactly when its rest is in the batch (schedule_microbatch).             *)
ReturnsPlan ==
    tier = "done" =>
        LET blocks == [r \in Requests |-> BlocksForRequest(r)]
            left   == [r \in Requests |-> RemainingContext(r)]
            list   == Plan!schedule_capacity(call.waiting, call.active_blocks, blocks)
            plan   == Plan!schedule_microbatch(policy.chunking, list, call.active_gen, left)
        IN  /\ scheduled.context_chunking = plan.context_chunking
            /\ scheduled.context_last_chunk = plan.context_last_chunk
            /\ scheduled.generation = plan.generation
            /\ \A r \in ContextScheduled :
                   _scheduled_context_tokens[r] = plan.tokens[r]

=============================================================================
