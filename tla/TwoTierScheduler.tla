-------------------------- MODULE TwoTierScheduler --------------------------
(***************************************************************************)
(* The two-tier scheduler, engine/scheduler.py: tier 1 admits requests     *)
(* while their blocks fit, tier 2 shares the token budget of an iteration  *)
(* among the admitted ones.  Each tier is a loop over a list; a step is    *)
(* one turn of a loop.                                                     *)
(***************************************************************************)
EXTENDS LlmRequest

CONSTANTS
    Policies,            \* the policies the scheduler may be built with
    max_batch_size,
    max_num_tokens,
    block_size,
    max_blocks

AllPolicies == [capacity : {"GUARANTEED_NO_EVICT", "MAX_UTILIZATION"},
                chunking : {"EQUAL_PROGRESS", "FCFS"}]

ASSUME SchedulerAssumption ==
    /\ Policies \subseteq AllPolicies
    /\ max_batch_size \in Nat \ {0}
    /\ max_num_tokens \in Nat \ {0}
    /\ block_size \in Nat \ {0}
    /\ max_blocks \in Nat

VARIABLES
    policy,      \* the policy attributes of the two tiers
    tier,        \* "idle", or the tier that runs, or "done"
    todo,        \* what the running loop has still to look at
    admitted,    \* the admitted list of schedule_capacity
    blocks_used, \* blocks_used of schedule_capacity
    budget,      \* tokens_left of _schedule_fcfs, per_request of _schedule_equal_progress
    scheduled,   \* the ScheduledRequests that is built and returned
    _scheduled_context_tokens   \* the attribute of that name of each request

scheduler_vars == <<policy, tier, todo, admitted, blocks_used, budget, scheduled,
                    _scheduled_context_tokens>>

NothingScheduled == [context_chunking |-> <<>>, context_last_chunk |-> <<>>,
                     generation |-> <<>>]

SchedulerInit ==
    /\ policy \in Policies
    /\ tier = "idle"
    /\ todo = <<>>
    /\ admitted = <<>>
    /\ blocks_used = 0
    /\ budget = 0
    /\ scheduled = NothingScheduled
    /\ _scheduled_context_tokens = [r \in Requests |-> 0]

-----------------------------------------------------------------------------
(* schedule(waiting, active_gen, active_blocks) is called.                  *)
ScheduleCall(waiting_list, active_gen, active_blocks) ==
    /\ tier \in {"idle", "done"}
    /\ tier' = "capacity"
    /\ todo' = waiting_list
    /\ admitted' = <<>>
    /\ blocks_used' = active_blocks
    /\ budget' = 0
    /\ scheduled' = [NothingScheduled EXCEPT !.generation = active_gen]
    /\ UNCHANGED <<policy, _scheduled_context_tokens>>

-----------------------------------------------------------------------------
(* Tier 1, CapacityScheduler.schedule_capacity.                             *)

_blocks_needed(num_tokens) == (num_tokens + block_size - 1) \div block_size

AtLeast(m, n) == IF n < m THEN m ELSE n

BlocksForContextOnly(r) == _blocks_needed(ContextLen[r])   \* mutant: no output
BlocksForRequest(r) ==
    IF policy.capacity = "GUARANTEED_NO_EVICT"
    THEN _blocks_needed(ContextLen[r] + MaxTokens[r])
    ELSE AtLeast(1, _blocks_needed(ContextLen[r]))

FitsInBatch == Len(admitted) < max_batch_size

FitsStrictly(r) ==                                \* mutant: the last block stays idle
    FitsInBatch /\ blocks_used + BlocksForRequest(r) < max_blocks
FitsBefore(r) == FitsInBatch /\ blocks_used <= max_blocks  \* mutant: r not counted
Fits(r) == FitsInBatch /\ blocks_used + BlocksForRequest(r) <= max_blocks

AdmitNext ==
    /\ tier = "capacity"
    /\ todo # <<>>
    /\ LET r == Head(todo) IN
       IF Fits(r)
       THEN /\ admitted' = Append(admitted, r)
            /\ blocks_used' = blocks_used + BlocksForRequest(r)
       ELSE UNCHANGED <<admitted, blocks_used>>
    /\ todo' = Tail(todo)
    /\ UNCHANGED <<policy, tier, budget, scheduled, _scheduled_context_tokens>>

-----------------------------------------------------------------------------
(* Tier 2, MicroBatchScheduler: generation requests always go through, one  *)
(* token each; what they leave is for the context requests.                 *)

WholeBudget == max_num_tokens   \* mutant: generation requests cost nothing
RemainingBudget == max_num_tokens - Len(scheduled.generation)

PerRequest == AtLeast(1, RemainingBudget \div Len(admitted))

StartMicrobatch ==
    /\ tier = "capacity"
    /\ todo = <<>>
    /\ IF admitted = <<>> \/ RemainingBudget <= 0
       THEN tier' = "done" /\ UNCHANGED <<todo, budget>>
       ELSE /\ tier' = "microbatch"
            /\ todo' = admitted
            /\ budget' = IF policy.chunking = "FCFS" THEN RemainingBudget ELSE PerRequest
    /\ UNCHANGED <<policy, admitted, blocks_used, scheduled, _scheduled_context_tokens>>

(* _schedule_fcfs breaks out of its loop once the budget is spent.          *)
Spent == policy.chunking = "FCFS" /\ budget <= 0

ChunkSize(r) == IF budget < RemainingContext(r) THEN budget ELSE RemainingContext(r)

IsLast(r) == ChunkSize(r) >= RemainingContext(r)

Spend(r) ==
    budget' = IF policy.chunking = "FCFS" THEN budget - ChunkSize(r) ELSE budget

ChunkNext ==
    /\ tier = "microbatch"
    /\ todo # <<>>
    /\ ~Spent
    /\ LET r == Head(todo) IN
       IF ChunkSize(r) <= 0
       THEN UNCHANGED <<budget, scheduled, _scheduled_context_tokens>>
       ELSE /\ _scheduled_context_tokens' =
                  [_scheduled_context_tokens EXCEPT ![r] = ChunkSize(r)]
            /\ Spend(r)
            /\ scheduled' =
                  IF IsLast(r)
                  THEN [scheduled EXCEPT !.context_last_chunk = Append(@, r)]
                  ELSE [scheduled EXCEPT !.context_chunking = Append(@, r)]
    /\ todo' = Tail(todo)
    /\ UNCHANGED <<policy, tier, admitted, blocks_used>>

EndMicrobatch ==
    /\ tier = "microbatch"
    /\ todo = <<>> \/ Spent
    /\ tier' = "done"
    /\ UNCHANGED <<policy, todo, admitted, blocks_used, budget, scheduled,
                   _scheduled_context_tokens>>

ScheduleStep == AdmitNext \/ StartMicrobatch \/ ChunkNext \/ EndMicrobatch

-----------------------------------------------------------------------------
(* What a finished call returned.                                          *)

Members(s) == {s[i] : i \in DOMAIN s}

ContextScheduled ==
    Members(scheduled.context_chunking) \cup Members(scheduled.context_last_chunk)

is_empty ==
    /\ scheduled.context_chunking = <<>>
    /\ scheduled.context_last_chunk = <<>>
    /\ scheduled.generation = <<>>

SchedulerTypeOK ==
    /\ policy \in Policies
    /\ tier \in {"idle", "capacity", "microbatch", "done"}
    /\ todo \in Seq(Requests)
    /\ admitted \in Seq(Requests)
    /\ blocks_used \in Nat
    /\ budget \in Nat
    /\ scheduled \in [context_chunking : Seq(Requests),
                      context_last_chunk : Seq(Requests),
                      generation : Seq(Requests)]
    /\ _scheduled_context_tokens \in [Requests -> Nat]

=============================================================================
