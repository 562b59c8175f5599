----------------------------- MODULE PyExecutor -----------------------------
(***************************************************************************)
(* The executor, engine/executor.py (PyExecutor), with the scheduler, the  *)
(* sampler's bookkeeping (engine/sampler.py) and the block tables kept by  *)
(* KVCacheResourceManager (engine/resource_manager.py).  One thread calls  *)
(* iteration() again and again while clients enqueue and cancel requests.  *)
(* The executor's lock is held during "drop" and "move"; at every other    *)
(* step of the iteration a client may come in between.                     *)
(***************************************************************************)
EXTENDS TwoTierScheduler

CONSTANTS
    NumBlocks,            \* num_blocks of the block manager
    HasResourceManager,   \* resource_manager is not None
    Cancellable,          \* bound: the requests a client may cancel
    MaxForwardErrors,     \* bound: the forward passes that raise
    NoRequest             \* the holder of an idle block manager

ASSUME ExecutorAssumption ==
    /\ NumBlocks \in Nat
    /\ HasResourceManager \in BOOLEAN
    /\ Cancellable \subseteq Requests
    /\ MaxForwardErrors \in Nat
    /\ NoRequest \notin Requests

VARIABLES
    waiting, active,   \* _waiting and _active
    cancelled,         \* _cancelled
    arrived,           \* history: the requests that were enqueued
    errors,            \* history: the exceptions that left iteration()
    responses,         \* what was notified for each request
    pc,                \* where the thread is in iteration()
    work,              \* what the running loop of iteration() has still to visit
    snapshot,          \* the local waiting
    active_ctx, active_gen, completed_ids,   \* locals of these names
    free_block_ids, allocated, allocation,   \* the block manager: pool and running call
    block_table        \* LlmRequest.block_table

queue_vars == <<waiting, active>>
client_vars == <<cancelled, arrived, errors>>
pool_vars == <<free_block_ids, allocated, allocation, block_table>>
local_vars == <<snapshot, active_ctx, active_gen, completed_ids>>

vars == <<request_vars, scheduler_vars, queue_vars, client_vars, responses,
          pc, work, local_vars, pool_vars>>

BM == INSTANCE BlockManager WITH
          BlockSize <- block_size,
          PrefixCacheEnabled <- FALSE,
          Holders <- Requests,
          Prompts <- {},
          AllocateSizes <- {_blocks_needed(ContextLen[r] + MaxTokens[r]) : r \in Requests},
          NoHolder <- NoRequest,
          hash_to_block <- <<>>, ref_counts <- <<>>, ref_order <- <<>>,
          held <- block_table,
          prompt <- [r \in Requests |-> <<>>],
          MaxLeaks <- 0,
          leaked <- [b \in 0 .. NumBlocks - 1 |-> 0],
          op <- allocation

-----------------------------------------------------------------------------
(* A list without its element at i.                                         *)
WithoutAt(s, i) == [j \in 1 .. Len(s) - 1 |-> IF j < i THEN s[j] ELSE s[j + 1]]

WithAll(s, r) == s   \* mutant: nothing is removed
(* A list of distinct requests without r.                                   *)
Without(s, r) ==
    IF r \in Members(s) THEN WithoutAt(s, CHOOSE i \in DOMAIN s : s[i] = r) ELSE s

Init ==
    /\ RequestInit
    /\ SchedulerInit
    /\ waiting = <<>> /\ active = <<>>
    /\ cancelled = {} /\ arrived = {}
    /\ errors = [allocate |-> FALSE, forward |-> 0]
    /\ responses = [r \in Requests |-> <<>>]
    /\ pc = "idle" /\ work = <<>>
    /\ snapshot = <<>> /\ active_ctx = <<>> /\ active_gen = <<>> /\ completed_ids = <<>>
    /\ BM!Init

-----------------------------------------------------------------------------
(* Clients.  Both calls take the lock.                                      *)

LockFree == pc \notin {"drop", "move"}

enqueue_request(r) ==
    /\ LockFree
    /\ r \notin arrived
    /\ waiting' = Append(waiting, r)
    /\ arrived' = arrived \cup {r}
    /\ responses' = [responses EXCEPT ![r] = <<>>]
    /\ UNCHANGED <<active, cancelled, errors, request_vars, scheduler_vars, pc, work,
                   local_vars, pool_vars>>

cancel_request(r) ==
    /\ LockFree
    /\ r \in arrived \cap Cancellable
    /\ r \notin cancelled
    /\ cancelled' = cancelled \cup {r}
    /\ waiting' = Without(waiting, r)
    /\ UNCHANGED <<active, arrived, errors, responses, request_vars, scheduler_vars, pc,
                   work, local_vars, pool_vars>>

-----------------------------------------------------------------------------
(* iteration(): the lock is taken, cancelled requests leave _active one by  *)
(* one, _waiting is copied, the lock is released.                           *)

others_of_drop == <<request_vars, scheduler_vars, waiting, client_vars,
                    responses, pool_vars>>

BeginIteration ==
    /\ pc = "idle"
    /\ pc' = "drop"
    /\ UNCHANGED <<others_of_drop, active, work, local_vars>>

NoneDropped(i) == FALSE   \* mutant: cancelled requests stay in _active
Dropped(i) == active[i] \in cancelled

DropCancelled ==
    /\ pc = "drop"
    /\ \E i \in DOMAIN active :
          /\ Dropped(i)
          /\ \A j \in 1 .. i - 1 : ~Dropped(j)
          /\ active' = WithoutAt(active, i)
    /\ UNCHANGED <<others_of_drop, pc, work, local_vars>>

TakeSnapshot ==
    /\ pc = "drop"
    /\ \A i \in DOMAIN active : ~Dropped(i)
    /\ snapshot' = waiting
    /\ active_ctx' = <<>>
    /\ active_gen' = <<>>
    /\ work' = active
    /\ pc' = "collect"
    /\ UNCHANGED <<others_of_drop, active, completed_ids>>

-----------------------------------------------------------------------------
(* Schedule: active_gen and active_ctx are picked from _active, then the    *)
(* scheduler runs on the snapshot followed by active_ctx.                   *)

NotResubmitted(r) == FALSE   \* mutant: requests in prefill are forgotten
Resubmitted(r) == state[r] = "CONTEXT_IN_PROGRESS"

CollectNext ==
    /\ pc = "collect"
    /\ work # <<>>
    /\ LET r == Head(work) IN
       /\ active_gen' = IF is_generation_phase(r) THEN Append(active_gen, r) ELSE active_gen
       /\ active_ctx' = IF Resubmitted(r) THEN Append(active_ctx, r) ELSE active_ctx
    /\ work' = Tail(work)
    /\ UNCHANGED <<request_vars, scheduler_vars, queue_vars, client_vars, responses,
                   pc, snapshot, completed_ids, pool_vars>>

NoActiveBlocks == 0   \* mutant: the blocks of active requests are not counted
(* sum(len(r.block_table) for r in self._active)                            *)
active_blocks ==
    Cardinality(UNION {{r} \X (1 .. Len(block_table[r])) : r \in Members(active)})

CallSchedule ==
    /\ pc = "collect"
    /\ work = <<>>
    /\ ScheduleCall(snapshot \o active_ctx, active_gen, active_blocks)
    /\ pc' = "schedule"
    /\ UNCHANGED <<request_vars, queue_vars, client_vars, responses, work,
                   local_vars, pool_vars>>

RunScheduler ==
    /\ pc = "schedule"
    /\ ScheduleStep
    /\ UNCHANGED <<request_vars, queue_vars, client_vars, responses, pc, work,
                   local_vars, pool_vars>>

EndSchedule ==
    /\ pc = "schedule"
    /\ tier = "done"
    /\ IF is_empty
       THEN pc' = "idle" /\ UNCHANGED work
       ELSE /\ pc' = "move"
            /\ work' = scheduled.context_chunking \o scheduled.context_last_chunk
    /\ UNCHANGED <<request_vars, scheduler_vars, queue_vars, client_vars, responses,
                   local_vars, pool_vars>>

-----------------------------------------------------------------------------
(* Under the lock: scheduled context requests move to _active.              *)
MoveNext ==
    /\ pc = "move"
    /\ work # <<>>
    /\ LET r == Head(work) IN
       /\ waiting' = Without(waiting, r)
       /\ active' = IF r \in Members(active) THEN active ELSE Append(active, r)
    /\ work' = Tail(work)
    /\ UNCHANGED <<request_vars, scheduler_vars, client_vars, responses, pc,
                   local_vars, pool_vars>>

all_requests ==
    scheduled.context_chunking \o scheduled.context_last_chunk \o scheduled.generation

EndMove ==
    /\ pc = "move"
    /\ work = <<>>
    /\ pc' = "prepare"
    /\ work' = IF HasResourceManager THEN all_requests ELSE <<>>
    /\ UNCHANGED <<request_vars, scheduler_vars, queue_vars, client_vars, responses,
                   local_vars, pool_vars>>

-----------------------------------------------------------------------------
(* prepare_resources of the scheduled requests in CONTEXT_INIT: one         *)
(* allocate() for each, of the blocks it needs to its completion.           *)

others_of_raise == <<request_vars, scheduler_vars, queue_vars, cancelled, arrived,
                     responses, work, local_vars>>

others_of_pool == <<request_vars, scheduler_vars, queue_vars, client_vars,
                    responses, local_vars>>

NeededForContext(r) == _blocks_needed(ContextLen[r])   \* mutant: no room for output
get_needed_resource_to_completion(r) == _blocks_needed(ContextLen[r] + MaxTokens[r])

PrepareNext ==
    /\ pc = "prepare"
    /\ allocation = BM!Idle
    /\ work # <<>>
    /\ IF state[Head(work)] = "CONTEXT_INIT"
       THEN BM!AllocateCall(Head(work), get_needed_resource_to_completion(Head(work)))
       ELSE UNCHANGED pool_vars
    /\ work' = Tail(work)
    /\ UNCHANGED <<others_of_pool, pc>>

AllocateTurn ==
    /\ pc \in {"prepare", "update"}
    /\ BM!AllocatePop
    /\ UNCHANGED <<others_of_pool, pc, work>>

(* The RuntimeError of allocate() leaves iteration().                       *)
AllocateFails ==
    /\ pc \in {"prepare", "update"}
    /\ BM!AllocateRaise
    /\ errors' = [errors EXCEPT !.allocate = TRUE]
    /\ pc' = "raised"
    /\ UNCHANGED others_of_raise

(* The caller goes on with the next iteration() after the exception.        *)
Resume ==
    /\ pc = "raised"
    /\ pc' = "idle"
    /\ UNCHANGED <<others_of_pool, work, pool_vars>>

EndPrepare ==
    /\ pc = "prepare"
    /\ allocation = BM!Idle
    /\ work = <<>>
    /\ pc' = "advance"
    /\ UNCHANGED <<others_of_pool, work, pool_vars>>

-----------------------------------------------------------------------------
(* The forward pass may raise (the GPU is out of memory, say): the requests *)
(* already moved to _active keep their blocks and their state.              *)
ForwardRaises ==
    /\ pc = "advance"
    /\ errors.forward < MaxForwardErrors
    /\ errors' = [errors EXCEPT !.forward = @ + 1]
    /\ pc' = "raised"
    /\ UNCHANGED <<others_of_raise, pool_vars>>

(* After the forward pass the context requests advance by their chunk, and  *)
(* those of the last chunk enter generation.                                *)

(* Mutant: the requests of the last chunk do not advance.                   *)
AdvancedChunking(r) ==
    num_context_tokens_processed[r] +
        IF r \in Members(scheduled.context_chunking)
        THEN _scheduled_context_tokens[r] ELSE 0
Advanced(r) ==
    num_context_tokens_processed[r] +
        IF r \in ContextScheduled THEN _scheduled_context_tokens[r] ELSE 0

InContextInit(r) == state[r] = "CONTEXT_INIT"   \* mutant: one-chunk prompts only
InContextInProgress(r) == state[r] = "CONTEXT_IN_PROGRESS"   \* mutant: several chunks only
InContext(r) == state[r] \in {"CONTEXT_INIT", "CONTEXT_IN_PROGRESS"}

Advance ==
    /\ pc = "advance"
    /\ num_context_tokens_processed' = [r \in Requests |-> Advanced(r)]
    /\ state' = [r \in Requests |->
          IF r \in Members(scheduled.context_last_chunk) /\ InContext(r)
          THEN "GENERATION_IN_PROGRESS"
          ELSE IF r \in Members(scheduled.context_chunking) /\ state[r] = "CONTEXT_INIT"
          THEN "CONTEXT_IN_PROGRESS"
          ELSE state[r]]
    /\ completed_ids' = <<>>
    /\ work' = scheduled.context_last_chunk \o scheduled.generation
    /\ pc' = "sample"
    /\ UNCHANGED <<num_output_tokens, scheduler_vars, queue_vars, client_vars,
                   responses, snapshot, active_ctx, active_gen, pool_vars>>

(* Sampler.update_requests: one token for each sampled request, and those   *)
(* that have all their tokens are complete.                                 *)

CompleteNow(r) == num_tokens_remaining(r) - 1 <= 0

SampleNext ==
    /\ pc = "sample"
    /\ work # <<>>
    /\ LET r == Head(work) IN
       /\ num_output_tokens' = [num_output_tokens EXCEPT ![r] = @ + 1]
       /\ IF CompleteNow(r)
          THEN /\ state' = [state EXCEPT ![r] = "GENERATION_COMPLETE"]
               /\ completed_ids' = Append(completed_ids, r)
          ELSE UNCHANGED <<state, completed_ids>>
    /\ work' = Tail(work)
    /\ UNCHANGED <<num_context_tokens_processed, scheduler_vars, queue_vars, client_vars,
                   responses, pc, snapshot, active_ctx, active_gen, pool_vars>>

EndSample ==
    /\ pc = "sample"
    /\ work = <<>>
    /\ pc' = "update"
    /\ work' = IF HasResourceManager THEN scheduled.generation ELSE <<>>
    /\ UNCHANGED <<others_of_pool, pool_vars>>

-----------------------------------------------------------------------------
(* update_resources: a table too short for the tokens so far is extended.   *)

Uncovered(r) == total_num_tokens(r) - Len(block_table[r]) * block_size

UpdateNext ==
    /\ pc = "update"
    /\ allocation = BM!Idle
    /\ work # <<>>
    /\ IF Uncovered(Head(work)) > 0
       THEN BM!AllocateCall(Head(work), _blocks_needed(Uncovered(Head(work))))
       ELSE UNCHANGED pool_vars
    /\ work' = Tail(work)
    /\ UNCHANGED <<others_of_pool, pc>>

EndUpdate ==
    /\ pc = "update"
    /\ allocation = BM!Idle
    /\ work = <<>>
    /\ pc' = "complete"
    /\ work' = completed_ids
    /\ UNCHANGED <<others_of_pool, pool_vars>>

-----------------------------------------------------------------------------
(* Completions, in the order of completed_ids: notify, free, leave _active. *)

Output(r, f) == [tokens |-> num_output_tokens[r], finished |-> f]

notify(r, f) == responses' = [responses EXCEPT ![r] = Append(@, Output(r, f))]

FreeNothing(r) == UNCHANGED pool_vars   \* mutant: the blocks stay with the request
free_resources(r) ==
    IF HasResourceManager /\ block_table[r] # <<>> THEN BM!Free(r) ELSE UNCHANGED pool_vars

CompleteNext ==
    /\ pc = "complete"
    /\ work # <<>>
    /\ LET r == Head(work) IN
       IF r \in Members(active)
       THEN /\ notify(r, TRUE)
            /\ free_resources(r)
            /\ active' = Without(active, r)
       ELSE UNCHANGED <<responses, pool_vars, active>>
    /\ work' = Tail(work)
    /\ UNCHANGED <<request_vars, scheduler_vars, waiting, client_vars, pc, local_vars>>

(* Streaming: the generation requests of this batch that go on.             *)

StreamedAll(r) == r \in Members(scheduled.generation)   \* mutant: complete ones too
Streamed(r) ==
    /\ r \in Members(scheduled.generation)
    /\ r \notin Members(completed_ids)
    /\ num_output_tokens[r] > 0

Stream ==
    /\ pc = "complete"
    /\ work = <<>>
    /\ responses' = [r \in Requests |->
          IF Streamed(r) THEN Append(responses[r], Output(r, FALSE)) ELSE responses[r]]
    /\ pc' = "idle"
    /\ UNCHANGED <<request_vars, scheduler_vars, queue_vars, client_vars, work,
                   local_vars, pool_vars>>

-----------------------------------------------------------------------------
Iteration ==
    \/ BeginIteration
    \/ DropCancelled
    \/ TakeSnapshot
    \/ CollectNext
    \/ CallSchedule
    \/ RunScheduler
    \/ EndSchedule
    \/ MoveNext
    \/ EndMove
    \/ PrepareNext
    \/ AllocateTurn
    \/ AllocateFails
    \/ Resume
    \/ EndPrepare
    \/ ForwardRaises
    \/ Advance
    \/ SampleNext
    \/ EndSample
    \/ UpdateNext
    \/ EndUpdate
    \/ CompleteNext
    \/ Stream

Next ==
    \/ \E r \in Requests : enqueue_request(r)
    \/ \E r \in Requests : cancel_request(r)
    \/ Iteration

Spec == Init /\ [][Next]_vars

FairSpec == Spec /\ WF_vars(Iteration)

-----------------------------------------------------------------------------
(* Properties.                                                             *)

(* Type invariant of the executor.                                          *)
TypeOK ==
    /\ RequestTypeOK
    /\ SchedulerTypeOK
    /\ waiting \in Seq(Requests)
    /\ active \in Seq(Requests)
    /\ cancelled \in SUBSET Requests
    /\ arrived \in SUBSET Requests
    /\ errors \in [allocate : BOOLEAN, forward : Nat]
    /\ responses \in [Requests -> Seq([tokens : Nat, finished : BOOLEAN])]
    /\ pc \in {"idle", "drop", "collect", "schedule", "move", "prepare", "raised",
               "advance", "sample", "update", "complete"}
    /\ work \in Seq(Requests)
    /\ snapshot \in Seq(Requests)
    /\ active_ctx \in Seq(Requests)
    /\ active_gen \in Seq(Requests)
    /\ completed_ids \in Seq(Requests)
    /\ free_block_ids \in Seq(BM!Blocks)
    /\ allocated \in SUBSET BM!Blocks
    /\ block_table \in [Requests -> Seq(BM!Blocks)]
    /\ allocation \in [call : {"idle", "allocate"}, holder : Requests \cup {NoRequest},
                       arg : Nat]

Distinct(s) == \A i, j \in DOMAIN s : s[i] = s[j] => i = j

Finished(r) == \E i \in DOMAIN responses[r] : responses[r][i].finished

(* No request is lost, duplicated or revived: each one that came is in one  *)
(* queue, once, until it finished or was cancelled; one that finished is in *)
(* none (enqueue, cancel, the move and the removal at completion).          *)
InOneQueue ==
    /\ Distinct(waiting \o active)
    /\ \A r \in arrived :
          Finished(r) \/ r \in cancelled \/ r \in Members(waiting \o active)
    /\ \A r \in Members(waiting \o active) : ~Finished(r)

(* What a client is told of a request: ever more tokens, finished last and  *)
(* exactly when all max_tokens are there.                                   *)
ResponsesInOrder ==
    \A r \in Requests : \A i \in DOMAIN responses[r] :
        /\ \A j \in 1 .. i - 1 : responses[r][j].tokens < responses[r][i].tokens
        /\ responses[r][i].finished <=> responses[r][i].tokens = MaxTokens[r]
        /\ responses[r][i].finished => i = Len(responses[r])

(* Generation starts only with the whole prompt processed, no prompt token  *)
(* is processed twice, and nothing is generated past max_tokens.            *)
PrefillBeforeDecode ==
    \A r \in Requests :
        /\ num_context_tokens_processed[r] <= ContextLen[r]
        /\ is_generation_phase(r) => num_context_tokens_processed[r] = ContextLen[r]
        /\ num_output_tokens[r] > 0 => is_generation_phase(r)
        /\ num_output_tokens[r] <= MaxTokens[r]

(* transition_to never raises: every change of state is a valid transition, *)
(* or the two that a prompt of a single chunk makes at once.                *)
TransitionsLegal ==
    [][\A r \in Requests :
          state'[r] # state[r] =>
              \/ state'[r] \in VALID_TRANSITIONS(state[r])
              \/ state[r] = "CONTEXT_INIT" /\ state'[r] = "GENERATION_IN_PROGRESS"]_vars

(* A request that holds blocks is active, unless it was cancelled: blocks   *)
(* come back at completion and at no other time.                            *)
BlocksOfActive ==
    \A r \in Requests :
        block_table[r] # <<>> => r \in Members(active) \/ r \in cancelled

(* A request in generation has a block for every token it has or will have. *)
TableCovers ==
    HasResourceManager =>
        \A r \in Members(active) :
            is_generation_phase(r) =>
                Len(block_table[r]) * block_size >= ContextLen[r] + MaxTokens[r]

(* allocate() never raises in iteration(), as GUARANTEED_NO_EVICT promises  *)
(* (docs/source/features/scheduling.md:23).                                 *)
NeverRaises == ~errors.allocate

(* The promise is kept as long as no client cancels a request, also after   *)
(* forward passes that raised.                                              *)
GuaranteeKept ==
    policy.capacity = "GUARANTEED_NO_EVICT" /\ cancelled = {} => NeverRaises

(* An exception between the move to _active and the advance strands a new   *)
(* request: it is in no list the scheduler will be given again.             *)
Stranded(r) ==
    /\ pc = "idle"
    /\ r \in Members(active)
    /\ state[r] = "CONTEXT_INIT"

(* Nothing else strands one: every request of _active that has not raised   *)
(* out of an iteration is in prefill or in generation between iterations.   *)
OnlyErrorsStrand ==
    \A r \in Requests : Stranded(r) => errors.allocate \/ errors.forward > 0

(* Every request is answered in full or was cancelled, unless an exception  *)
(* strands a request: its blocks and its place in the count stay taken.     *)
EveryRequestFinishes ==
    \A r \in Requests :
        r \in arrived ~> \/ Finished(r)
                         \/ r \in cancelled
                         \/ \E q \in Requests : Stranded(q)

(* A cancelled request leaves the executor for good.                        *)
CancelledLeaves ==
    \A r \in Requests :
        r \in cancelled ~> [](r \notin Members(waiting) \cup Members(active))

=============================================================================
