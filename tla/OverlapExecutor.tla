-------------------------- MODULE OverlapExecutor --------------------------
(***************************************************************************)
(* OverlapExecutor.overlap_iteration (engine/executor.py): the tokens of a *)
(* batch are applied to its requests in the call after the one that        *)
(* launched it.  One thread calls overlap_iteration again and again while  *)
(* clients enqueue and cancel.  A forward pass may raise: the exception    *)
(* leaves the call with what it has changed so far, and the thread calls   *)
(* again.  This executor never fills a block table, so the blocks of its   *)
(* active requests always count zero.                                      *)
(***************************************************************************)
EXTENDS SchedulePlan, ModelEngine

CONSTANTS
    Requests, ContextLen, MaxTokens,   \* as in LlmRequest
    Blocks,        \* the blocks the capacity policy counts for each request
    Strategy,      \* (top_k, top_p, temperature) of each request
    Setups,        \* chunking policies and decode modes the engine is built with
    Cancellable,   \* bound: the requests a client may cancel
    MaxRaises      \* bound: forward passes that raise

ASSUME OverlapAssumption ==
    /\ Setups \subseteq [chunking : {"EQUAL_PROGRESS", "FCFS"}, full_sequence : BOOLEAN]
    /\ ContextLen \in [Requests -> Nat \ {0}]
    /\ MaxTokens \in [Requests -> Nat \ {0}]
    /\ Blocks \in [Requests -> Nat]
    /\ DOMAIN Strategy = Requests
    /\ Cancellable \subseteq Requests
    /\ MaxRaises \in Nat
    /\ max_num_tokens \in Nat

VARIABLES
    setup,                 \* the setup of this engine
    waiting, active, cancelled,              \* _waiting, _active, _cancelled
    state, num_context_tokens_processed,     \* of each request
    output,                \* output_token_ids: the row and strategy each came from
    fed,                   \* history: the rows of each request the model has seen
    prev,                  \* _prev_requests with the tokens of _prev_sample_state
    pc,
    completed_ids,         \* what completed_ids has still to visit
    batch,                 \* the ScheduledRequests of this call
    responses,             \* finished outputs notified: number of tokens
    raises                 \* history: forward passes that raised

vars == <<setup, waiting, active, cancelled, state, num_context_tokens_processed,
          output, fed, prev, pc, completed_ids, batch, responses, raises>>

num_output_tokens == [r \in Requests |-> Len(output[r])]

INSTANCE LlmRequest

Without(s, r) == Keep(s, Range(s) \ {r})

NoBatch == [context_chunking |-> <<>>, context_last_chunk |-> <<>>,
            generation |-> <<>>, tokens |-> <<>>]

Init ==
    /\ setup \in Setups
    /\ waiting = <<>> /\ active = <<>> /\ cancelled = {}
    /\ state = [r \in Requests |-> "CONTEXT_INIT"]
    /\ num_context_tokens_processed = [r \in Requests |-> 0]
    /\ output = [r \in Requests |-> <<>>]
    /\ fed = [r \in Requests |-> <<>>]
    /\ prev = <<>> /\ pc = "idle" /\ completed_ids = <<>> /\ batch = NoBatch
    /\ responses = [r \in Requests |-> <<>>]
    /\ raises = 0

request_state == <<state, num_context_tokens_processed, output, fed>>

-----------------------------------------------------------------------------
(* Clients; both calls take the lock.  A request is enqueued once.          *)

Arrived(r) ==
    r \in Range(waiting) \cup Range(active) \cup cancelled \/ responses[r] # <<>>

enqueue_request(r) ==
    /\ ~Arrived(r)
    /\ waiting' = Append(waiting, r)
    /\ UNCHANGED <<setup, active, cancelled, request_state, prev, pc, completed_ids,
                   batch, responses, raises>>

(* Only _waiting is looked at: overlap_iteration never drops a cancelled    *)
(* request from _active.                                                    *)
cancel_request(r) ==
    /\ r \in Cancellable \ cancelled
    /\ Arrived(r)
    /\ cancelled' = cancelled \cup {r}
    /\ waiting' = Without(waiting, r)
    /\ UNCHANGED <<setup, active, request_state, prev, pc, completed_ids, batch,
                   responses, raises>>

-----------------------------------------------------------------------------
(* Phase 1: the previous batch.  update_requests appends a token to each    *)
(* request of it; those that then have all their tokens are complete.       *)

GotAll(r) == num_tokens_remaining(r) - 1 <= 0

update_requests ==
    /\ pc = "idle"
    /\ LET sampled == [i \in DOMAIN prev |-> prev[i].req]
           Token(r) == prev[CHOOSE i \in DOMAIN prev : prev[i].req = r].token
       IN  /\ output' = [r \in Requests |->
                  IF r \in Range(sampled) THEN Append(output[r], Token(r)) ELSE output[r]]
           /\ completed_ids' = Keep(sampled, {r \in Requests : GotAll(r)})
           /\ state' = [r \in Requests |->
                  IF r \in Range(sampled) /\ GotAll(r)
                  THEN "GENERATION_COMPLETE" ELSE state[r]]
    /\ pc' = "complete"
    /\ UNCHANGED <<setup, waiting, active, cancelled, num_context_tokens_processed, fed,
                   prev, batch, responses, raises>>

AnyRequest(r) == TRUE   \* mutant: completed_ids are not looked up in _active
Looked(r) == r \in Range(active)

CompleteNext ==
    /\ pc = "complete"
    /\ completed_ids # <<>>
    /\ LET r == Head(completed_ids) IN
       IF Looked(r)
       THEN /\ responses' = [responses EXCEPT ![r] = Append(@, Len(output[r]))]
            /\ active' = Without(active, r)
       ELSE UNCHANGED <<responses, active>>
    /\ completed_ids' = Tail(completed_ids)
    /\ UNCHANGED <<setup, waiting, cancelled, request_state, prev, pc, batch, raises>>

-----------------------------------------------------------------------------
(* Phase 2: the next batch is scheduled from a copy of _waiting ...         *)

NeverPrefill(r) == FALSE   \* mutant: requests in prefill are forgotten
Resubmitted(r) == state[r] = "CONTEXT_IN_PROGRESS"

Schedule ==
    /\ pc = "complete"
    /\ completed_ids = <<>>
    /\ \E active_ctx \in {Keep(active, {r \in Requests : Resubmitted(r)})},
          active_gen \in {Keep(active, {r \in Requests : is_generation_phase(r)})} :
       \E list \in {schedule_capacity(waiting \o active_ctx, 0, Blocks)} :
       \E plan \in {schedule_microbatch(setup.chunking, list, active_gen,
                                         [r \in Requests |-> RemainingContext(r)])} :
          IF EmptyBatch(plan)
          THEN /\ pc' = "idle"
               /\ prev' = <<>>
               /\ UNCHANGED batch
          ELSE /\ pc' = "move"
               /\ batch' = plan
               /\ UNCHANGED prev
    /\ UNCHANGED <<setup, waiting, active, cancelled, request_state, completed_ids,
                   responses, raises>>

ContextOf(b) == b.context_chunking \o b.context_last_chunk

(* ... and its context requests move to _active, under the lock.            *)
Move ==
    /\ pc = "move"
    /\ LET context == ContextOf(batch)
       IN  /\ waiting' = Keep(waiting, Requests \ Range(context))
           /\ active' = active \o Keep(context, Requests \ Range(active))
    /\ pc' = "forward"
    /\ UNCHANGED <<setup, cancelled, request_state, prev, completed_ids, batch, responses,
                   raises>>

-----------------------------------------------------------------------------
(* forward, the transitions of the context requests, and sample_async: the  *)
(* tokens are kept in prev until the next call.                             *)

Sampled == batch.context_last_chunk \o batch.generation

logits == forward(batch, num_context_tokens_processed, ContextLen,
                  num_output_tokens, setup.full_sequence)

RowsSeen(r) ==
    LET all == FlattenSeq(_prepare_inputs(batch, num_context_tokens_processed, ContextLen,
                                          num_output_tokens, setup.full_sequence))
    IN  Keep(all, {row \in Range(all) : row.req = r})

Forward ==
    /\ pc = "forward"
    /\ LET context == ContextOf(batch)
           tokens == sample_async(LastRows(logits, Len(Sampled)), Sampled, Strategy)
       IN  /\ num_context_tokens_processed' = [r \in Requests |->
                  num_context_tokens_processed[r]
                      + IF r \in Range(context) THEN batch.tokens[r] ELSE 0]
           /\ state' = [r \in Requests |->
                  IF r \in Range(batch.context_last_chunk) THEN "GENERATION_IN_PROGRESS"
                  ELSE IF r \in Range(batch.context_chunking) THEN "CONTEXT_IN_PROGRESS"
                  ELSE state[r]]
           /\ prev' = [i \in DOMAIN Sampled |-> [req |-> Sampled[i], token |-> tokens[i]]]
    /\ fed' = [r \in Requests |-> fed[r] \o RowsSeen(r)]
    /\ batch' = NoBatch
    /\ pc' = "idle"
    /\ UNCHANGED <<setup, waiting, active, cancelled, output, completed_ids, responses,
                   raises>>

(* The exception leaves prev as it was: the next call applies it again.     *)
ForwardRaises ==
    /\ pc = "forward"
    /\ raises < MaxRaises
    /\ raises' = raises + 1
    /\ batch' = NoBatch
    /\ pc' = "idle"
    /\ UNCHANGED <<setup, waiting, active, cancelled, request_state, prev, completed_ids,
                   responses>>

Iteration == update_requests \/ CompleteNext \/ Schedule \/ Move \/ Forward \/ ForwardRaises

Next ==
    \/ \E r \in Requests : enqueue_request(r)
    \/ \E r \in Requests : cancel_request(r)
    \/ Iteration

Spec == Init /\ [][Next]_vars /\ WF_vars(Iteration)

-----------------------------------------------------------------------------
(* Properties.                                                             *)

(* Every output token is sampled from a row of its own request, with that   *)
(* request's parameters; unless a forward pass raised, token i comes from   *)
(* the row of the token before it (the row bookkeeping of                   *)
(* _extract_sampling_logits, logits[-n:] and the groups of sample_async,    *)
(* one call after the batch was built).                                     *)
OwnNextToken ==
    \A r \in Requests : \A i \in DOMAIN output[r] :
        LET from == output[r][i] IN
        /\ from.row.req = r
        /\ from.key = Strategy[r]
        /\ raises = 0 => from.row.tok = ContextLen[r] + i - 2

(* Without a forward pass that raised, the model sees every token of a      *)
(* request once and in order, at its own position, as a KV cache needs it:  *)
(* no chunk is fed twice and no decode step runs before the token of the    *)
(* call before is applied (_prepare_inputs).                                *)
FedInOrder ==
    raises = 0 /\ ~setup.full_sequence =>
        \A r \in Requests : \A i \in DOMAIN fed[r] :
            fed[r][i].tok = i - 1 /\ fed[r][i].pos = i - 1

(* A request is answered at most once, with max_tokens tokens, and has left *)
(* _active by then, even when a raising forward pass makes the next call    *)
(* apply a batch a second time (overlap_iteration, the lookup in _active).  *)
DeliveredOnce ==
    \A r \in Requests :
        /\ responses[r] \in {<<>>, <<MaxTokens[r]>>}
        /\ responses[r] # <<>> => r \notin Range(waiting \o active)

(* Every request is answered unless it was cancelled or a forward pass      *)
(* raised: the last batch is applied by a call that has nothing to launch.  *)
EveryRequestFinishes ==
    \A r \in Requests :
        Arrived(r) ~> responses[r] # <<>> \/ r \in cancelled \/ raises > 0

=============================================================================
