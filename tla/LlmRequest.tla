----------------------------- MODULE LlmRequest -----------------------------
(***************************************************************************)
(* The life of a request, engine/request.py: its state machine and its     *)
(* token counts.  Token values play no part in scheduling; only how many   *)
(* there are does.                                                         *)
(***************************************************************************)
EXTENDS Integers, Sequences, FiniteSets, RequestStates

CONSTANTS
    Requests,      \* request objects, each with its own request_id
    ContextLen,    \* context_len of each request
    MaxTokens      \* max_tokens of each request

ASSUME RequestAssumption ==
    /\ IsFiniteSet(Requests)
    /\ ContextLen \in [Requests -> Nat]
    /\ MaxTokens \in [Requests -> Nat \ {0}]

VARIABLES
    state,                          \* LlmRequest.state
    num_context_tokens_processed,   \* LlmRequest.num_context_tokens_processed
    num_output_tokens               \* len(LlmRequest.output_token_ids)

request_vars == <<state, num_context_tokens_processed, num_output_tokens>>

-----------------------------------------------------------------------------
is_generation_phase(r) ==
    state[r] \in {"GENERATION_IN_PROGRESS", "GENERATION_COMPLETE"}

num_tokens_remaining(r) == MaxTokens[r] - num_output_tokens[r]

total_num_tokens(r) == ContextLen[r] + num_output_tokens[r]

RemainingContext(r) == ContextLen[r] - num_context_tokens_processed[r]

RequestInit ==
    /\ state = [r \in Requests |-> "CONTEXT_INIT"]
    /\ num_context_tokens_processed = [r \in Requests |-> 0]
    /\ num_output_tokens = [r \in Requests |-> 0]

RequestTypeOK ==
    /\ state \in [Requests -> RequestState]
    /\ num_context_tokens_processed \in [Requests -> Nat]
    /\ num_output_tokens \in [Requests -> Nat]

=============================================================================
