-------------------------- MODULE GenerateService --------------------------
(***************************************************************************)
(* LLM.generate (llm.py) called by several threads on one LLM, as the      *)
(* thread pool of the server does: the lazy initialisation under           *)
(* _init_lock, the ids of _next_id, and the loop in which every caller     *)
(* runs iteration() of the one PyExecutor until it has counted as many     *)
(* outputs as it has prompts.                                              *)
(*                                                                         *)
(* iteration() is cut where threads can meet: the copy of _waiting, the    *)
(* schedule, the move to _active, the forward pass, and then, request by   *)
(* request and without a lock, each read and each write of the counts and  *)
(* of the state, and each completion.  There is no resource manager, and   *)
(* nobody cancels.                                                         *)
(***************************************************************************)
EXTENDS SchedulePlan, RequestStates, FiniteSets

CONSTANTS
    Threads,
    Prompts,       \* token_id_lists of the call of each thread: their lengths
    MaxNew,        \* sampling_params.max_tokens of each call
    block_size,
    scheduling_policy, chunking_policy,   \* of TinyLlmArgs
    Slack,         \* the 200 iterations generate() adds to what it expects to need
    MaxFailures,   \* bound: loads of the model that raise
    NoThread

ASSUME GenerateAssumption ==
    /\ Prompts \in [Threads -> Seq(Nat)]
    /\ MaxNew \in [Threads -> Nat \ {0}]
    /\ {max_batch_size, max_num_tokens, block_size} \subseteq Nat \ {0}
    /\ {max_blocks, Slack} \subseteq Nat
    /\ scheduling_policy \in {"GUARANTEED_NO_EVICT", "MAX_UTILIZATION"}
    /\ chunking_policy \in {"EQUAL_PROGRESS", "FCFS"}
    /\ NoThread \notin Threads

VARIABLES
    init,        \* _initialized, _init_lock, and history: loads and failures
    counter,     \* _request_counter
    call,        \* pc and locals of the call of each thread
    waiting, active,   \* of the executor: sequences of request objects
    request,     \* the attributes of each request object
    overlapped   \* history: two calls were in progress at the same time

generate_vars == <<init, counter, call, waiting, active, request, overlapped>>

(* Request objects: the i-th prompt of the call of thread t.                *)
Objects == UNION {{t} \X DOMAIN Prompts[t] : t \in Threads}
ContextLenOf(o) == Prompts[o[1]][o[2]]
MaxTokensOf(o) == MaxNew[o[1]]

NoCall == [pc |-> "idle", seen |-> 0, request_ids |-> <<>>, iters |-> 0, completed |-> {},
           snapshot |-> <<>>, batch |-> <<>>, todo |-> <<>>, target |-> "CONTEXT_INIT",
           completed_ids |-> <<>>, results |-> <<>>]

NewRequest == [id |-> 0, state |-> "CONTEXT_INIT", processed |-> 0, chunk |-> 0, out |-> 0]

GenerateInit ==
    /\ init = [done |-> FALSE, lock |-> NoThread, loads |-> 0, failures |-> 0]
    /\ counter = 0
    /\ call = [t \in Threads |-> NoCall]
    /\ waiting = <<>> /\ active = <<>>
    /\ request = [o \in Objects |-> NewRequest]
    /\ overlapped = FALSE

InCall(t) == call[t].pc \notin {"idle", "returned", "raised"}

Goto(t, label) == call' = [call EXCEPT ![t].pc = label]

-----------------------------------------------------------------------------
(* _lazy_init: checked without the lock, and again with it.                 *)

queue_vars == <<counter, waiting, active, request>>

generate(t) ==
    /\ call[t].pc = "idle"
    /\ Goto(t, IF init.done THEN "enqueue" ELSE "init")
    /\ overlapped' = (overlapped \/ \E u \in Threads : InCall(u))
    /\ UNCHANGED <<init, queue_vars>>

NoRecheck == FALSE   \* mutant: _initialized is not checked again under the lock
Recheck == init.done

AcquireInitLock(t) ==
    /\ call[t].pc = "init"
    /\ init.lock = NoThread
    /\ IF Recheck
       THEN Goto(t, "enqueue") /\ UNCHANGED init
       ELSE Goto(t, "load") /\ init' = [init EXCEPT !.lock = t]
    /\ UNCHANGED <<queue_vars, overlapped>>

(* Tokenizer, model and executor are made, _initialized is set last, the    *)
(* lock is released: nobody looks at them before.                           *)
Load(t) ==
    /\ call[t].pc = "load"
    /\ Goto(t, "enqueue")
    /\ init' = [init EXCEPT !.loads = @ + 1, !.done = TRUE, !.lock = NoThread]
    /\ UNCHANGED <<queue_vars, overlapped>>

LockAfterFailure(t) == t   \* mutant: the lock is not released by an exception
(* "with self._init_lock" releases it.                                      *)
LockAfterRaise(t) == NoThread

LoadRaises(t) ==
    /\ call[t].pc = "load"
    /\ init.failures < MaxFailures
    /\ Goto(t, "raised")
    /\ init' = [init EXCEPT !.lock = LockAfterRaise(t), !.failures = @ + 1]
    /\ UNCHANGED <<queue_vars, overlapped>>

-----------------------------------------------------------------------------
(* One request per prompt.  _next_id reads the counter, writes it, and      *)
(* reads it again for the value it returns.                                 *)

ReadCounter(t) ==
    /\ call[t].pc = "enqueue"
    /\ Len(call[t].request_ids) < Len(Prompts[t])
    /\ call' = [call EXCEPT ![t].pc = "write_id", ![t].seen = counter]
    /\ UNCHANGED <<init, queue_vars, overlapped>>

WriteCounter(t) ==
    /\ call[t].pc = "write_id"
    /\ counter' = call[t].seen + 1
    /\ call' = [call EXCEPT ![t].pc = "return_id", ![t].seen = 0]
    /\ UNCHANGED <<init, waiting, active, request, overlapped>>

enqueue_request(t) ==
    /\ call[t].pc = "return_id"
    /\ LET o == <<t, Len(call[t].request_ids) + 1>> IN
       /\ request' = [request EXCEPT ![o].id = counter]
       /\ waiting' = Append(waiting, o)
    /\ call' = [call EXCEPT ![t].pc = "enqueue",
                            ![t].request_ids = Append(@, counter)]
    /\ UNCHANGED <<init, counter, active, overlapped>>

max_context_iters(t) ==
    LET lens == Prompts[t]
    IN  SumOver(DOMAIN lens, [i \in DOMAIN lens |-> i], Len(lens),
                [i \in DOMAIN lens |->
                    (lens[i] + max_num_tokens - 1) \div max_num_tokens])

ContextIters(t) == max_context_iters(t) + Slack   \* mutant: output is not counted
max_iters(t) == max_context_iters(t) + MaxNew[t] * Len(Prompts[t]) + Slack

StartLoop(t) ==
    /\ call[t].pc = "enqueue"
    /\ Len(call[t].request_ids) = Len(Prompts[t])
    /\ call' = [call EXCEPT ![t].pc = "loop", ![t].iters = max_iters(t)]
    /\ UNCHANGED <<init, queue_vars, overlapped>>

-----------------------------------------------------------------------------
(* One iteration() of the executor.                                         *)

(* generate() stops when len(completed) >= len(request_ids): the outputs     *)
(* it has counted may be those of other calls.                              *)
Enough(t) == Cardinality(call[t].completed) >= Len(call[t].request_ids)

AfterIteration(t) == IF Enough(t) THEN "build" ELSE "loop"

TakeSnapshot(t) ==
    /\ call[t].pc = "loop"
    /\ call[t].iters > 0
    /\ call' = [call EXCEPT ![t].pc = "schedule", ![t].iters = @ - 1,
                            ![t].snapshot = waiting]
    /\ UNCHANGED <<init, queue_vars, overlapped>>

InGeneration(o) == request[o].state \in {"GENERATION_IN_PROGRESS", "GENERATION_COMPLETE"}
InPrefill(o) == request[o].state = "CONTEXT_IN_PROGRESS"

(* _blocks_needed, of the whole run of a request or of its prompt.          *)
BlocksForRequest(o) ==
    IF scheduling_policy = "GUARANTEED_NO_EVICT"
    THEN (ContextLenOf(o) + MaxTokensOf(o) + block_size - 1) \div block_size
    ELSE AtLeast(1, (ContextLenOf(o) + block_size - 1) \div block_size)

(* The list names a request twice that was moved and advanced after the     *)
(* snapshot: each of its turns is planned, and the chunk of the last stays. *)
PlanTurns(list, gen) ==
    LET left(o) == AtLeast(0, ContextLenOf(o) - request[o].processed)
        turns == schedule_microbatch(chunking_policy, [i \in DOMAIN list |-> i], gen,
                                     [i \in DOMAIN list |-> left(list[i])])
        At(s) == [k \in DOMAIN s |-> list[s[k]]]
        Planned(o) == {i \in Range(turns.context_chunking \o turns.context_last_chunk) :
                          list[i] = o}
        lastTurn(o) == CHOOSE i \in Planned(o) : \A j \in Planned(o) : j <= i
    IN  [context_chunking   |-> At(turns.context_chunking),
         context_last_chunk |-> At(turns.context_last_chunk),
         generation         |-> gen,
         tokens |-> [o \in Range(At(turns.context_chunking \o turns.context_last_chunk)) |->
                        turns.tokens[lastTurn(o)]]]

Schedule(t) ==
    /\ call[t].pc = "schedule"
    /\ \E list \in {schedule_capacity(
                        call[t].snapshot \o Keep(active, {o \in Objects : InPrefill(o)}), 0,
                        [o \in Objects |-> BlocksForRequest(o)])} :
       \E plan \in {PlanTurns(list, Keep(active, {o \in Objects : InGeneration(o)}))} :
          /\ request' = [o \in Objects |->
                IF o \in DOMAIN plan.tokens THEN [request[o] EXCEPT !.chunk = plan.tokens[o]]
                ELSE request[o]]
          /\ call' = [call EXCEPT
                ![t].pc = IF EmptyBatch(plan) THEN AfterIteration(t) ELSE "move",
                ![t].snapshot = <<>>,
                ![t].batch = IF EmptyBatch(plan) THEN <<>> ELSE plan]
    /\ UNCHANGED <<init, counter, waiting, active, overlapped>>

ContextOf(t) == call[t].batch.context_chunking \o call[t].batch.context_last_chunk

Move(t) ==
    /\ call[t].pc = "move"
    /\ LET context == ContextOf(t)
           First == {i \in DOMAIN context : \A j \in 1 .. i - 1 : context[j] # context[i]}
           firsts == Keep([i \in DOMAIN context |-> i], First)
       IN  /\ waiting' = Keep(waiting, Objects \ Range(context))
           /\ active' = active \o Keep([i \in DOMAIN firsts |-> context[firsts[i]]],
                                       Objects \ Range(active))
    /\ Goto(t, "forward")
    /\ UNCHANGED <<init, counter, request, overlapped>>

Sampled(t) == call[t].batch.context_last_chunk \o call[t].batch.generation

(* Another thread has processed part of the chunk: there are fewer input    *)
(* ids than positions, and the row of the last token does not exist.        *)
Mismatch(t) ==
    \E o \in Range(ContextOf(t)) : request[o].processed + request[o].chunk > ContextLenOf(o)

Forward(t) ==
    /\ call[t].pc = "forward"
    /\ ~Mismatch(t)
    /\ call' = [call EXCEPT ![t].pc = "advance", ![t].todo = ContextOf(t)]
    /\ UNCHANGED <<init, queue_vars, overlapped>>

(* The exception ends the call, and the requests stay as they are.          *)
Raise(t) ==
    /\ call' = [call EXCEPT ![t] = [NoCall EXCEPT !.pc = "raised"]]
    /\ UNCHANGED <<init, queue_vars, overlapped>>

ForwardRaises(t) ==
    /\ call[t].pc = "forward"
    /\ Mismatch(t)
    /\ Raise(t)

-----------------------------------------------------------------------------
(* The chunks are counted and the states follow, first of context_chunking, *)
(* then of context_last_chunk.                                              *)

Current(t) == Head(call[t].todo)
InLastChunks(t) == Len(call[t].todo) <= Len(call[t].batch.context_last_chunk)

(* num_context_tokens_processed += chunk_size reads,                        *)
ReadProcessed(t) ==
    /\ call[t].pc = "advance"
    /\ call[t].todo # <<>>
    /\ call' = [call EXCEPT
          ![t].pc = "write_processed",
          ![t].seen = request[Current(t)].processed + request[Current(t)].chunk]
    /\ UNCHANGED <<init, queue_vars, overlapped>>

(* and writes.                                                              *)
WriteProcessed(t) ==
    /\ call[t].pc = "write_processed"
    /\ request' = [request EXCEPT ![Current(t)].processed = call[t].seen]
    /\ call' = [call EXCEPT ![t].pc = "check_state", ![t].seen = 0]
    /\ UNCHANGED <<init, counter, waiting, active, overlapped>>

CheckState(t) ==
    LET c == call[t]
        s == request[Current(t)].state
    IN
    /\ c.pc = "check_state"
    /\ call' = [call EXCEPT ![t] =
          IF s = "CONTEXT_INIT"
          THEN [c EXCEPT !.pc = "set_state", !.target = "CONTEXT_IN_PROGRESS"]
          ELSE IF s = "CONTEXT_IN_PROGRESS" /\ InLastChunks(t)
          THEN [c EXCEPT !.pc = "set_state", !.target = "GENERATION_IN_PROGRESS"]
          ELSE [c EXCEPT !.pc = "advance", !.todo = Tail(c.todo)]]
    /\ UNCHANGED <<init, queue_vars, overlapped>>

(* transition_to looks at the state of now, not at the one that was checked *)
transition_to(t) ==
    /\ call[t].target \in VALID_TRANSITIONS(request[Current(t)].state)
    /\ request' = [request EXCEPT ![Current(t)].state = call[t].target]

TransitionRaises(t) ==
    /\ call[t].pc \in {"set_state", "set_complete"}
    /\ call[t].target \notin VALID_TRANSITIONS(request[Current(t)].state)
    /\ Raise(t)

(* A state that has got as far as it should asks for nothing more.          *)
SetState(t) ==
    /\ call[t].pc = "set_state"
    /\ transition_to(t)
    /\ call' = [call EXCEPT ![t].pc = "check_state", ![t].target = "CONTEXT_INIT"]
    /\ UNCHANGED <<init, counter, waiting, active, overlapped>>

StartSampling(t) ==
    /\ call[t].pc = "advance"
    /\ call[t].todo = <<>>
    /\ call' = [call EXCEPT ![t].pc = "sample", ![t].todo = Sampled(t), ![t].batch = <<>>,
                            ![t].completed_ids = <<>>]
    /\ UNCHANGED <<init, queue_vars, overlapped>>

(* Sampler.update_requests.                                                 *)
append_output_token(t) ==
    /\ call[t].pc = "sample"
    /\ call[t].todo # <<>>
    /\ request' = [request EXCEPT ![Current(t)].out = @ + 1]
    /\ Goto(t, "check_remaining")
    /\ UNCHANGED <<init, counter, waiting, active, overlapped>>

(* The request is done with, and its id is one of the completed.            *)
NextSampled(c, ids) ==
    [c EXCEPT !.pc = "sample", !.todo = Tail(c.todo), !.target = "CONTEXT_INIT",
              !.completed_ids = c.completed_ids \o ids]

CheckRemaining(t) ==
    LET c == call[t]
        o == Current(t)
    IN
    /\ c.pc = "check_remaining"
    /\ call' = [call EXCEPT ![t] =
          IF request[o].out < MaxTokensOf(o)
          THEN NextSampled(c, <<>>)
          ELSE IF request[o].state = "GENERATION_COMPLETE"
          THEN NextSampled(c, <<request[o].id>>)
          ELSE [c EXCEPT !.pc = "set_complete", !.target = "GENERATION_COMPLETE"]]
    /\ UNCHANGED <<init, queue_vars, overlapped>>

SetComplete(t) ==
    /\ call[t].pc = "set_complete"
    /\ transition_to(t)
    /\ call' = [call EXCEPT ![t] = NextSampled(call[t], <<request[Current(t)].id>>)]
    /\ UNCHANGED <<init, counter, waiting, active, overlapped>>

EndSampling(t) ==
    /\ call[t].pc = "sample"
    /\ call[t].todo = <<>>
    /\ Goto(t, "complete")
    /\ UNCHANGED <<init, queue_vars, overlapped>>

-----------------------------------------------------------------------------
(* The output of the first active request with that id; every one with it   *)
(* leaves _active.                                                          *)
CompleteNext(t) ==
    /\ call[t].pc = "complete"
    /\ call[t].completed_ids # <<>>
    /\ LET id == Head(call[t].completed_ids)
           mine == Keep(active, {o \in Objects : request[o].id = id})
           kept == {c \in call[t].completed : c.id # id}
       IN  /\ active' = Keep(active, {o \in Objects : request[o].id # id})
           /\ call' = [call EXCEPT
                  ![t].completed_ids = Tail(@),
                  ![t].completed =
                      IF mine = <<>> THEN @
                      ELSE kept \cup {[id |-> id, of |-> Head(mine),
                                       tokens |-> request[Head(mine)].out]}]
    /\ UNCHANGED <<init, counter, waiting, request, overlapped>>

EndIteration(t) ==
    /\ call[t].pc = "complete"
    /\ call[t].completed_ids = <<>>
    /\ Goto(t, AfterIteration(t))
    /\ UNCHANGED <<init, queue_vars, overlapped>>

-----------------------------------------------------------------------------
EmptyOutput == [of |-> <<>>, tokens |-> 0]

ResultOf(t, id) ==
    IF \E c \in call[t].completed : c.id = id
    THEN LET c == CHOOSE c \in call[t].completed : c.id = id
         IN  [of |-> c.of, tokens |-> c.tokens]
    ELSE EmptyOutput

BuildResults(t) ==
    /\ \/ call[t].pc = "build"
       \/ call[t].pc = "loop" /\ call[t].iters = 0
    /\ call' = [call EXCEPT
          ![t] = [NoCall EXCEPT !.pc = "returned",
                                !.results = [i \in DOMAIN call[t].request_ids |->
                                                ResultOf(t, call[t].request_ids[i])]]]
    /\ UNCHANGED <<init, queue_vars, overlapped>>

GenerateStep(t) ==
    \/ AcquireInitLock(t)
    \/ Load(t)
    \/ LoadRaises(t)
    \/ ReadCounter(t)
    \/ WriteCounter(t)
    \/ enqueue_request(t)
    \/ StartLoop(t)
    \/ TakeSnapshot(t)
    \/ Move(t)
    \/ CompleteNext(t)
    \/ EndIteration(t)
    \/ BuildResults(t)
    \/ ForwardRaises(t)
    \/ Forward(t)
    \/ ReadProcessed(t)
    \/ WriteProcessed(t)
    \/ CheckState(t)
    \/ SetState(t)
    \/ TransitionRaises(t)
    \/ StartSampling(t)
    \/ append_output_token(t)
    \/ CheckRemaining(t)
    \/ SetComplete(t)
    \/ EndSampling(t)
    \/ Schedule(t)

-----------------------------------------------------------------------------
(* Properties.                                                             *)

(* One model and one executor, whatever the threads do and even when a load *)
(* raises, and nobody works without them (_lazy_init).                      *)
InitOnce ==
    /\ init.loads <= 1
    /\ init.done => init.loads = 1
    /\ \A t \in Threads :
          InCall(t) => init.done \/ call[t].pc \in {"init", "load"}

Exact(t) ==
    \A i \in DOMAIN Prompts[t] :
        call[t].results[i] =
            IF Prompts[t][i] = 0 THEN EmptyOutput
            ELSE [of |-> <<t, i>>, tokens |-> MaxNew[t]]

(* As long as calls have not overlapped, generate() returns the complete    *)
(* output of each of its prompts, in their order, within its cap on the     *)
(* iterations, though an empty prompt, which is never scheduled, may stay   *)
(* behind in the executor (llm.py:198-210).                                 *)
SequentialExact ==
    ~overlapped => \A t \in Threads : call[t].pc = "returned" => Exact(t)

(* generate() "blocks until all prompts complete" (llm.py:166): a call that  *)
(* returns has the whole output of every prompt of its own, at least when   *)
(* _next_id gave every request an id of its own.                            *)
ResultsComplete ==
    (\A o, q \in Objects : request[o].id = request[q].id => o = q \/ request[o].id = 0)
    => \A t \in Threads :
          call[t].pc = "returned" =>
              \A i \in DOMAIN Prompts[t] :
                  call[t].results[i].of = <<t, i>>
                      /\ call[t].results[i].tokens >= MaxNew[t]

(* Every call of generate() returns or raises, whatever the others do.      *)
CallsReturn == \A t \in Threads : InCall(t) ~> ~InCall(t)

=============================================================================
