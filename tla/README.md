# Verification of tiny-trtllm

TLA+ models of the inference engine of tiny-trtllm (`src/tinytrtllm`), checked with TLC, and
theorems about them proved with TLAPS. The repository is a small LLM server: an executor runs
iterations; each schedules a batch of requests in two tiers, allocates paged KV cache blocks,
runs the model, samples a token for each request and answers the clients. What can go wrong is
control, not numerics: who gets which blocks, in which order prompts are served, what happens
when a client cancels or an allocation fails in the middle, which thread gets which answer, which
row of a batch gets which token, and which rank holds which rows of a weight.

## Inventory

| Component (source) | State | Operations | Interacts with | Status |
|---|---|---|---|---|
| Block manager (`engine/block_manager.py`) | free deque, allocated set, hash map, reference counts | `allocate`, `free`, `allocate_with_prefix_cache`, `free_with_prefix_cache`, eviction | resource manager | modelled |
| Resource manager (`engine/resource_manager.py`) | none of its own (the `block_table` of each request) | `prepare_resources`, `update_resources`, `free_resources` | executor, block manager | modelled |
| Request (`engine/request.py`) | state machine, prompt progress, output tokens | `transition_to`, counters | everything in the engine | modelled |
| Scheduler (`engine/scheduler.py`) | none between calls, but `_scheduled_context_tokens` on requests | `schedule`: capacity tier, then micro-batch tier | executors | modelled |
| Sampler (`engine/sampler.py`) | none | `sample_async`, `update_requests` | executors, requests | partly: not which token is picked |
| PyExecutor (`engine/executor.py`) | `_waiting`, `_active`, `_cancelled`, lock | `enqueue_request`, `cancel_request`, `iteration` | all of the above, clients | modelled |
| ResponseManager (`engine/executor.py`) | a condition and a list per request, one lock | `register`, `notify`, `await_response`, `cleanup` | executor thread, client threads | modelled |
| OverlapExecutor (`engine/executor.py`) | the previous batch and its tokens | `overlap_iteration` | as PyExecutor | modelled |
| Model engine (`engine/model_engine.py`) | captured CUDA graphs | `forward`, `_prepare_inputs`, `_extract_sampling_logits` | executors, models | partly: no graphs |
| Batched executor, HF adapter (`engine/batched_executor.py`, `engine/hf_adapter.py`) | past key values, padding of each row | `generate_batch`, prefill and decode | Hugging Face models | modelled |
| LLM (`llm.py`) | lazily built executor, request counter | `_lazy_init`, `_next_id`, `generate` | executor; called by the server from a thread pool | modelled |
| HTTP server (`serve/server.py`) | one LLM | chat completions, streams | LLM | partly: not `/health`, `/v1/models` |
| Tensor parallelism (`distributed/tp.py`) | process group and module state of each rank | initialise, destroy, spawn, collectives | sharded layers | partly: not `broadcast`, `barrier`, shared memory |
| Sharded layers (`layers/linear.py`, `layers/embedding.py`) | weight shards | weight loaders, `forward` | tensor parallelism | modelled |
| Configuration | none | validation | all | partly: CONSTANTS and ASSUMEs |
| Attention backends, other layers, models | none of control | numeric | - | not modelled |

The hard behaviours: clients enqueue and cancel from other threads between any two statements of
an iteration outside its lock; locals of `iteration()` (`waiting`, `active_gen`, `scheduled`)
are used after the lock is gone, and two threads of the server may be inside `iteration()` at
once; the overlap executor applies tokens one call later than it sampled them; `allocate()` and
the forward pass may raise in the middle, leaving half of the work done; blocks are counted in
three places (admission, allocation, growth) that must agree; cached blocks are shared, reference
counted and evicted; a timeout of a wait races its notification; rows of different lengths share
one padded cache; ranks must make the same collective calls. There is no persistence and no
messaging, so there are no crashes to recover from and no lost messages. `PROJECT.json` lists each
hazard at its line with the properties against it.

What makes each component correct, in one line: the pool is split exactly, counts are exact and a
held block is never evicted (block manager); admission is sound and complete, chunks exact, the
order as promised (scheduler); no request is lost, doubled or revived, all are answered
(executors); each output is delivered once, in order, and wakes who waits (response manager);
each token comes from its own row and the model sees every token once, in order (model engine,
overlap executor); one load, every call answered with its own outputs (LLM); a batch gives what
its prompts give alone (batched executor); the shards together are the whole (tensor parallelism).

## Modules

| Module | Stands for | State and steps |
|---|---|---|
| `BlockManager` | `engine/block_manager.py` | One variable per attribute; `held` and `prompt` are the lists callers got and the tokens they gave, `leaked` counts (history) the references that raising prefix calls dropped with their list, `op` is the call that runs. A loop is one step per turn (a chunk, a popped block, an evicted block, a released block), because an exception may leave it between two turns. |
| `BlockPool` | what the manager promises | Holders lease blocks for a content; equal contents share one block, anything else is exclusive. No free list, hash, count or eviction. |
| `RequestStates` | `engine/request.py` | The states and `VALID_TRANSITIONS`. |
| `LlmRequest` | `engine/request.py` | State, prompt progress and output length of every request. |
| `TwoTierScheduler` | `engine/scheduler.py` | `ScheduleCall`, then a step per turn of each loop: `AdmitNext`, `StartMicrobatch`, `ChunkNext`, `EndMicrobatch`. The policy of both tiers is chosen at the start. |
| `SchedulePlan` | the same call as a function | Who is admitted and the chunk of each prompt, in closed form, for the modules whose interest is not inside the scheduler. |
| `ScheduleCalls` | one call of `schedule()` | The scheduler alone, from every list of arguments the executor can pass; `ReturnsPlan`, proved of it, says that the loops compute `SchedulePlan`, which is why other modules may use that function. |
| `PyExecutor` | `iteration()`, `enqueue_request`, `cancel_request`, and what they call in the resource manager and the sampler | Composes the scheduler (EXTENDS) and the block manager (INSTANCE `BM`, its `held` being the block tables). `pc` is the place in `iteration()`; each loop is one step per element. |
| `ResponseManager` | `ResponseManager` | Each method is a step under the lock; `await_response` is cut where `cond.wait` gives the lock up. `sent` and `taken` are history. |
| `ModelEngine` | `_prepare_inputs`, `_extract_sampling_logits`, `sample_async` | Operators on rows: a row is a request, the index of the token it carries, and its position; a logit is named by its row. |
| `OverlapExecutor` | `overlap_iteration` | Composes `SchedulePlan`, `LlmRequest` and `ModelEngine`. `update_requests`, `CompleteNext`, `Schedule`, `Move`, `Forward` are the phases; clients step in between; `ForwardRaises` leaves the call. |
| `GenerateService` | `LLM.generate`, `_lazy_init`, `_next_id` | Threads on one LLM. `call[t]` holds the place and the locals of each thread's call; `iteration()` is cut where threads can meet: at the queues, and at each read and write of a request's counts and state. |
| `ChatServer` | `serve/server.py` | EXTENDS `GenerateService`: handlers validate, run `generate` in the thread pool and answer once or with a stream of chunks. |
| `BatchedGeneration` | `generate_batch` beside the serial loop over `HFKVCacheAdapter` | Cache entries are tokens with positions; the model is any function from the entries a row attends to, chosen answer by answer. |
| `ShardedLayers` | `layers/linear.py`, `layers/embedding.py` | Operators: the checkpoint rows each loader copies, the part of `forward` a rank computes. |
| `TensorParallel` | `distributed/tp.py` and a decoder of sharded layers | A program counter per rank; `init_process_group` and `Collective` are the rendezvous of all ranks. |
| `Lists` | - | Two operators written as recursive functions, so that proofs can unfold them: `Keep` (a comprehension with a condition) and `SumOver` (a sum along a list). |
| `DataLemmas` | - | Facts on `Range` and injectivity of sequences, sums over sets of requests (blocks, tokens) as numbers of cells, induction by the least counterexample, and what `Keep` and `SumOver` return. |
| `BlockManagerRefinement` | - | The refinement mapping of `BlockManager` to `BlockPool`: the lease of a slot is its block, with the prefix it ends if it is a full chunk. |
| `*Proofs` | - | Theorems. |
| `MC*` | - | Small instances for TLC. |

### Abstractions

* Tokens count, their values do not (except in the prompts given to the prefix cache, where equal
  prefixes matter, and in `BatchedGeneration`, where EOS does). The chained hash of a chunk is the
  prefix it ends: hash collisions are left out, so two chunks have one hash exactly when their
  prefixes are equal.
* The lock of `PyExecutor` is held during `pc` "drop" and "move": no client step then. Everywhere
  else clients may step between any two steps of the iteration. One call of `cancel_request` or
  `enqueue_request` is one step, as both bodies are under the lock.
* One request object has one id and is enqueued once (`LLM.generate` makes a new one each time).
  Whether `_next_id` gives each its own id is part of `GenerateService`.
* An exception of `allocate()` leaves `iteration()`; the caller may call it again (`Resume`).
  No caller in the repository does so deliberately, but the server keeps the process and its
  executor after a failed call, so the state left behind is the state the next call starts in. The
  same is true of a forward pass that raises (`ForwardRaises` of both executors).
* Callers of `free` and `free_with_prefix_cache` give back the list, and the tokens, of the
  allocation, as the tests and the resource manager do. Double frees by a caller are not modelled.
* The scheduler's `paused` list is never filled and is left out.
* The executor of `LLM` has no resource manager: `GenerateService` has no blocks, while in
  `PyExecutor` `HasResourceManager` says which of the two is meant; its runs have one, as only then
  anything is allocated. `OverlapExecutor` never calls the resource manager's prepare step.
* In `GenerateService` reading the inputs of the forward pass is one step, and so are the schedule
  (its two tiers read the requests once, here at the same time) and a successful `transition_to`
  (its look at the table and its assignment). The advance of the chunks and `update_requests` are
  cut at every read and write of a request, so that two threads with one request in their batches
  may lose an update, advance or append twice, or meet a transition that raises.
  `request[o].chunk` is shared, as `_scheduled_context_tokens` is. An exception ends the call and
  leaves the requests in the queues.
* In `BatchedGeneration` positions follow the library: without `position_ids` new tokens are placed
  after all entries of the cache, the padding included.
* `TensorParallel` puts the layers together as their docstrings intend (embedding, attention, MLP,
  head), because no model of the repository does; attention and activation are constant operators
  `Attend` and `Activate`, arbitrary functions of their inputs, numbers are integers (no rounding),
  and `torch.distributed` is external. `Bias` is what rank 0 has in its `nn.Linear`: the weight
  loader of `RowParallelLinear` slices two dimensions and fills none. A later call of
  `init_distributed` has any arguments that do not join a second rendezvous: its arguments are set
  first, whether it then raises or returns (`misused` remembers the harmful ones).

## Runs

Each is a passing run unless it says violation.

| Run | Instance | Question |
|---|---|---|
| `block_manager` | 3 blocks of 2 tokens, 3 lists, 3 prompts that share a full chunk and end full or partial, `allocate(1)`, `allocate(2)` | Do pool, counts and cache stay consistent through hits, misses, evictions, failures half way and releases; does the manager implement `BlockPool`; does it give up only when lists hold too much; does every call return? |
| `schedule_calls` | 3 requests (prompts of 4, 3 and 0 tokens), all four policies, every order, progress and number of blocks in use; batch 2, 2 tokens, 5 blocks of 2 | Is admission sound (`NoOvercommit`, `RoomToCompletion`) and not needlessly strict (`NoIdleCapacity`); when is the token budget exceeded (`BudgetKept`)? |
| `executor` | 3 requests, one with a prompt of 3 tokens in chunks; GUARANTEED_NO_EVICT with FCFS and MAX_UTILIZATION with EQUAL_PROGRESS; batch 2, 2 tokens, 4 blocks of 2; two requests may be cancelled at any time, one forward pass may raise | Is no request lost, doubled or revived; are responses in order, prompts read before decoding, transitions legal; do tables cover what is generated; does a guaranteed allocation fail only after a cancellation; does only an exception strand a request, and is every request answered in full otherwise; do cancelled requests leave for good? |
| `responses` | 2 ids, 2 client threads, 2 outputs and 2 registrations for an id | Is each output taken once and in order; does nobody sleep with a response there; does who waits return? |
| `overlap` | 3 requests (prompts of 3, 1, 2), 2 sampling strategies, both chunking policies, both decode modes, one cancellation, one raising forward pass; batch 2, 3 tokens | Does each token come from the row of its own request and of the token before (`OwnNextToken`), does the model see each token once and in order (`FedInOrder`), is each request answered once and in the end? |
| `generate` | a library call with two empty prompts, which stay in the queue and whose thread iterates over the other's request; a streamed chat request whose prompt of 2 tokens goes token by token, as the empty prompts share the budget; one load that may raise; **no** slack in the iteration cap | Is the model loaded once, is the answer of calls that do not overlap exact within the cap, are streams whole, does every call return or raise? |
| `batched_generation` | 2 calls of up to 2 of 3 prompts of 1 or 2 tokens, 4 output tokens, every model over 2 tokens | Do unpadded rows get the serial tokens; does no row see padding, another row or an earlier call? |
| `tensor_parallel` | 1 or 2 ranks, vocabulary 4, 4 query heads on 2 key heads, 2 rounds, one later `init_distributed` of any arguments at any time | Unless a rank was told of another group: are the logits of every rank those of the unsharded decoder; does nobody wait forever? |
| `schedule_budget` (violation) | as `schedule_calls`, budget 1 | Does a batch of prompts ever exceed `max_num_tokens`? |
| `chunked_prefill_stalls` (violation) | 2 requests, 3 blocks | Does a prompt in chunks finish? |
| `guarantee_after_cancel` (violation) | 2 requests, 3 blocks, one may be cancelled | Is GUARANTEED_NO_EVICT a guarantee after a cancellation? |
| `generate_concurrent` (violation) | 2 threads, one prompt of 2 tokens each, slack 200 | Does a call of `generate` block until its own prompts complete? |

Why the bounds are enough. Three block lists are the least with which one list shares a block
with a second while a third competes for it; three blocks are fewer than the prompts need
together, so that eviction, exhaustion and failure half way through a call all occur (the run
fires every action). Three requests and a batch of two leave one outside a full batch; a budget
of two or three tokens splits a prompt of three or four over iterations; four blocks hold two
requests and not three. Two waiters and two responses are the least for a response to be taken
from under a woken thread. Two threads in `generate` already interleave at every pair of steps; a
prompt of two chunks lets one schedule what the other is working on. `MaxLeaks` = 2 lets prefix calls
leak a block twice; nothing but this bound reads `leaked`. A text of 11 characters in
`generate` is cut in pieces of two with a rest. Two rows are the least with and without padding,
and a second call is the least that can see a stale cache. Two ranks are the least that shard, two
key heads the least that make groups, and the weights of `MCTensorParallel` differ from row to row
and column to column, so that a row loaded to the wrong place changes the logits. Nothing in the
code distinguishes a fourth actor from a third, and the theorems hold for any number.

Deadlock is checked, except where a system may stop: the block manager's, response manager's and
LLM's callers may all be done, a scheduler call ends, `BatchedGeneration` and `TensorParallel` end
with their last call and round. `PyExecutor` and `OverlapExecutor` never stop.

### Fairness

* `PyExecutor`, `OverlapExecutor`: weak fairness of the iteration as a whole. A thread calls it in
  a loop and the interpreter lets it run; clients owe nothing.
* `BlockManager`: weak fairness of the step of the running call. A call that was made runs on.
* `ResponseManager`: weak fairness of `FinishWait` for each thread. A thread that was woken gets
  the lock again in the end. Notifications and timeouts owe nothing, so `WaitersServed` asks only
  that who waits for a response that is there returns, not that a response comes.
* `ChatServer`: weak fairness of the work of all threads together. Some thread that can run, runs:
  the iteration cap, not the scheduling of threads, makes calls return. New requests owe nothing.
* `TensorParallel`: weak fairness of each rank and of the rendezvous. The operating system runs
  each process, and `torch.distributed` completes a call that all ranks have made.

## Findings

Four statements of the docs, tests or docstrings that the code does not keep, each a violation run
and an entry under "findings":

1. `chunked_prefill_stalls`: a chunked prompt's own blocks count in `active_blocks` and are asked
   for again by the capacity tier; if twice its blocks exceed the pool it is never scheduled again.
   (`executor` has prompts small enough for that not to happen; there, all finish.)
2. `guarantee_after_cancel`: a cancelled active request keeps its blocks forever, uncounted.
3. `generate_concurrent`: `generate` counts every output of the shared executor and stops when it
   has as many as prompts: the outputs of another thread end it before its own are there.
4. `schedule_budget`: EQUAL_PROGRESS gives `max(1, budget // n)` tokens to each of n prompts, more
   than `max_num_tokens` together when there are more prompts than tokens left.
   `test_token_budget_respected` asserts the budget, with five prompts that share it evenly.
   `BudgetKept` says in which cases alone the code exceeds it.

### Also seen

Noticed while modelling, each described by the model as the code has it, without a run of its own:

* FCFS admits newcomers before prompts already in prefill, because waiting requests go to the
  scheduler first (`executor.py:152`, against `docs/source/features/scheduling.md:32`).
* MAX_UTILIZATION admits by context and never preempts: growth raises (`scheduler.py:124`, against
  `scheduling.md:24`). `executor` goes through these exceptions.
* `await_response` waits once, without a loop, and returns `None` before the timeout when another
  thread took the response (`executor.py:75`, against the docstring at line 65).
* When `allocate(1)` raises inside `allocate_with_prefix_cache` (`block_manager.py:153`, `161`), the
  list gathered so far, all full and cached chunks, is dropped and its references stay: no caller can
  release them, the counts never reach zero again and the blocks are never evicted, though later calls
  may share them. A few such calls can leave a pool in which `allocate` raises while callers hold nothing.
  `RefCountExact` and `FailsOnlyWhenFull` therefore count `leaked` beside the lists.
* An exception of `prepare_resources` or of the forward pass leaves the requests just moved to
  `_active` in CONTEXT_INIT with their blocks: no list the scheduler gets ever holds them again
  (`executor.py:150-152`). `OnlyErrorsStrand` says that nothing else does that, and
  `EveryRequestFinishes` promises nothing once a request is stranded.
* Two threads in `generate` may advance a request twice, append two tokens for one, or raise from
  `transition_to` (`executor.py:183-195`, `request.py:62`); all of it is reached by the runs `generate`
  and `generate_concurrent`, and `SequentialExact` speaks of calls that did not overlap.
* `register` of a known id replaces the condition (`executor.py:50`): a thread that waits on the old
  one is not woken by the next `notify` and returns by its timeout.
* A call of `init_distributed` on a running rank sets `_dist_info` before it fails (`tp.py:51`). With
  the same size and after the layers are built this is harmless, which `ForwardExact` and
  `WorkersFinish` check; with another rank before that, the layers load the shard of another rank,
  and with `world_size` 1 it does not even raise and the rank takes every collective for a no-op, in
  which the others then wait.
* `RowParallelLinear.weight_loader` slices two dimensions (`linear.py:94-98`), so it would raise on a
  bias; no loading path fills the bias.
* `hf_adapter.py:153-158` passes no position ids with a cache padded on the left, so the generated
  tokens of padded rows are placed later than in the serial loop. `BatchedEqualsSerial` therefore
  speaks of rows without padding only; `tests/test_batched_inference.py:155-187` wants it of all.
* `LLM` builds its `ModelEngine` without a KV cache and with `use_full_sequence_decode=False`, so a
  decode step sees the last token only (`model_engine.py:151`). `HFModelAdapter` puts all requests
  of a batch in one sequence.
* `OverlapExecutor` never fills block tables, so `active_blocks` is 0 and GUARANTEED_NO_EVICT is
  not enforced across iterations. After a raising forward pass the next call applies the previous
  batch once more, so its tokens are appended twice; this is why `FedInOrder` and
  `EveryRequestFinishes` except runs with a raise, and `DeliveredOnce` only counts. Cancelled requests that are active run on.
* An empty prompt is never scheduled and stays in `_waiting`; `generate` then runs to its cap. It is
  admitted in every later iteration, where it takes a place of the batch (`scheduler.py:110`) and a
  share of the budget. After `max_batch_size` empty prompts no later call gets a token (two of them
  with a batch of two end all progress; the run `generate` has two beside a batch of three):
  `FewEmptyPrompts` of the proof of `SequentialExact` is needed.
* The cap of `generate` counts chunks of `max_num_tokens` (`llm.py:199-202`), but EQUAL_PROGRESS gives
  each of n prompts `budget // n` tokens (`scheduler.py:175`), rounded down: with a budget of 3 two
  prompts move by 2 tokens together in an iteration, so two of 9 tokens take 9 iterations where the
  cap counts 8 and its slack. The slack of 200 hides this for prompts of moderate length, hence the
  hypothesis `CapSuffices`.
* Nothing in `src/` captures a CUDA graph, so the replay path of the model engine is dead.
* `TinyModel.load_weights` (`models/base.py:38-48`) skips names that are no parameter, so packed
  projections of a checkpoint are dropped; `packed_modules_mapping` and `weight_loader` are not
  used there, and the sharded layers are built by tests only.
* `out_features // tp_size` drops the remainder rows silently; `TensorParallelAssumption` asks that
  the sizes be divisible. `init_distributed` with a world of one never refuses a second call.

## Proofs

TLC checks the instances above; the theorems hold for every value of the constants under the
named assumptions of the modules.

### `BlockManagerProofs`

From `BlockManagerAssumption` (a natural number of blocks, a positive block size, finitely many
holders, prompts that are non-empty sequences of numbers, calls of `allocate` for at least one
block): `TypeOK`, `FreeListExact`, `NothingStranded`, `CacheExact`, `RefCountExact` and
`CachePinned` are invariants of `Spec`, with the prefix cache on or off, and so is
`FailsOnlyWhenFull`, which speaks of the cache on. Counts are the lists plus the references leaked by
raising prefix calls (`leaked`): the theorems show that nothing else separates count and lists.

None is inductive alone. The inductive invariant `IInv` adds three facts:

* `CallOK`: the running call works on a list in somebody's hands, and a prefix call has gathered
  exactly one block for each chunk it has seen;
* `Exclusive`: a block in a slot that stands for no full chunk is not cached and is in no other
  slot of any list;
* `ChunksHeld`: a list given to its caller has a block for every full chunk of its prompt, so that
  a block `allocate` adds to it later never lands where a cached chunk would be.

The argument. Eviction takes a block with count 0; `RefCountExact` then says that no list has it,
which keeps `NothingStranded` and `CachePinned`. A hit adds one to the count and one list to the
sharers; that it was not a sharer before needs `HeldOnce`: two slots of a list with one block are
both full chunks (`Exclusive`), have one hash (`CachePinned`, `CacheExact`), hence one position
(`HashInjective`). A release lowers the count by the list that leaves, again by `HeldOnce`. A
partial block is freed at once; `Exclusive` says nobody else has it. There is one lemma for each
action, and `Grown`, `PopFacts`, `HeldGrown` and `Shrunk` say what adding and removing a block do
to a list; the arithmetic of chunks is in `ChunkArithmetic`, `FullChunk` and `HashInjective`.

`FailsOnlyWhenFull` follows from `IInv`: with nothing to evict every cached block has a count
above zero, hence a holder, so that the allocated blocks are the held ones (`NothingToEvict`);
the free list, being exact, is as long as the rest of the pool (`FreeCount`, `BlockCount`).

The same module proves `Spec => PoolSpec`: the manager implements `BlockPool`. A pop (`allocate`, a partial chunk, a
miss) is a `Grant` of a block that is nobody's, and on a miss for a content nobody has, because
contents in use are in the hash map (`CachePinned`). A hit is a `Grant` of a block that all who
have the block or the content have for that content (`Exclusive`, `CachePinned`, `CacheExact`),
and the caller is not among them (`HashInjective`). `free` and each turn of
`free_with_prefix_cache` are a `Release`; that a turn releases one lease only needs `HeldOnce`.
All other steps, eviction among them, leave the leases alone.

### `ScheduleCallsProofs`

From `RequestAssumption` and `SchedulerAssumption`: `NoOvercommit`, `RoomToCompletion`,
`NoIdleCapacity`, `BudgetKept` and `ReturnsPlan` are invariants of one call of `schedule()`, for any
requests, budgets, block sizes and all four policies. The inductive invariant says of the capacity loop
which requests are admitted and which are still to come, that `blocks_used` is what was in use plus
what the admitted ones count for, and that each one passed over did not fit when its turn came; as
`blocks_used` only grows and the batch only fills, it does not fit at the end either.

`ReturnsPlan` needs `PlanInv`: after each turn, each loop has done for the elements it saw what
the closed form of `SchedulePlan` says of them. The closed form is a recursive function of the
index, the loop a step per element with running budgets and flags, so the indices match by
induction (`Recursion` of `DataLemmas`) and the running budget is the closed form's at the element
that comes next. `BudgetKept` (`BudgetExceededOnlySo`) follows from it: the chunks of the plan are added up
along the list, FCFS by what the budget has left, EQUAL_PROGRESS by n equal shares.

### `PyExecutorProofs`

From the assumptions of `LlmRequest`, `TwoTierScheduler` and `PyExecutor`, with any policies, any
requests that may be cancelled, with and without a resource manager: `TypeOK`, `InOneQueue`,
`PrefillBeforeDecode`, `TableCovers`, `ResponsesInOrder`, `BlocksOfActive` and `OnlyErrorsStrand` are
invariants and `TransitionsLegal` holds of every step. Each call to the pool is an action of
`BlockManager`, by the way `PyExecutor` is written.

These depend on each other, so one inductive invariant, `IInv`, carries them all:

* `QueuesOK`: `_waiting` and `_active` are disjoint, without duplicates, hold only requests that came
  and are not finished, and miss none but cancelled ones;
* `ProgressOK`: the state of a request says exactly how far its prompt and output are, and a waiting
  request has not begun;
* `PendingOK`: a complete request is on its way out (`completed_ids`, then the completion loop);
* `TablesOK`: past its first chunk a request's table reaches to its completion, so
  `update_resources` never allocates (`UpdateFacts`), and blocks are held by active or cancelled
  requests only;
* `ToldOK`: what was told so far, against the tokens there are;
* `PhaseOK`: what the locals of `iteration()` still mean, place by place, while clients step in
  between. The batch (`BatchOK`, `DecodingOK`) stays valid after the lock is gone because clients
  only append to and remove from `_waiting`, and cancelled requests leave `_active` only when an
  iteration begins.

There is one lemma for each part (`QueuesStep`, `ProgressStep`, ..., one for each place of
`PhaseOK`), on facts about what each action changes (`StepCases`, `QuietStepKeeps`, `AdvanceFacts`,
...).

`GuaranteedNeverRaises` proves what the policy is named for: if `max_blocks` is at most the pool, then
under GUARANTEED_NO_EVICT and as long as nobody has cancelled, `allocate()` never raises
(`GuaranteeKept`), also after forward passes that did. Three numbers must agree across the iteration: every block is free or in one
table (`Counted`), the blocks admission promised are still free when the batch is moved
(`Reserved`), and during `prepare_resources` the requests not served yet and the rest of the
running call need no more than is free (`PrepareRoom`). The run `guarantee_after_cancel` shows that the
exception is needed: a cancelled request keeps blocks that admission no longer counts.

### `OverlapExecutorProofs`

From the assumptions of the modules composed: `OwnNextToken`, `FedInOrder` and `DeliveredOnce` are
invariants of `Spec` (`TokensAreOwn`, `ReadInOrder`, `AnsweredOnce`), for any requests, both decode
modes, both chunking policies, with cancellations and raising forward passes. The inductive invariant
says of each request what the model has read, what was sampled for it and is not yet applied, and
what it was told, place by place in the call; of the previous batch, that it holds no request
twice and that the token kept for each is the one of its own row (`ModelEngine`'s row arithmetic is
proved for every batch, not for a bound).

The module also holds the theorems about `ResponseManager`, the other part of `engine/executor.py`.
From `ResponseAssumption`: `ResponseTypeOK`, `NoLostWakeup` and `ExactlyOnceInOrder` are invariants of
`ResponseSpec` for any ids, threads, interests and bounds. The inductive invariant `ResponseInv` says
element by element which outputs are taken and which are queued (`Delivered`) and that a thread that
waits knows for which id (`WaitersKnown`); `ExactlyOnceInOrder` follows by equality of sequences.

### `ChatServerProofs`

From the assumptions of `GenerateService` and `ChatServer`: `InitOnce` is an invariant for any
number of threads and requests, those of the server's pool included: at most one thread is in the
load, by the lock of `_lazy_init` and its second test. The inductive invariant says that whoever
loads has the lock, that a model is there exactly when `init.done`, and that nobody works without.

`StreamExact` too (`StreamsWhole`): the chunks a client got are, piece after piece, the text of its
own call up to the place the handler has reached. `ChatAssumption` says for it that only handlers
stream and that texts have natural lengths.

`SequentialExact` (`SequentialCallsAreExact`): while no two calls ever overlapped, every call that
returned has the complete output of each of its prompts, in their order. The theorem has three
hypotheses on the constants, and all hold in the run `generate`; it is proved for both policies of
both tiers:

* `FewEmptyPrompts`: fewer empty prompts than places in the batch (see "Also seen" for why);
* `BatchFits`: a full batch fits the blocks whoever is in it, so the capacity tier turns nobody down
  but for the batch size. `LLM` has 100000 blocks;
* `CapSuffices`: `max_iters` covers the prompts served one after the other, each in chunks of its
  `Share` of the budget. This is sufficient and not necessary: prompts are served together.

An iteration must not be wasted, so the inductive invariant `SeqInv` weighs work against the cap:

* `WorkLeft` of a prompt is its chunks to come plus its tokens to come, and `CapOK` says that the
  work of the call is at most the iterations left, at every place of the loop;
* `BatchMoves` says that each batch holds someone who decodes, finishes its prompt, or gets at least a
  `Share` of the budget, so that the forward pass lowers the work by one at least. It rests on the
  plan of the scheduler: if anyone is unfinished someone is admitted (`FewEmptyPrompts`,
  `BatchFits`), if nobody decodes the budget is whole, and no more requests than the call's own and
  the empty ones divide it (`Crowd`);
* `CountedOK`: what is complete and has left `_active` is exactly what `completed` holds, and nothing
  of the call is lost between the queues; `PhaseOK` says what the snapshot, the batch and the list of
  completed ids mean at each place;
* `QueuesOK` and `IdsOK`: what earlier calls left behind are empty prompts, and ids are distinct, so
  that counting outputs counts the call's own.

A call leaves the loop with all outputs, or with no iterations and hence no work left; a request
without work that is not empty is complete. The difference of two sums along the list of prompts is
the lemma `SumsShrink`, the number of chunks that a prompt loses `ChunksShrink`.

### `BatchedGenerationProofs`

From the module's assumptions, for any prompts, batches, calls and any model: `RowContext` and
`BatchedEqualsSerial` are invariants (`RowsReadThemselves`, `UnpaddedIsSerial`). The inductive
invariant is `CallOK`, `RowsOK`, `ReturnOK` and `SerialOK`:

* `RowIs`: the cache of a row is its padding, its prompt and the tokens it has generated, and each
  token is the model's answer to exactly the entries before it that are not padding (`Context`);
* `SerialIs`: the same of the serial loop, with no padding;
* the model only grows (`Extends`), so what it answered once it answers for ever, and a row stays
  explained by it; a returned row is cut at its first EOS, at the earliest where generation ended.

An unpadded row and the serial run of its prompt then have the same tokens, by induction on the index
of the token: equal tokens so far are equal contexts, and the model is a function of the context
(`RowEqualsSerial`). With padding the positions differ, which is the discrepancy under "Also seen".

### `TensorParallelProofs`

From `TensorParallelAssumption` (there is a largest world size, each divides the vocabulary, the heads
and the intermediate size, and the key heads divide the query heads) and `TensorAssumption` (integer
tensors of the right shapes): `ForwardExact` is an invariant (`RanksComputeReference`) if `Attend` and
`Activate` take integers to integers. That is a hypothesis of the theorem (`IntegerActivations`) and
not an assumption of the module, because TLC cannot evaluate a quantifier over all integers.
`ShardsPartition` says of any dimension that each
index is in the shard of exactly one rank, at one place.

The proof has a part on data and a part on steps. On data, from the token id alone, `ValueAt(s, id)` is
what the unsharded decoder has before stage `s`, and `PartAt(s, r, w, id)` what rank `r` of `w` computes
there up to the collective. The parts of all ranks, added or put side by side, are the value of the
next stage (`SumIs`, `ConcatenationIs`). It rests on sums over 0 .. n - 1, by induction: a sum of products
is the sum of its slices (`TotalOfParts`), one bias is counted once (`TotalWithOneBias`), a masked
row of the embedding counts nothing (`TotalOfOne`); and on the groups of query heads, which a rank
numbers from its own first head (`GroupsOfRank`).

On steps, the inductive invariant, which holds until `misused`, says of each rank:

* `InfoOK`: from `init_distributed` to `destroy_distributed` it knows the group it is in, and its
  layers were built from that; a later call of `init_distributed` leaves the size, and the rank
  until the layers are built, unless `misused`;
* `LoadOK`: while it loads, the merged parameters have the right row of each tensor loaded so far and
  nothing elsewhere, in whatever order; in `forward` they are complete;
* `ForwardOK`: before a stage it has the value of the unsharded decoder, in a collective its part.

No invariant relates the program counters of two ranks: a collective runs when all are in it at one
stage, and then each has its part. That they do meet is liveness (`WorkersFinish`), left to TLC.

### `DataLemmas`

The library's induction theorems take an operator as a parameter, which the installed backends
cannot instantiate. Induction is done here by the least counterexample instead: a set of natural
numbers that is not empty has a least element (`Smallest`, proved from the library's well-founded
induction on sets), so that a set that has 0 and, with each number, the next one has them all (`UpTo`);
`Recursion` says that a function that the equations of a recursive definition determine up to each n
exists. What `Keep`, `SumOver`, the plan of the scheduler and the token sequences are for every
input is proved with these.

### Only model-checked

* Liveness (`CallsReturn`, `EveryRequestFinishes`, `CancelledLeaves`, `WaitersServed`,
  `WorkersFinish`) and anything with ENABLED: out of the prover's reach.

## Not modelled

* Attention backends, normalisation, activation, rotary, MoE and the models: numeric, without
  control state (their loading loop is under "Also seen").
* Which token `_sample_impl` picks: numeric and random. Callbacks of requests: code of the caller.
* CUDA graph capture and replay: no caller. `/health`, `/v1/models` and the 503 of a server without
  an LLM: no state. Tokenizer and text: only lengths matter to the server's stream.
* `broadcast`, `barrier`, `SharedMemoryBuffer`: no caller in `src/tinytrtllm`.
* The scripts and the slide generator: benchmarks, demos and documentation around the library; the
  serial loop of `scripts/benchmark_batched.py` is in `BatchedGeneration`.

## Plan

Done, in the order of importance to the engine:

1. `BlockManager`, `BlockPool`: pool and prefix cache. Proved: all safety and the refinement.
2. `LlmRequest`, `TwoTierScheduler`, `ScheduleCalls`, `PyExecutor`: scheduling and the iteration.
3. `ResponseManager`: delivery to client threads. Proved: types, no lost wakeup,
   exactly once.
4. `SchedulePlan`, `ModelEngine`, `OverlapExecutor`: one batch late, with raising passes. Proved: all
   safety, and that the loops of the scheduler compute the plan.
5. `GenerateService`, `ChatServer`: threads of the server on one executor. Proved: one load, whole
   streams, exact answers of calls that do not overlap.
6. `BatchedGeneration`: ragged batches against the serial loop. Proved: all safety.
7. `ShardedLayers`, `TensorParallel`: ranks, collectives and shards. Proved: all safety.
8. Proofs: `BlockManagerProofs`, `PyExecutorProofs`, `ScheduleCallsProofs`, `OverlapExecutorProofs`,
   `ChatServerProofs`, `BatchedGenerationProofs`, `TensorParallelProofs`, on `DataLemmas`.

Left: nothing of safety. Every invariant and action property that a run checks is stated by a theorem,
`SequentialExact` under hypotheses on the sizes. Liveness stays with TLC.
