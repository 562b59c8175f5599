-------------------------- MODULE PyExecutorProofs --------------------------
(***************************************************************************)
(* Proofs about PyExecutor, for any requests, policies and bounds: its     *)
(* types, its queues, the progress of requests, their block tables and     *)
(* their responses, that GUARANTEED_NO_EVICT keeps its promise while       *)
(* nobody cancels, and that only exceptions strand a request.              *)
(***************************************************************************)
EXTENDS PyExecutor, DataLemmas

-----------------------------------------------------------------------------
(* Lists.                                                                  *)

LEMMA WithoutElements ==
    ASSUME NEW S, NEW s \in Seq(S), NEW r
    PROVE  /\ Without(s, r) \in Seq(S)
           /\ IsInjective(s) => /\ IsInjective(Without(s, r))
                                /\ Range(Without(s, r)) = Range(s) \ {r}
  <1>1. CASE r \notin Members(s)
    <2>1. Without(s, r) = s /\ r \notin Range(s)
      BY <1>1 DEF Without, Members, Range
    <2> QED BY <2>1
  <1>2. CASE r \in Members(s)
    <2> DEFINE i == CHOOSE i \in DOMAIN s : s[i] = r
    <2>1. i \in DOMAIN s /\ s[i] = r
      BY <1>2 DEF Members
    <2>2. DOMAIN s = 1 .. Len(s)
      BY LenProperties
    <2>3. Without(s, r) = Removed(s, i)
      BY <1>2 DEF Without, WithoutAt, Removed
    <2> HIDE DEF i
    <2>4. /\ Removed(s, i) \in Seq(S)
          /\ IsInjective(s) => /\ IsInjective(Removed(s, i))
                               /\ Range(Removed(s, i)) = Range(s) \ {s[i]}
      BY <2>1, <2>2, RemoveElements
    <2> QED BY <2>1, <2>3, <2>4
  <1> QED BY <1>1, <1>2

LEMMA BlocksNeeded ==
    ASSUME NEW n \in Nat
    PROVE  /\ _blocks_needed(n) \in Nat
           /\ n > 0 => _blocks_needed(n) \in Nat \ {0}
           /\ n <= _blocks_needed(n) * block_size
  <1>1. block_size \in Nat \ {0}
    BY SchedulerAssumption
  <1> DEFINE q == (n + block_size - 1) \div block_size
  <1>2. q \in Nat /\ n + block_size - 1 < (q + 1) * block_size
    BY <1>1
  <1>3. n > 0 => q # 0
    BY <1>1, <1>2
  <1> QED BY <1>1, <1>2, <1>3 DEF _blocks_needed

LEMMA BlocksForRequestType ==
    ASSUME NEW r \in Requests
    PROVE  BlocksForRequest(r) \in Nat
  BY BlocksNeeded, RequestAssumption DEF BlocksForRequest, AtLeast

(* The blocks in the table of each request.                                 *)
tables == [r \in Requests |-> Len(block_table[r])]

LEMMA TablesType ==
    ASSUME block_table \in [Requests -> Seq(BM!Blocks)]
    PROVE  \A r \in Requests : tables[r] \in Nat /\ tables[r] = Len(block_table[r])
  BY LenProperties DEF tables

(* active_blocks is their sum over _active, a number.                       *)
LEMMA ActiveBlocksType ==
    ASSUME TypeOK
    PROVE  active_blocks = CellCount(Range(active), tables) /\ active_blocks \in Nat
  <1>1. Range(active) \subseteq Requests
    BY ElementsOfSeq DEF TypeOK
  <1>2. IsFiniteSet(Range(active))
    <2>1. Range(active) \in SUBSET Requests
      BY <1>1
    <2> QED BY <2>1, RequestAssumption, FS_Subset
  <1>3. \A r \in Range(active) : tables[r] \in Nat /\ tables[r] = Len(block_table[r])
    BY <1>1, TablesType DEF TypeOK
  <1>4. CellCount(Range(active), tables) \in Nat
    BY <1>2, <1>3, CellsFinite
  <1>5. {{r} \X (1 .. Len(block_table[r])) : r \in Members(active)}
            = {{r} \X (1 .. tables[r]) : r \in Range(active)}
    BY <1>3 DEF Members, Range
  <1>6. active_blocks = CellCount(Range(active), tables)
    BY <1>5 DEF active_blocks, CellCount, Cells
  <1> QED BY <1>4, <1>6

-----------------------------------------------------------------------------
(* Types.  allocate() runs for a request and wants at least one block.      *)

AllocationRuns ==
    allocation = BM!Idle
        \/ /\ allocation.call = "allocate"
           /\ allocation.holder \in Requests
           /\ allocation.arg \in Nat \ {0}

Types == TypeOK /\ AllocationRuns

ListTypes ==
    /\ waiting \in Seq(Requests) /\ active \in Seq(Requests)
    /\ cancelled \in SUBSET Requests /\ arrived \in SUBSET Requests
    /\ errors \in [allocate : BOOLEAN, forward : Nat]
    /\ responses \in [Requests -> Seq([tokens : Nat, finished : BOOLEAN])]
    /\ pc \in {"idle", "drop", "collect", "schedule", "move", "prepare", "raised",
               "advance", "sample", "update", "complete"}
    /\ work \in Seq(Requests) /\ snapshot \in Seq(Requests)
    /\ active_ctx \in Seq(Requests) /\ active_gen \in Seq(Requests)
    /\ completed_ids \in Seq(Requests)

PoolTypes ==
    /\ free_block_ids \in Seq(BM!Blocks)
    /\ allocated \in SUBSET BM!Blocks
    /\ block_table \in [Requests -> Seq(BM!Blocks)]
    /\ allocation \in [call : {"idle", "allocate"}, holder : Requests \cup {NoRequest},
                       arg : Nat]
    /\ AllocationRuns

LEMMA TypesSplit ==
    Types <=> RequestTypeOK /\ SchedulerTypeOK /\ ListTypes /\ PoolTypes
  BY DEF Types, TypeOK, ListTypes, PoolTypes

LEMMA TypesSplitPrime ==
    Types' <=> RequestTypeOK' /\ SchedulerTypeOK' /\ ListTypes' /\ PoolTypes'
  BY DEF Types, TypeOK, ListTypes, PoolTypes

LEMMA RequestUnchanged == RequestTypeOK /\ UNCHANGED request_vars => RequestTypeOK'
  BY DEF RequestTypeOK, request_vars

LEMMA SchedulerUnchanged == SchedulerTypeOK /\ UNCHANGED scheduler_vars => SchedulerTypeOK'
  BY DEF SchedulerTypeOK, scheduler_vars

LEMMA PoolUnchanged == PoolTypes /\ UNCHANGED pool_vars => PoolTypes'
  BY DEF PoolTypes, AllocationRuns, pool_vars

LEMMA InitTypes == Init => Types
  <1> SUFFICES ASSUME Init PROVE Types
    OBVIOUS
  <1>1. RequestTypeOK /\ SchedulerTypeOK /\ ListTypes
    BY EmptySeq, RequestAssumption
       DEF Init, RequestInit, SchedulerInit, NothingScheduled, RequestTypeOK,
           SchedulerTypeOK, ListTypes, RequestState
  <1>2. free_block_ids \in Seq(BM!Blocks)
    <2>1. NumBlocks \in Nat
      BY ExecutorAssumption
    <2>2. free_block_ids \in [1 .. NumBlocks -> BM!Blocks]
      BY <2>1 DEF Init, BM!Init, BM!AllFree, BM!Blocks
    <2> QED BY <2>1, <2>2, IsASeq
  <1>3. PoolTypes
    BY <1>2, EmptySeq DEF Init, BM!Init, BM!Idle, PoolTypes, AllocationRuns
  <1> QED BY <1>1, <1>3, TypesSplit

(* The clients, and the steps of iteration() on the queues and its locals.  *)
LEMMA QueueStepTypes ==
    ASSUME Types,
           \/ \E r \in Requests : enqueue_request(r) \/ cancel_request(r)
           \/ BeginIteration \/ DropCancelled \/ TakeSnapshot \/ CollectNext
           \/ EndSchedule \/ MoveNext \/ EndMove \/ ForwardRaises \/ Resume \/ EndPrepare \/ EndSample
           \/ EndUpdate
    PROVE  Types'
  <1> USE TypesSplit
  <1>1. UNCHANGED <<request_vars, scheduler_vars, pool_vars>>
    BY DEF enqueue_request, cancel_request, BeginIteration, DropCancelled, TakeSnapshot,
           CollectNext, EndSchedule, MoveNext, EndMove, ForwardRaises, Resume, EndPrepare, EndSample,
           EndUpdate, others_of_drop, others_of_pool, others_of_raise
  <1>2. ListTypes'
    <2> USE DEF ListTypes
    <2>1. ASSUME NEW r \in Requests, enqueue_request(r) PROVE ListTypes'
      BY <2>1, EmptySeq, AppendProperties DEF enqueue_request, local_vars
    <2>2. ASSUME NEW r \in Requests, cancel_request(r) PROVE ListTypes'
      BY <2>2, WithoutElements DEF cancel_request, local_vars
    <2>3. CASE BeginIteration \/ Resume \/ EndPrepare \/ EndSample \/ EndUpdate \/ EndMove
               \/ EndSchedule
      <3>1. /\ scheduled.generation \in Seq(Requests)
            /\ scheduled.context_chunking \in Seq(Requests)
            /\ scheduled.context_last_chunk \in Seq(Requests)
        BY DEF SchedulerTypeOK
      <3>2. /\ scheduled.context_chunking \o scheduled.context_last_chunk \in Seq(Requests)
            /\ all_requests \in Seq(Requests)
        BY <3>1, ConcatProperties DEF all_requests
      <3>3. work' \in Seq(Requests)
        BY <2>3, <3>1, <3>2, EmptySeq
           DEF BeginIteration, Resume, EndPrepare, EndSample, EndUpdate, EndMove, EndSchedule
      <3> QED
        BY <2>3, <3>3
           DEF BeginIteration, Resume, EndPrepare, EndSample, EndUpdate, EndMove, EndSchedule,
               others_of_drop, others_of_pool, others_of_raise, queue_vars, client_vars, local_vars
    <2>4. CASE DropCancelled
      <3>1. PICK i \in DOMAIN active : active' = Removed(active, i)
        BY <2>4 DEF DropCancelled, WithoutAt, Removed
      <3>2. i \in 1 .. Len(active)
        BY <3>1, LenProperties
      <3>3. active' \in Seq(Requests)
        BY <3>1, <3>2, RemoveElements
      <3> QED BY <2>4, <3>3 DEF DropCancelled, others_of_drop, client_vars, local_vars
    <2>5. CASE TakeSnapshot
      BY <2>5, EmptySeq DEF TakeSnapshot, others_of_drop, client_vars
    <2>6. CASE CollectNext
      <3>1. Head(work) \in Requests /\ Tail(work) \in Seq(Requests)
        BY <2>6, HeadTailProperties DEF CollectNext
      <3> QED
        BY <2>6, <3>1, AppendProperties DEF CollectNext, queue_vars, client_vars
    <2>7. CASE MoveNext
      <3>1. Head(work) \in Requests /\ Tail(work) \in Seq(Requests)
        BY <2>7, HeadTailProperties DEF MoveNext
      <3>2. waiting' \in Seq(Requests) /\ active' \in Seq(Requests)
        BY <2>7, <3>1, WithoutElements, AppendProperties DEF MoveNext
      <3> QED BY <2>7, <3>1, <3>2 DEF MoveNext, client_vars, local_vars
    <2>8. CASE ForwardRaises
      <3>1. errors' \in [allocate : BOOLEAN, forward : Nat]
        <4>1. errors \in [allocate : BOOLEAN, forward : Nat]
          OBVIOUS
        <4>2. errors' = [errors EXCEPT !.forward = errors.forward + 1]
          BY <2>8 DEF ForwardRaises
        <4>3. errors.forward + 1 \in Nat
          BY <4>1
        <4> QED BY <4>1, <4>2, <4>3
      <3>2. /\ pc' = "raised"
            /\ UNCHANGED <<waiting, active, cancelled, arrived, responses, work, snapshot,
                           active_ctx, active_gen, completed_ids>>
        BY <2>8 DEF ForwardRaises, others_of_raise, queue_vars, local_vars
      <3> QED BY <3>1, <3>2
    <2> QED BY <2>1, <2>2, <2>3, <2>4, <2>5, <2>6, <2>7, <2>8
  <1> QED
    BY <1>1, <1>2, RequestUnchanged, SchedulerUnchanged, PoolUnchanged, TypesSplitPrime


(* The steps of the scheduler.                                              *)
LEMMA SchedulerStepTypes ==
    ASSUME Types, CallSchedule \/ RunScheduler
    PROVE  Types'
  <1> USE TypesSplit
  <1>1. UNCHANGED <<request_vars, pool_vars>> /\ ListTypes'
    BY DEF CallSchedule, RunScheduler, ListTypes, queue_vars, client_vars, local_vars
  <1>2. max_num_tokens \in Nat \ {0} /\ block_size \in Nat \ {0}
    BY SchedulerAssumption
  <1>3. \A r \in Requests : RemainingContext(r) \in Int
    BY RequestAssumption DEF RemainingContext, RequestTypeOK
  <1>4. SchedulerTypeOK'
    <2>1. CASE CallSchedule
      <3>1. active_blocks \in Nat
        BY ActiveBlocksType DEF Types
      <3>2. snapshot \o active_ctx \in Seq(Requests)
        BY ConcatProperties DEF ListTypes
      <3> QED
        BY <2>1, <3>1, <3>2, EmptySeq
           DEF CallSchedule, ScheduleCall, SchedulerTypeOK, ListTypes, NothingScheduled
    <2>2. CASE AdmitNext
      <3>1. Head(todo) \in Requests /\ Tail(todo) \in Seq(Requests)
        BY <2>2, HeadTailProperties DEF AdmitNext, SchedulerTypeOK
      <3>2. BlocksForRequest(Head(todo)) \in Nat
        BY <3>1, BlocksForRequestType
      <3>3. admitted \in Seq(Requests) /\ blocks_used \in Nat
        BY DEF SchedulerTypeOK
      <3>4. Append(admitted, Head(todo)) \in Seq(Requests)
        BY <3>1, <3>3, AppendProperties
      <3>5. admitted' \in Seq(Requests) /\ blocks_used' \in Nat /\ todo' \in Seq(Requests)
        <4>1. CASE Fits(Head(todo))
          <5>1. /\ admitted' = Append(admitted, Head(todo)) /\ todo' = Tail(todo)
                /\ blocks_used' = blocks_used + BlocksForRequest(Head(todo))
            BY <2>2, <4>1 DEF AdmitNext
          <5>2. blocks_used + BlocksForRequest(Head(todo)) \in Nat
            BY <3>2, <3>3
          <5> QED BY <3>1, <3>4, <5>1, <5>2
        <4>2. CASE ~Fits(Head(todo))
          BY <2>2, <3>1, <3>3, <4>2 DEF AdmitNext
        <4> QED BY <4>1, <4>2
      <3> QED BY <2>2, <3>5 DEF AdmitNext, SchedulerTypeOK
    <2>3. CASE StartMicrobatch
      <3>1. Len(scheduled.generation) \in Nat /\ Len(admitted) \in Nat
        BY LenProperties DEF SchedulerTypeOK
      <3>2. admitted # <<>> => Len(admitted) > 0
        BY <3>1, EmptySeq DEF SchedulerTypeOK
      <3>3. RemainingBudget \in Int
        BY <1>2, <3>1 DEF RemainingBudget
      <3>4. admitted # <<>> /\ RemainingBudget > 0 => PerRequest \in Nat
        BY <3>1, <3>2, <3>3 DEF PerRequest, AtLeast
      <3>5. budget' \in Nat
        BY <2>3, <3>3, <3>4 DEF StartMicrobatch, SchedulerTypeOK
      <3> QED BY <2>3, <3>5 DEF StartMicrobatch, SchedulerTypeOK
    <2>4. CASE ChunkNext
      <3> DEFINE r == Head(todo)
      <3>1. r \in Requests /\ Tail(todo) \in Seq(Requests)
        BY <2>4, HeadTailProperties DEF ChunkNext, SchedulerTypeOK
      <3>2. budget \in Nat /\ ChunkSize(r) \in Int /\ ChunkSize(r) <= budget
        BY <1>3, <3>1 DEF ChunkSize, SchedulerTypeOK
      <3> DEFINE size == ChunkSize(r)
      <3>3. size > 0 => size \in Nat /\ budget - size \in Nat
        BY <3>2
      <3>4. budget' \in Nat
        <4>1. budget' \in {budget, budget - size} /\ (budget' = budget \/ size > 0)
          BY <2>4, <3>2 DEF ChunkNext, Spend
        <4> HIDE DEF size
        <4> QED BY <3>2, <3>3, <4>1
      <3>5. _scheduled_context_tokens' \in [Requests -> Nat]
        <4>1. \/ _scheduled_context_tokens' = _scheduled_context_tokens
              \/ /\ size > 0
                 /\ _scheduled_context_tokens' =
                        [_scheduled_context_tokens EXCEPT ![r] = size]
          BY <2>4, <3>2 DEF ChunkNext
        <4> HIDE DEF size, r
        <4> QED BY <3>1, <3>3, <4>1 DEF SchedulerTypeOK
      <3>6. scheduled' \in [context_chunking : Seq(Requests),
                            context_last_chunk : Seq(Requests),
                            generation : Seq(Requests)]
        <4>1. \/ scheduled' = scheduled
              \/ scheduled' = [scheduled EXCEPT !.context_last_chunk = Append(@, r)]
              \/ scheduled' = [scheduled EXCEPT !.context_chunking = Append(@, r)]
          BY <2>4 DEF ChunkNext
        <4>2. /\ scheduled.context_last_chunk \in Seq(Requests)
              /\ scheduled.context_chunking \in Seq(Requests)
              /\ scheduled \in [context_chunking : Seq(Requests),
                               context_last_chunk : Seq(Requests),
                               generation : Seq(Requests)]
          BY DEF SchedulerTypeOK
        <4> HIDE DEF r
        <4>3. /\ Append(scheduled.context_last_chunk, r) \in Seq(Requests)
              /\ Append(scheduled.context_chunking, r) \in Seq(Requests)
          BY <3>1, <4>2, AppendProperties
        <4> QED BY <4>1, <4>2, <4>3
      <3> QED BY <2>4, <3>1, <3>4, <3>5, <3>6 DEF ChunkNext, SchedulerTypeOK
    <2>5. CASE EndMicrobatch
      BY <2>5 DEF EndMicrobatch, SchedulerTypeOK
    <2> QED BY <2>1, <2>2, <2>3, <2>4, <2>5 DEF RunScheduler, ScheduleStep
  <1> QED BY <1>1, <1>4, RequestUnchanged, PoolUnchanged, TypesSplitPrime

(* Allocation: the block manager takes blocks from the free list.           *)
LEMMA PoolStepTypes ==
    ASSUME Types, PrepareNext \/ UpdateNext \/ AllocateTurn \/ AllocateFails
    PROVE  Types'
  <1> USE TypesSplit
  <1>1. /\ UNCHANGED <<request_vars, scheduler_vars, queue_vars, cancelled, arrived, responses,
                       local_vars>>
        /\ errors' = errors \/ errors' = [errors EXCEPT !.allocate = TRUE]
    BY DEF PrepareNext, UpdateNext, AllocateTurn, AllocateFails, others_of_pool, others_of_raise,
           client_vars
  <1>2. ListTypes'
    <2>1. work' \in Seq(Requests)
      <3>1. work \in Seq(Requests)
        BY DEF ListTypes
      <3>2. work' = work \/ (work # <<>> /\ work' = Tail(work))
        BY DEF PrepareNext, UpdateNext, AllocateTurn, AllocateFails, others_of_raise
      <3> QED BY <3>1, <3>2, HeadTailProperties
    <2>2. pc' = pc \/ pc' = "raised"
      BY DEF PrepareNext, UpdateNext, AllocateTurn, AllocateFails
    <2> QED BY <1>1, <2>1, <2>2 DEF ListTypes, queue_vars, local_vars
  <1>3. PoolTypes'
    <2>1. ASSUME NEW r \in Requests, NEW n \in Nat \ {0}, BM!AllocateCall(r, n)
          PROVE  PoolTypes'
      BY <2>1 DEF BM!AllocateCall, BM!Call, PoolTypes, AllocationRuns
    <2>2. CASE PrepareNext
      <3>1. Head(work) \in Requests
        BY <2>2, HeadTailProperties DEF PrepareNext, ListTypes
      <3>2. get_needed_resource_to_completion(Head(work)) \in Nat \ {0}
        BY <3>1, BlocksNeeded, RequestAssumption DEF get_needed_resource_to_completion
      <3> QED BY <2>1, <2>2, <3>1, <3>2, PoolUnchanged DEF PrepareNext
    <2>3. CASE UpdateNext
      <3>1. Head(work) \in Requests
        BY <2>3, HeadTailProperties DEF UpdateNext, ListTypes
      <3>2. Uncovered(Head(work)) \in Int
        <4>1. Len(block_table[Head(work)]) \in Nat
          BY <3>1, LenProperties DEF PoolTypes
        <4>2. Len(block_table[Head(work)]) * block_size \in Nat
          BY <4>1, SchedulerAssumption
        <4>3. total_num_tokens(Head(work)) \in Nat
          BY <3>1, RequestAssumption DEF total_num_tokens, RequestTypeOK
        <4> QED BY <4>2, <4>3 DEF Uncovered
      <3>3. Uncovered(Head(work)) > 0 => _blocks_needed(Uncovered(Head(work))) \in Nat \ {0}
        BY <3>2, BlocksNeeded
      <3> QED BY <2>1, <2>3, <3>1, <3>3, PoolUnchanged DEF UpdateNext
    <2>4. CASE AllocateTurn
      <3>1. /\ allocation.call = "allocate" /\ allocation.holder \in Requests
            /\ allocation.arg \in Nat \ {0}
        BY <2>4 DEF AllocateTurn, BM!AllocatePop, PoolTypes, AllocationRuns, BM!Idle
      <3>2. free_block_ids # <<>>
        BY <2>4, <3>1, EmptySeq DEF AllocateTurn, BM!AllocatePop, BM!can_allocate
      <3>3. Head(free_block_ids) \in BM!Blocks /\ Tail(free_block_ids) \in Seq(BM!Blocks)
        BY <3>2, HeadTailProperties DEF PoolTypes
      <3>4. /\ free_block_ids' \in Seq(BM!Blocks)
            /\ allocated' \in SUBSET BM!Blocks
            /\ block_table' \in [Requests -> Seq(BM!Blocks)]
        BY <2>4, <3>1, <3>3, AppendProperties
           DEF AllocateTurn, BM!AllocatePop, BM!Pop, PoolTypes
      <3>5. /\ AllocationRuns'
            /\ allocation' \in [call : {"idle", "allocate"},
                                  holder : Requests \cup {NoRequest}, arg : Nat]
        <4>1. allocation \in [call : {"idle", "allocate"},
                             holder : Requests \cup {NoRequest}, arg : Nat]
          BY DEF PoolTypes
        <4>2. allocation' = BM!Idle
                  \/ /\ allocation.arg # 1
                     /\ allocation' = [allocation EXCEPT !.arg = allocation.arg - 1]
          BY <2>4 DEF AllocateTurn, BM!AllocatePop
        <4>3. CASE allocation' = BM!Idle
          BY <4>3 DEF BM!Idle, AllocationRuns
        <4>4. CASE allocation' # BM!Idle
          <5>1. allocation.arg - 1 \in Nat \ {0}
            BY <3>1, <4>2, <4>4
          <5>2. /\ allocation'.call = "allocate" /\ allocation'.holder = allocation.holder
                /\ allocation'.arg = allocation.arg - 1
                /\ allocation' \in [call : {"idle", "allocate"},
                                   holder : Requests \cup {NoRequest}, arg : Nat]
            BY <3>1, <4>1, <4>2, <4>4, <5>1
          <5> QED BY <3>1, <5>1, <5>2 DEF AllocationRuns
        <4> QED BY <4>3, <4>4
      <3> QED BY <3>4, <3>5 DEF PoolTypes
    <2>5. CASE AllocateFails
      BY <2>5 DEF AllocateFails, BM!AllocateRaise, BM!Idle, PoolTypes, AllocationRuns
    <2> QED BY <2>2, <2>3, <2>4, <2>5
  <1> QED BY <1>1, <1>2, <1>3, RequestUnchanged, SchedulerUnchanged, TypesSplitPrime

(* What follows the forward pass.                                           *)
LEMMA BatchStepTypes ==
    ASSUME Types, Advance \/ SampleNext \/ CompleteNext \/ Stream
    PROVE  Types'
  <1> USE TypesSplit
  <1>1. UNCHANGED scheduler_vars
    BY DEF Advance, SampleNext, CompleteNext, Stream
  <1>2. CASE Advance
    <2>1. UNCHANGED pool_vars
      BY <1>2 DEF Advance
    <2>2. RequestTypeOK'
      BY <1>2 DEF Advance, Advanced, RequestTypeOK, SchedulerTypeOK, RequestState
    <2>3. scheduled.context_last_chunk \o scheduled.generation \in Seq(Requests)
      BY ConcatProperties DEF SchedulerTypeOK
    <2>4. ListTypes'
      BY <1>2, <2>3, EmptySeq DEF Advance, ListTypes, queue_vars, client_vars
    <2> QED BY <1>1, <2>1, <2>2, <2>4, SchedulerUnchanged, PoolUnchanged, TypesSplitPrime
  <1>3. CASE SampleNext
    <2>1. Head(work) \in Requests /\ Tail(work) \in Seq(Requests) /\ UNCHANGED pool_vars
      BY <1>3, HeadTailProperties DEF SampleNext, ListTypes
    <2>2. RequestTypeOK'
      <3>1. num_output_tokens' \in [Requests -> Nat]
        BY <1>3, <2>1 DEF SampleNext, RequestTypeOK
      <3>2. state' \in [Requests -> RequestState]
        BY <1>3, <2>1 DEF SampleNext, RequestTypeOK, RequestState
      <3> QED BY <1>3, <3>1, <3>2 DEF SampleNext, RequestTypeOK
    <2>3. ListTypes'
      <3>1. Append(completed_ids, Head(work)) \in Seq(Requests)
        BY <2>1, AppendProperties DEF ListTypes
      <3>2. completed_ids' \in Seq(Requests) /\ work' \in Seq(Requests)
        BY <1>3, <2>1, <3>1 DEF SampleNext, ListTypes
      <3> QED BY <1>3, <3>2 DEF SampleNext, ListTypes, queue_vars, client_vars
    <2> QED BY <1>1, <2>1, <2>2, <2>3, SchedulerUnchanged, PoolUnchanged, TypesSplitPrime
  <1>4. CASE CompleteNext
    <2> DEFINE r == Head(work)
    <2>1. r \in Requests /\ Tail(work) \in Seq(Requests) /\ UNCHANGED request_vars
      BY <1>4, HeadTailProperties DEF CompleteNext, ListTypes
    <2>2. PoolTypes'
      <3>1. CASE BM!Free(r)
        <4>1. block_table[r] \in Seq(BM!Blocks)
          BY <2>1 DEF PoolTypes
        <4>2. free_block_ids' \in Seq(BM!Blocks)
          BY <3>1, <4>1, ConcatProperties DEF BM!Free, PoolTypes
        <4> QED
          BY <2>1, <3>1, <4>2, EmptySeq DEF BM!Free, PoolTypes, AllocationRuns
      <3>2. BM!Free(r) \/ UNCHANGED pool_vars
        BY <1>4 DEF CompleteNext, free_resources
      <3> QED BY <3>1, <3>2, PoolUnchanged
    <2>3. Output(r, TRUE) \in [tokens : Nat, finished : BOOLEAN]
      <3>1. num_output_tokens[r] \in Nat
        BY <2>1 DEF RequestTypeOK
      <3> QED BY <3>1 DEF Output
    <2>4. responses' \in [Requests -> Seq([tokens : Nat, finished : BOOLEAN])]
      <3>1. responses' = responses
                \/ responses' = [responses EXCEPT ![r] = Append(@, Output(r, TRUE))]
        BY <1>4 DEF CompleteNext, notify
      <3>2. responses \in [Requests -> Seq([tokens : Nat, finished : BOOLEAN])]
        BY DEF ListTypes
      <3>3. Append(responses[r], Output(r, TRUE)) \in Seq([tokens : Nat, finished : BOOLEAN])
        BY <2>1, <2>3, <3>2, AppendProperties
      <3> QED BY <2>1, <3>1, <3>2, <3>3
    <2>5. active' \in Seq(Requests)
      <3>1. active \in Seq(Requests)
        BY DEF ListTypes
      <3>2. Without(active, r) \in Seq(Requests)
        BY <3>1, WithoutElements
      <3>3. active' = active \/ active' = Without(active, r)
        BY <1>4 DEF CompleteNext
      <3> QED BY <3>1, <3>2, <3>3
    <2>6. ListTypes'
      BY <1>4, <2>1, <2>4, <2>5 DEF CompleteNext, ListTypes, client_vars, local_vars
    <2> QED BY <1>1, <2>1, <2>2, <2>6, SchedulerUnchanged, RequestUnchanged, TypesSplitPrime
  <1>5. CASE Stream
    <2>1. UNCHANGED <<request_vars, pool_vars>>
      BY <1>5 DEF Stream
    <2>2. \A r \in Requests : Output(r, FALSE) \in [tokens : Nat, finished : BOOLEAN]
      BY DEF Output, RequestTypeOK
    <2>3. responses' \in [Requests -> Seq([tokens : Nat, finished : BOOLEAN])]
      BY <1>5, <2>2, AppendProperties DEF Stream, ListTypes
    <2>4. ListTypes'
      BY <1>5, <2>3 DEF Stream, ListTypes, queue_vars, client_vars, local_vars
    <2> QED
      BY <1>1, <2>1, <2>4, SchedulerUnchanged, RequestUnchanged, PoolUnchanged,
         TypesSplitPrime
  <1> QED BY <1>2, <1>3, <1>4, <1>5

LEMMA StutterTypes == Types /\ UNCHANGED vars => Types'
  <1> SUFFICES ASSUME Types, UNCHANGED vars PROVE Types'
    OBVIOUS
  <1>1. ListTypes'
    BY TypesSplit DEF vars, ListTypes, queue_vars, client_vars, local_vars
  <1> QED
    BY <1>1, TypesSplit, TypesSplitPrime, RequestUnchanged, SchedulerUnchanged, PoolUnchanged
       DEF vars

LEMMA StepTypes == Types /\ [Next]_vars => Types'
  BY QueueStepTypes, SchedulerStepTypes, PoolStepTypes, BatchStepTypes, StutterTypes
     DEF Next, Iteration

(* The executor keeps its types: lists hold requests, tables hold blocks of *)
(* the pool, and what is counted never falls below zero.                    *)
THEOREM TypeCorrect == Spec => []TypeOK
  <1>1. Types => TypeOK
    BY DEF Types
  <1> QED BY <1>1, InitTypes, StepTypes, PTL DEF Spec

-----------------------------------------------------------------------------
(* The inductive invariant of iteration().                                 *)

(* The requests that came and are not finished.                             *)
Live == {r \in arrived : ~Finished(r)}

(* What the scheduler may be given: a prompt not begun, or one in prefill.  *)
Candidates ==
    {r \in Live : \/ state[r] = "CONTEXT_INIT"
                  \/ state[r] = "CONTEXT_IN_PROGRESS" /\ r \in Range(active)}

Chunking == Range(scheduled.context_chunking)
LastChunk == Range(scheduled.context_last_chunk)
Decoding == Range(scheduled.generation)

(* The queues hold each live request at most once, and miss none but those  *)
(* that were cancelled.                                                     *)
QueuesOK ==
    /\ IsInjective(waiting) /\ IsInjective(active)
    /\ Range(waiting) \cap Range(active) = {}
    /\ Range(waiting) \cup Range(active) \subseteq Live
    /\ Live \subseteq cancelled \cup Range(waiting) \cup Range(active)

(* How far a request in each state is.                                      *)
ProgressOf(r) ==
    LET processed == num_context_tokens_processed[r]
        out       == num_output_tokens[r]
    IN  /\ state[r] = "CONTEXT_INIT" => processed = 0 /\ out = 0
        /\ state[r] = "CONTEXT_IN_PROGRESS" =>
               0 < processed /\ processed < ContextLen[r] /\ out = 0
        /\ state[r] = "GENERATION_IN_PROGRESS" =>
               processed = ContextLen[r] /\ out < MaxTokens[r]
        /\ state[r] = "GENERATION_COMPLETE" =>
               processed = ContextLen[r] /\ out = MaxTokens[r]

ProgressOK ==
    /\ \A r \in Requests : ProgressOf(r)
    /\ \A r \in Requests : r \notin arrived => state[r] = "CONTEXT_INIT"
    /\ \A r \in Range(waiting) : state[r] = "CONTEXT_INIT"

(* A complete request is about to leave.                                    *)
PendingOK ==
    \A r \in Range(active) :
        state[r] = "GENERATION_COMPLETE" =>
            \/ pc \in {"sample", "update"} /\ r \in Range(completed_ids)
            \/ pc = "complete" /\ r \in Range(work)

(* Tables reach to completion from the first chunk on.                      *)
Covered(r) == ContextLen[r] + MaxTokens[r] <= Len(block_table[r]) * block_size

TablesOK ==
    /\ HasResourceManager =>
           \A r \in Range(active) : state[r] # "CONTEXT_INIT" => Covered(r)
    /\ \A r \in Requests :
           block_table[r] # <<>> => r \in Range(active) \/ r \in cancelled
    /\ allocation # BM!Idle => /\ pc = "prepare" /\ HasResourceManager
                                /\ allocation.holder \in Range(active)
    /\ ~HasResourceManager => \A r \in Requests : block_table[r] = <<>>

(* What was told of a request.                                              *)
ToldOf(r) ==
    \A i \in DOMAIN responses[r] :
        /\ \A j \in 1 .. i - 1 : responses[r][j].tokens < responses[r][i].tokens
        /\ responses[r][i].finished <=> responses[r][i].tokens = MaxTokens[r]
        /\ responses[r][i].finished => i = Len(responses[r])
        /\ responses[r][i].tokens <= num_output_tokens[r]

ToldOK == \A r \in Requests : ToldOf(r)

NewsOf(r) == \A i \in DOMAIN responses[r] : responses[r][i].tokens < num_output_tokens[r]

(* The batch between the scheduler and the forward pass.                    *)
BatchOK ==
    /\ IsInjective(scheduled.context_last_chunk)
    /\ Chunking \cap LastChunk = {}
    /\ Chunking \cup LastChunk \subseteq Candidates
    /\ \A r \in Chunking : 0 < _scheduled_context_tokens[r]
                             /\ _scheduled_context_tokens[r] < RemainingContext(r)
    /\ \A r \in LastChunk : 0 < RemainingContext(r)
                             /\ _scheduled_context_tokens[r] = RemainingContext(r)

DecodingOK ==
    /\ IsInjective(scheduled.generation)
    /\ Decoding \subseteq Range(active)
    /\ \A r \in Decoding : state[r] = "GENERATION_IN_PROGRESS"

(* The locals at each place of iteration().                                 *)
Collecting ==
    pc = "collect" =>
        /\ IsInjective(snapshot) /\ IsInjective(work)
        /\ IsInjective(active_ctx) /\ IsInjective(active_gen)
        /\ Range(snapshot) \subseteq Live
        /\ Range(snapshot) \cap Range(active) = {}
        /\ Range(work) \cup Range(active_ctx) \cup Range(active_gen) \subseteq Range(active)
        /\ Range(work) \cap (Range(active_ctx) \cup Range(active_gen)) = {}
        /\ \A r \in Range(snapshot) : state[r] = "CONTEXT_INIT"
        /\ \A r \in Range(active_ctx) : state[r] = "CONTEXT_IN_PROGRESS"
        /\ \A r \in Range(active_gen) : state[r] = "GENERATION_IN_PROGRESS"

Scheduling ==
    pc = "schedule" =>
        /\ DecodingOK /\ BatchOK
        /\ tier \in {"capacity", "microbatch", "done"}
        /\ tier = "capacity" =>
               /\ IsInjective(admitted) /\ Range(admitted) \subseteq Candidates
               /\ Range(admitted) \cap Range(todo) = {}
               /\ Chunking = {} /\ LastChunk = {}
        /\ tier \in {"capacity", "microbatch"} =>
               /\ IsInjective(todo) /\ Range(todo) \subseteq Candidates
               /\ Range(todo) \cap (Chunking \cup LastChunk) = {}

Moving ==
    pc = "move" =>
        /\ DecodingOK /\ BatchOK
        /\ Range(work) \subseteq Chunking \cup LastChunk
        /\ (Chunking \cup LastChunk) \ Range(work) \subseteq Range(active)

InPreparation(r) ==
    \/ r \in Range(work)
    \/ Covered(r)
    \/ /\ allocation # BM!Idle
       /\ allocation.holder = r
       /\ get_needed_resource_to_completion(r) <= Len(block_table[r]) + allocation.arg

Preparing ==
    pc \in {"prepare", "advance"} =>
        /\ DecodingOK /\ BatchOK
        /\ Chunking \cup LastChunk \subseteq Range(active)
        /\ pc = "prepare" => Range(work) \subseteq Range(active)
        /\ pc = "prepare" /\ work # <<>> => HasResourceManager
        /\ pc = "prepare" /\ HasResourceManager =>
               \A r \in Chunking \cup LastChunk : InPreparation(r)
        /\ pc = "advance" /\ HasResourceManager =>
               \A r \in Chunking \cup LastChunk : Covered(r)

Sampling ==
    pc = "sample" =>
        /\ IsInjective(work)
        /\ Range(work) \subseteq LastChunk \cup Decoding
        /\ LastChunk \cup Decoding \subseteq Range(active)
        /\ \A r \in Range(work) : state[r] = "GENERATION_IN_PROGRESS"
        /\ \A r \in Decoding \ Range(work) : NewsOf(r)

Applied ==
    pc \in {"sample", "update", "complete"} =>
        /\ \A r \in Decoding : state[r] = "GENERATION_IN_PROGRESS" \/ r \in Range(completed_ids)
        /\ \A r \in Range(completed_ids) : state[r] = "GENERATION_COMPLETE"
        /\ Decoding \ Range(completed_ids) \subseteq Range(active)
        /\ pc = "update" => Range(work) \subseteq Decoding /\ Decoding \subseteq Range(active)
        /\ pc = "update" /\ work # <<>> => HasResourceManager
        /\ pc = "complete" => Range(work) \subseteq Range(completed_ids)
        /\ pc # "sample" => \A r \in Decoding \ Range(completed_ids) : NewsOf(r)

PhaseOK ==
    Collecting /\ Scheduling /\ Moving /\ Preparing /\ Sampling /\ Applied

IInv == /\ Types
        /\ QueuesOK /\ ProgressOK /\ PendingOK /\ TablesOK /\ ToldOK
        /\ PhaseOK

-----------------------------------------------------------------------------
(* Who is live, and what a step does to the batch's view of it.             *)

LEMMA MembersAreRange == \A s : Members(s) = Range(s)
  BY DEF Members, Range

Ended(s) == \E i \in DOMAIN s : s[i].finished

LEMMA LiveIs == /\ Live = {r \in arrived : ~Ended(responses[r])}
                /\ Live' = {r \in arrived' : ~Ended(responses'[r])}
  BY DEF Live, Finished, Ended

LEMMA AppendFinished ==
    ASSUME NEW S, NEW s \in Seq(S), NEW o \in S
    PROVE  Ended(Append(s, o)) <=> Ended(s) \/ o.finished
  <1> DEFINE t == Append(s, o)
  <1>1. /\ DOMAIN s = 1 .. Len(s) /\ Len(s) \in Nat /\ DOMAIN t = 1 .. Len(s) + 1
        /\ t[Len(s) + 1] = o /\ \A i \in 1 .. Len(s) : t[i] = s[i]
    BY AppendProperties, LenProperties
  <1> HIDE DEF t
  <1>2. DOMAIN t = DOMAIN s \cup {Len(s) + 1}
    BY <1>1
  <1>3. (\E i \in DOMAIN t : t[i].finished) <=> (\E i \in DOMAIN s : s[i].finished) \/ o.finished
    BY <1>1, <1>2
  <1> QED BY <1>3 DEF t, Ended

LEMMA LiveSame == UNCHANGED <<arrived, responses>> => Live' = Live
  BY LiveIs

LEMMA LiveEnqueue ==
    ASSUME Types, NEW r \in Requests, enqueue_request(r)
    PROVE  Live' = Live \cup {r} /\ r \notin Live
  <1>1. responses'[r] = <<>> /\ \A q \in Requests \ {r} : responses'[q] = responses[q]
    BY DEF enqueue_request, Types, TypeOK
  <1>2. ~Ended(<<>>)
    BY DEF Ended
  <1>3. arrived' = arrived \cup {r} /\ r \notin arrived /\ arrived \subseteq Requests
    BY DEF enqueue_request, Types, TypeOK
  <1> QED BY <1>1, <1>2, <1>3, LiveIs

LEMMA LiveStream ==
    ASSUME Types, Stream
    PROVE  Live' = Live
  <1>1. ASSUME NEW r \in Requests PROVE Ended(responses'[r]) <=> Ended(responses[r])
    <2>1. responses'[r] = responses[r] \/ responses'[r] = Append(responses[r], Output(r, FALSE))
      BY DEF Stream
    <2>2. responses[r] \in Seq([tokens : Nat, finished : BOOLEAN])
      BY DEF Types, TypeOK
    <2>3. /\ Output(r, FALSE) \in [tokens : Nat, finished : BOOLEAN]
          /\ ~Output(r, FALSE).finished
      BY DEF Output, Types, TypeOK, RequestTypeOK
    <2>4. Ended(Append(responses[r], Output(r, FALSE)))
              <=> Ended(responses[r]) \/ Output(r, FALSE).finished
      BY <2>2, <2>3, AppendFinished, Zenon
    <2> QED BY <2>1, <2>3, <2>4, Zenon
  <1>2. arrived' = arrived /\ arrived \subseteq Requests
    BY DEF Stream, client_vars, Types, TypeOK
  <1> QED BY <1>1, <1>2, LiveIs

LEMMA LiveComplete ==
    ASSUME Types, CompleteNext
    PROVE  /\ Head(work) \in Requests /\ Head(work) \in Range(work)
           /\ Tail(work) \in Seq(Requests)
           /\ Range(work) = Range(Tail(work)) \cup {Head(work)}
           /\ Head(work) \in Range(active) =>
                  /\ Live' = Live \ {Head(work)}
                  /\ responses' = [responses EXCEPT ![Head(work)] =
                                       Append(@, Output(Head(work), TRUE))]
                  /\ active' = Without(active, Head(work))
           /\ Head(work) \notin Range(active) =>
                  UNCHANGED <<responses, pool_vars, active>> /\ Live' = Live
  <1> DEFINE r == Head(work)
  <1>1. /\ r \in Requests /\ r \in Range(work) /\ Range(work) = Range(Tail(work)) \cup {r}
        /\ Tail(work) \in Seq(Requests)
    BY TailElements, HeadTailProperties DEF CompleteNext, Types, TypeOK
  <1>2. arrived' = arrived /\ arrived \subseteq Requests
    BY DEF CompleteNext, client_vars, Types, TypeOK
  <1>3. CASE r \notin Range(active)
    <2>1. UNCHANGED <<responses, pool_vars, active>>
      BY <1>3, MembersAreRange DEF CompleteNext
    <2> QED BY <1>1, <1>2, <1>3, <2>1, LiveSame
  <1>4. CASE r \in Range(active)
    <2>1. /\ responses' = [responses EXCEPT ![r] = Append(@, Output(r, TRUE))]
          /\ active' = Without(active, r)
      BY <1>4, MembersAreRange DEF CompleteNext, notify
    <2>2. responses \in [Requests -> Seq([tokens : Nat, finished : BOOLEAN])]
      BY DEF Types, TypeOK
    <2>3. Output(r, TRUE) \in [tokens : Nat, finished : BOOLEAN] /\ Output(r, TRUE).finished
      <3>1. num_output_tokens[r] \in Nat
        BY <1>1 DEF Types, TypeOK, RequestTypeOK
      <3> QED BY <3>1 DEF Output
    <2> HIDE DEF r
    <2>4. responses'[r] = Append(responses[r], Output(r, TRUE))
          /\ \A q \in Requests \ {r} : responses'[q] = responses[q]
      BY <1>1, <2>1, <2>2
    <2>5. Ended(responses'[r])
      <3>1. responses[r] \in Seq([tokens : Nat, finished : BOOLEAN])
        BY <1>1, <2>2
      <3>2. Ended(Append(responses[r], Output(r, TRUE)))
                <=> Ended(responses[r]) \/ Output(r, TRUE).finished
        BY <2>3, <3>1, AppendFinished, Zenon
      <3> QED BY <2>3, <2>4, <3>2, Zenon
    <2>6. Live' = Live \ {r}
      BY <1>2, <2>4, <2>5, LiveIs
    <2> QED BY <1>1, <1>4, <2>1, <2>6 DEF r
  <1> QED BY <1>3, <1>4

-----------------------------------------------------------------------------
(* The queues.                                                              *)

(* The steps that leave the queues and what was told alone.                 *)
QuietStep ==
    \/ BeginIteration \/ TakeSnapshot \/ CollectNext \/ CallSchedule \/ RunScheduler
    \/ EndSchedule \/ EndMove \/ PrepareNext \/ AllocateTurn \/ AllocateFails \/ Resume
    \/ EndPrepare \/ ForwardRaises \/ Advance \/ SampleNext \/ EndSample \/ UpdateNext \/ EndUpdate
    \/ UNCHANGED vars

LEMMA QuietStepKeeps == QuietStep => UNCHANGED <<queue_vars, cancelled, arrived, responses>>
  BY DEF QuietStep, BeginIteration, TakeSnapshot, CollectNext, CallSchedule, RunScheduler,
         EndSchedule, EndMove, PrepareNext, AllocateTurn, AllocateFails, Resume, EndPrepare,
         ForwardRaises, Advance, SampleNext, EndSample, UpdateNext, EndUpdate, vars,
         others_of_drop, others_of_pool, others_of_raise, queue_vars, client_vars

LEMMA StepCases ==
    [Next]_vars => \/ \E r \in Requests : enqueue_request(r)
                   \/ \E r \in Requests : cancel_request(r)
                   \/ DropCancelled \/ MoveNext \/ CompleteNext \/ Stream \/ QuietStep
  BY DEF Next, Iteration, QuietStep

LEMMA QuietLive ==
    ASSUME QuietStep
    PROVE  /\ UNCHANGED <<waiting, active, cancelled, arrived, responses>>
           /\ Live' = Live
  BY QuietStepKeeps, LiveSame DEF queue_vars

(* A scheduled request that moves.                                          *)
LEMMA MoveFacts ==
    ASSUME IInv, MoveNext
    PROVE  /\ Head(work) \in Chunking \cup LastChunk
           /\ Chunking \cup LastChunk \subseteq Live
           /\ Head(work) \in Requests /\ Tail(work) \in Seq(Requests)
           /\ Range(work) = Range(Tail(work)) \cup {Head(work)}
           /\ IsInjective(waiting') /\ Range(waiting') = Range(waiting) \ {Head(work)}
           /\ IsInjective(active') /\ Range(active') = Range(active) \cup {Head(work)}
           /\ UNCHANGED <<request_vars, scheduler_vars, client_vars, responses, pc,
                          local_vars, pool_vars>>
           /\ Live' = Live
  <1> DEFINE r == Head(work)
  <1>1. pc = "move" /\ work # <<>> /\ work \in Seq(Requests)
    BY DEF MoveNext, IInv, Types, TypeOK
  <1>2. /\ r \in Requests /\ r \in Range(work) /\ Range(work) = Range(Tail(work)) \cup {r}
        /\ Tail(work) \in Seq(Requests)
    BY <1>1, TailElements, HeadTailProperties
  <1>3. /\ Range(work) \subseteq Chunking \cup LastChunk
        /\ Chunking \cup LastChunk \subseteq Candidates
    BY <1>1 DEF IInv, PhaseOK, Moving, BatchOK
  <1>4. waiting \in Seq(Requests) /\ active \in Seq(Requests)
        /\ IsInjective(waiting) /\ IsInjective(active)
    BY DEF IInv, Types, TypeOK, QueuesOK
  <1>5. waiting' = Without(waiting, r)
        /\ active' = IF r \in Range(active) THEN active ELSE Append(active, r)
    BY MembersAreRange DEF MoveNext
  <1>6. UNCHANGED <<request_vars, scheduler_vars, client_vars, responses, pc,
                    local_vars, pool_vars>>
    BY DEF MoveNext
  <1> HIDE DEF r
  <1>7. IsInjective(waiting') /\ Range(waiting') = Range(waiting) \ {r}
    BY <1>4, <1>5, WithoutElements
  <1>8. IsInjective(active') /\ Range(active') = Range(active) \cup {r}
    BY <1>2, <1>4, <1>5, AppendElements
  <1>9. Live' = Live /\ Candidates \subseteq Live
    BY <1>6, LiveSame DEF client_vars, Candidates
  <1> QED BY <1>2, <1>3, <1>6, <1>7, <1>8, <1>9 DEF r

LEMMA DropFacts ==
    ASSUME IInv, DropCancelled
    PROVE  /\ pc = "drop"
           /\ UNCHANGED <<others_of_drop, pc, work, local_vars>> /\ Live' = Live
           /\ IsInjective(active') /\ Range(active') \subseteq Range(active)
           /\ Range(active) \ Range(active') \subseteq cancelled
  <1>1. PICK i \in DOMAIN active : active[i] \in cancelled /\ active' = Removed(active, i)
    BY DEF DropCancelled, WithoutAt, Removed, Dropped
  <1>2. i \in 1 .. Len(active) /\ active \in Seq(Requests) /\ IsInjective(active)
    BY <1>1, LenProperties DEF IInv, Types, TypeOK, QueuesOK
  <1>3. IsInjective(active') /\ Range(active') = Range(active) \ {active[i]}
    BY <1>1, <1>2, RemoveElements
  <1>4. pc = "drop" /\ UNCHANGED <<others_of_drop, pc, work, local_vars>>
    BY DEF DropCancelled
  <1>5. Live' = Live
    BY <1>4, LiveSame DEF others_of_drop, client_vars
  <1> QED BY <1>1, <1>3, <1>4, <1>5

LEMMA QueuesStep ==
    ASSUME IInv, [Next]_vars
    PROVE  QueuesOK'
  <1>1. /\ QueuesOK /\ Types
        /\ waiting \in Seq(Requests) /\ active \in Seq(Requests)
        /\ arrived \subseteq Requests /\ Live \subseteq arrived
    BY DEF IInv, Types, TypeOK, Live
  <1>2. ASSUME NEW r \in Requests, enqueue_request(r) PROVE QueuesOK'
    <2>1. /\ waiting' = Append(waiting, r) /\ UNCHANGED <<active, cancelled>>
          /\ Live' = Live \cup {r} /\ r \notin Live
      BY <1>1, <1>2, LiveEnqueue DEF enqueue_request
    <2>2. IsInjective(waiting') /\ Range(waiting') = Range(waiting) \cup {r}
      BY <1>1, <2>1, AppendElements DEF QueuesOK
    <2> QED BY <1>1, <2>1, <2>2 DEF QueuesOK
  <1>3. ASSUME NEW r \in Requests, cancel_request(r) PROVE QueuesOK'
    <2>1. /\ waiting' = Without(waiting, r) /\ UNCHANGED <<active, arrived, responses>>
          /\ cancelled' = cancelled \cup {r}
      BY <1>3 DEF cancel_request
    <2>2. IsInjective(waiting') /\ Range(waiting') = Range(waiting) \ {r}
      BY <1>1, <2>1, WithoutElements DEF QueuesOK
    <2> QED BY <1>1, <2>1, <2>2, LiveSame DEF QueuesOK
  <1>4. CASE DropCancelled
    <2>1. UNCHANGED <<waiting, cancelled>>
      BY <1>4, DropFacts DEF others_of_drop, client_vars
    <2> QED BY <1>1, <1>4, <2>1, DropFacts DEF QueuesOK
  <1>5. CASE MoveNext
    <2>1. UNCHANGED cancelled
      BY <1>5 DEF MoveNext, client_vars
    <2> QED BY <1>1, <1>5, <2>1, MoveFacts DEF QueuesOK
  <1>6. CASE CompleteNext
    <2>1. UNCHANGED <<waiting, cancelled>>
      BY <1>6 DEF CompleteNext, client_vars
    <2>2. CASE Head(work) \notin Range(active)
      BY <1>1, <1>6, <2>1, <2>2, LiveComplete DEF QueuesOK
    <2>3. CASE Head(work) \in Range(active)
      <3>1. Live' = Live \ {Head(work)} /\ active' = Without(active, Head(work))
        BY <1>1, <1>6, <2>3, LiveComplete
      <3>2. IsInjective(active') /\ Range(active') = Range(active) \ {Head(work)}
        BY <1>1, <3>1, WithoutElements DEF QueuesOK
      <3> QED BY <1>1, <2>1, <2>3, <3>1, <3>2 DEF QueuesOK
    <2> QED BY <2>2, <2>3
  <1>7. CASE Stream
    BY <1>1, <1>7, LiveStream DEF Stream, queue_vars, client_vars, QueuesOK
  <1>8. CASE QuietStep
    BY <1>1, <1>8, QuietLive DEF QueuesOK
  <1> QED BY <1>2, <1>3, <1>4, <1>5, <1>6, <1>7, <1>8, StepCases

-----------------------------------------------------------------------------
(* The phases of iteration(): what a client does in between, and the steps  *)
(* that end in each.                                                        *)

Outside ==
    \/ \E r \in Requests : enqueue_request(r)
    \/ \E r \in Requests : cancel_request(r)
    \/ UNCHANGED vars

LEMMA Into ==
    ASSUME [Next]_vars, ~Outside
    PROVE  /\ pc' = "collect" => TakeSnapshot \/ CollectNext
           /\ pc' = "schedule" => CallSchedule \/ RunScheduler
           /\ pc' = "move" => EndSchedule \/ MoveNext
           /\ pc' = "prepare" => EndMove \/ PrepareNext \/ AllocateTurn
           /\ pc' = "advance" => EndPrepare
           /\ pc' = "sample" => Advance \/ SampleNext
           /\ pc' = "update" => EndSample \/ UpdateNext \/ AllocateTurn
           /\ pc' = "complete" => EndUpdate \/ CompleteNext
  BY DEF Outside, Next, Iteration, BeginIteration, DropCancelled, TakeSnapshot, CollectNext,
         CallSchedule, RunScheduler, EndSchedule, MoveNext, EndMove, PrepareNext,
         AllocateTurn, AllocateFails, Resume, EndPrepare, ForwardRaises, Advance, SampleNext, EndSample,
         UpdateNext, EndUpdate, CompleteNext, Stream

LEMMA OutsideFacts ==
    ASSUME IInv, Outside
    PROVE  /\ UNCHANGED <<active, request_vars, scheduler_vars, pc, work, local_vars,
                          pool_vars>>
           /\ Live \subseteq Live'
           /\ Candidates \subseteq Candidates'
           /\ \A r \in Requests : NewsOf(r) => NewsOf(r)'
  <1>1. UNCHANGED <<active, request_vars, scheduler_vars, pc, work, local_vars, pool_vars>>
    BY DEF Outside, enqueue_request, cancel_request, vars, queue_vars
  <1>2. Types
    BY DEF IInv
  <1>3. Live \subseteq Live'
    BY <1>2, LiveEnqueue, LiveSame DEF Outside, cancel_request, vars, client_vars
  <1>4. ASSUME NEW r \in Requests, NewsOf(r) PROVE NewsOf(r)'
    <2>1. responses'[r] = responses[r] \/ responses'[r] = <<>>
      BY <1>2 DEF Outside, enqueue_request, cancel_request, vars, Types, TypeOK
    <2>2. num_output_tokens' = num_output_tokens
      BY <1>1 DEF request_vars
    <2> QED BY <1>4, <2>1, <2>2 DEF NewsOf
  <1>5. Candidates \subseteq Candidates'
    BY <1>1, <1>3 DEF Candidates, request_vars
  <1> QED BY <1>1, <1>3, <1>4, <1>5

LEMMA CollectingStep ==
    ASSUME IInv, [Next]_vars
    PROVE  Collecting'
  <1> SUFFICES ASSUME pc' = "collect" PROVE Collecting'
    BY DEF Collecting
  <1>1. /\ Types /\ QueuesOK /\ ProgressOK /\ Collecting
        /\ waiting \in Seq(Requests) /\ active \in Seq(Requests) /\ work \in Seq(Requests)
        /\ active_ctx \in Seq(Requests) /\ active_gen \in Seq(Requests)
    BY DEF IInv, Types, TypeOK, PhaseOK
  <1>2. CASE Outside
    BY <1>1, <1>2, OutsideFacts DEF Collecting, local_vars, request_vars
  <1>3. CASE TakeSnapshot
    <2>1. /\ snapshot' = waiting /\ active_ctx' = <<>> /\ active_gen' = <<>>
          /\ work' = active /\ UNCHANGED <<active, state>> /\ Live' = Live
      BY <1>3, LiveSame DEF TakeSnapshot, others_of_drop, request_vars, client_vars
    <2> QED BY <1>1, <2>1, EmptyRange DEF Collecting, QueuesOK, ProgressOK
  <1>4. CASE CollectNext
    <2> DEFINE r == Head(work)
    <2>1. /\ r \in Requests /\ r \in Range(work)
          /\ Range(work) = Range(Tail(work)) \cup {r}
          /\ IsInjective(work) => IsInjective(Tail(work)) /\ r \notin Range(Tail(work))
      BY <1>1, <1>4, TailElements, HeadTailProperties DEF CollectNext
    <2>2. /\ pc = "collect" /\ work' = Tail(work) /\ UNCHANGED <<active, state, snapshot>>
          /\ Live' = Live
          /\ active_gen' = IF is_generation_phase(r) THEN Append(active_gen, r) ELSE active_gen
          /\ active_ctx' = IF Resubmitted(r) THEN Append(active_ctx, r) ELSE active_ctx
      BY <1>4, LiveSame DEF CollectNext, request_vars, queue_vars, client_vars
    <2>3. r \in Range(active) => state[r] # "GENERATION_COMPLETE"
      BY <2>2 DEF IInv, PendingOK
    <2> HIDE DEF r
    <2>4. /\ r \in Range(active) /\ r \notin Range(active_ctx) \cup Range(active_gen)
          /\ r \notin Range(Tail(work)) /\ IsInjective(Tail(work))
          /\ Range(Tail(work)) \subseteq Range(work)
      BY <1>1, <2>1, <2>2 DEF Collecting
    <2>5. /\ IsInjective(active_gen') /\ Range(active_gen') \subseteq Range(active_gen) \cup {r}
          /\ r \in Range(active_gen') => state[r] = "GENERATION_IN_PROGRESS"
      <3>1. IsInjective(active_gen)
        BY <1>1, <2>2 DEF Collecting
      <3> QED BY <1>1, <2>1, <2>2, <2>3, <2>4, <3>1, AppendElements DEF is_generation_phase
    <2>6. /\ IsInjective(active_ctx') /\ Range(active_ctx') \subseteq Range(active_ctx) \cup {r}
          /\ r \in Range(active_ctx') => state[r] = "CONTEXT_IN_PROGRESS"
      <3>1. IsInjective(active_ctx)
        BY <1>1, <2>2 DEF Collecting
      <3> QED BY <1>1, <2>1, <2>2, <2>4, <3>1, AppendElements DEF Resubmitted
    <2> QED BY <1>1, <2>2, <2>4, <2>5, <2>6 DEF Collecting
  <1> QED BY <1>2, <1>3, <1>4, Into

(* What the batch says stays true as long as requests do not change.        *)
LEMMA BatchStays ==
    ASSUME BatchOK, Candidates \subseteq Candidates',
           UNCHANGED <<request_vars, scheduled, _scheduled_context_tokens>>
    PROVE  BatchOK'
  BY DEF BatchOK, Chunking, LastChunk, RemainingContext, request_vars

LEMMA DecodingStays ==
    ASSUME DecodingOK, Range(active) \subseteq Range(active'), UNCHANGED <<state, scheduled>>
    PROVE  DecodingOK'
  BY DEF DecodingOK, Decoding

LEMMA SchedulingStep ==
    ASSUME IInv, [Next]_vars
    PROVE  Scheduling'
  <1> SUFFICES ASSUME pc' = "schedule" PROVE Scheduling'
    BY DEF Scheduling
  <1>1. /\ Types /\ QueuesOK /\ ProgressOK /\ Collecting /\ Scheduling
        /\ active_ctx \in Seq(Requests) /\ snapshot \in Seq(Requests)
        /\ todo \in Seq(Requests) /\ admitted \in Seq(Requests)
        /\ scheduled \in [context_chunking : Seq(Requests),
                          context_last_chunk : Seq(Requests), generation : Seq(Requests)]
        /\ _scheduled_context_tokens \in [Requests -> Nat]
        /\ budget \in Nat
    BY DEF IInv, Types, TypeOK, SchedulerTypeOK, PhaseOK
  <1>0. \A q \in Requests : RemainingContext(q) \in Int
    <2>1. num_context_tokens_processed \in [Requests -> Nat]
      BY DEF IInv, Types, TypeOK, RequestTypeOK
    <2> QED BY <2>1, RequestAssumption DEF RemainingContext
  <1>2. CASE Outside
    <2>1. /\ UNCHANGED <<request_vars, scheduler_vars, active>> /\ pc = "schedule"
          /\ Candidates \subseteq Candidates'
      BY <1>2, OutsideFacts
    <2>2. /\ UNCHANGED <<tier, todo, admitted, scheduled, _scheduled_context_tokens, state>>
          /\ Chunking' = Chunking /\ LastChunk' = LastChunk
      BY <2>1 DEF scheduler_vars, request_vars, Chunking, LastChunk
    <2>3. BatchOK' /\ DecodingOK'
      BY <1>1, <2>1, <2>2, BatchStays, DecodingStays DEF Scheduling
    <2> QED BY <1>1, <2>1, <2>2, <2>3 DEF Scheduling
  <1>3. CASE CallSchedule
    <2>1. /\ pc = "collect" /\ tier' = "capacity" /\ todo' = snapshot \o active_ctx
          /\ admitted' = <<>> /\ scheduled' = [NothingScheduled EXCEPT !.generation = active_gen]
          /\ UNCHANGED <<active, state, arrived, responses>>
      BY <1>3 DEF CallSchedule, ScheduleCall, request_vars, queue_vars, client_vars
    <2>2. /\ scheduled'.context_chunking = <<>> /\ scheduled'.context_last_chunk = <<>>
          /\ scheduled'.generation = active_gen
      BY <2>1 DEF NothingScheduled
    <2>3. Chunking' = {} /\ LastChunk' = {} /\ Decoding' = Range(active_gen)
          /\ IsInjective(scheduled'.context_last_chunk)
      BY <2>2, EmptyRange DEF Chunking, LastChunk, Decoding
    <2>4. Live' = Live /\ Candidates' = Candidates
      BY <2>1, LiveSame DEF Candidates
    <2>5. DecodingOK' /\ BatchOK'
      BY <1>1, <2>1, <2>2, <2>3 DEF DecodingOK, BatchOK, Collecting
    <2>6. /\ Range(todo') = Range(snapshot) \cup Range(active_ctx)
          /\ IsInjective(todo')
      BY <1>1, <2>1, ConcatElements DEF Collecting
    <2>7. Range(todo') \subseteq Candidates'
      BY <1>1, <2>1, <2>4, <2>6 DEF Collecting, Candidates, QueuesOK
    <2> QED BY <2>1, <2>3, <2>5, <2>6, <2>7, EmptyRange DEF Scheduling
  <1>4. CASE RunScheduler
    <2>1. /\ pc = "schedule"
          /\ UNCHANGED <<request_vars, queue_vars, client_vars, responses>>
          /\ ScheduleStep /\ DecodingOK /\ BatchOK
      BY <1>1, <1>4 DEF RunScheduler, Scheduling
    <2>2. UNCHANGED <<active, state, arrived, responses, num_context_tokens_processed>>
      BY <2>1 DEF request_vars, queue_vars, client_vars
    <2>3. Live' = Live /\ Candidates' = Candidates
      BY <2>2, LiveSame DEF Candidates
    <2>4. ASSUME UNCHANGED <<scheduled, _scheduled_context_tokens>>
          PROVE  DecodingOK' /\ BatchOK' /\ Chunking' = Chunking /\ LastChunk' = LastChunk
      BY <2>1, <2>2, <2>3, <2>4, BatchStays, DecodingStays DEF Chunking, LastChunk
    <2>5. CASE AdmitNext
      <3> DEFINE r == Head(todo)
      <3>1. /\ tier = "capacity" /\ tier' = tier /\ todo' = Tail(todo) /\ todo # <<>>
            /\ UNCHANGED <<scheduled, _scheduled_context_tokens>>
            /\ admitted' = admitted \/ admitted' = Append(admitted, r)
        BY <2>5 DEF AdmitNext
      <3>2. /\ IsInjective(todo) /\ Range(todo) \subseteq Candidates
            /\ IsInjective(admitted) /\ Range(admitted) \subseteq Candidates
            /\ Range(admitted) \cap Range(todo) = {} /\ Chunking = {} /\ LastChunk = {}
        BY <1>1, <2>1, <3>1 DEF Scheduling
      <3>3. /\ r \in Requests /\ r \in Range(todo)
            /\ Range(todo) = Range(Tail(todo)) \cup {r}
            /\ IsInjective(Tail(todo)) /\ r \notin Range(Tail(todo))
        BY <1>1, <3>1, <3>2, TailElements, HeadTailProperties
      <3> HIDE DEF r
      <3>4. IsInjective(admitted') /\ Range(admitted') \subseteq Range(admitted) \cup {r}
        <4>1. r \notin Range(admitted) /\ r \in Requests /\ admitted \in Seq(Requests)
          BY <1>1, <3>2, <3>3
        <4>2. /\ Range(Append(admitted, r)) = Range(admitted) \cup {r}
              /\ IsInjective(Append(admitted, r))
          BY <3>2, <4>1, AppendElements
        <4> QED BY <3>1, <3>2, <4>2
      <3> QED BY <2>3, <2>4, <3>1, <3>2, <3>3, <3>4 DEF Scheduling
    <2>6. CASE StartMicrobatch
      <3>1. /\ tier = "capacity" /\ UNCHANGED <<admitted, scheduled, _scheduled_context_tokens>>
            /\ tier' = "done" \/ (tier' = "microbatch" /\ todo' = admitted)
        <4> DEFINE none == admitted = <<>> \/ RemainingBudget <= 0
        <4>1. /\ tier = "capacity"
              /\ UNCHANGED <<admitted, scheduled, _scheduled_context_tokens>>
              /\ IF none THEN tier' = "done" ELSE tier' = "microbatch" /\ todo' = admitted
          BY <2>6, Zenon DEF StartMicrobatch
        <4> HIDE DEF none
        <4> QED BY <4>1
      <3>2. /\ IsInjective(admitted) /\ Range(admitted) \subseteq Candidates
            /\ Chunking = {} /\ LastChunk = {}
        BY <1>1, <2>1, <3>1 DEF Scheduling
      <3> QED BY <2>3, <2>4, <3>1, <3>2 DEF Scheduling
    <2>7. CASE EndMicrobatch
      BY <2>4, <2>7 DEF EndMicrobatch, Scheduling
    <2>8. CASE ChunkNext
      <3> DEFINE r == Head(todo)
                 size == ChunkSize(r)
      <3>1. /\ tier = "microbatch" /\ tier' = tier /\ todo' = Tail(todo) /\ todo # <<>>
            /\ \/ UNCHANGED <<scheduled, _scheduled_context_tokens>>
               \/ /\ size > 0
                  /\ _scheduled_context_tokens' = [_scheduled_context_tokens EXCEPT ![r] = size]
                  /\ scheduled' =
                        IF IsLast(r)
                        THEN [scheduled EXCEPT !.context_last_chunk = Append(@, r)]
                        ELSE [scheduled EXCEPT !.context_chunking = Append(@, r)]
        <4>1. budget \in Nat
          BY <1>1
        <4>2. r \in Requests
          BY <1>1, <2>8, HeadTailProperties DEF ChunkNext
        <4>3. RemainingContext(r) \in Int
          BY <1>0, <4>2
        <4>4. ChunkSize(r) \in Int
          BY <4>1, <4>3 DEF ChunkSize
        <4> QED BY <2>8, <4>4 DEF ChunkNext
      <3>2. /\ IsInjective(todo) /\ Range(todo) \subseteq Candidates
            /\ Range(todo) \cap (Chunking \cup LastChunk) = {}
        BY <1>1, <2>1, <3>1 DEF Scheduling
      <3>3. /\ r \in Requests /\ r \in Range(todo)
            /\ Range(todo) = Range(Tail(todo)) \cup {r}
            /\ IsInjective(Tail(todo)) /\ r \notin Range(Tail(todo))
        BY <1>1, <3>1, <3>2, TailElements, HeadTailProperties
      <3>4. /\ RemainingContext(r) \in Int /\ size \in Int
            /\ size <= RemainingContext(r)
            /\ IsLast(r) => size = RemainingContext(r)
            /\ ~IsLast(r) => size < RemainingContext(r)
        <4>1. budget \in Nat
          BY <1>1
        <4>2. RemainingContext(r) \in Int
          BY <1>0, <3>3
        <4> HIDE DEF r
        <4> QED BY <4>1, <4>2 DEF ChunkSize, IsLast
      <3> HIDE DEF r, size
      <3>5. CASE UNCHANGED <<scheduled, _scheduled_context_tokens>>
        BY <2>3, <2>4, <3>1, <3>2, <3>3, <3>5 DEF Scheduling
      <3>6. CASE ~UNCHANGED <<scheduled, _scheduled_context_tokens>>
        <4>1. /\ size > 0
              /\ _scheduled_context_tokens'[r] = size
              /\ \A q \in Requests \ {r} :
                     _scheduled_context_tokens'[q] = _scheduled_context_tokens[q]
          BY <1>1, <3>1, <3>3, <3>6
        <4>2. scheduled' =
                  IF IsLast(r)
                  THEN [scheduled EXCEPT !.context_last_chunk = Append(@, r)]
                  ELSE [scheduled EXCEPT !.context_chunking = Append(@, r)]
          BY <3>1, <3>6
        <4>3. /\ scheduled'.generation = scheduled.generation
              /\ scheduled'.context_last_chunk =
                     IF IsLast(r) THEN Append(scheduled.context_last_chunk, r)
                     ELSE scheduled.context_last_chunk
              /\ scheduled'.context_chunking =
                     IF IsLast(r) THEN scheduled.context_chunking
                     ELSE Append(scheduled.context_chunking, r)
          BY <1>1, <4>2
        <4>4. DecodingOK' 
          BY <2>1, <2>2, <4>3 DEF DecodingOK, Decoding
        <4>5. r \notin Chunking \cup LastChunk /\ r \in Candidates
          BY <3>2, <3>3
        <4>6. /\ scheduled.context_last_chunk \in Seq(Requests)
              /\ scheduled.context_chunking \in Seq(Requests)
          BY <1>1
        <4>7. /\ Chunking' = IF IsLast(r) THEN Chunking ELSE Chunking \cup {r}
              /\ LastChunk' = IF IsLast(r) THEN LastChunk \cup {r} ELSE LastChunk
              /\ IsInjective(scheduled'.context_last_chunk)
          <5>1. IsInjective(scheduled.context_last_chunk)
            BY <2>1 DEF BatchOK
          <5>2. r \in Requests /\ r \notin Range(scheduled.context_last_chunk)
            BY <3>3, <4>5 DEF LastChunk
          <5>3. /\ Range(Append(scheduled.context_last_chunk, r)) = LastChunk \cup {r}
                /\ IsInjective(Append(scheduled.context_last_chunk, r))
                /\ Range(Append(scheduled.context_chunking, r)) = Chunking \cup {r}
            BY <4>6, <5>1, <5>2, AppendElements DEF Chunking, LastChunk
          <5>4. CASE IsLast(r)
            BY <4>3, <5>3, <5>4 DEF Chunking, LastChunk
          <5>5. CASE ~IsLast(r)
            BY <4>3, <5>1, <5>3, <5>5 DEF Chunking, LastChunk
          <5> QED BY <5>4, <5>5
        <4>8. Chunking \cup LastChunk \subseteq Requests
          BY <4>6, ElementsOfSeq DEF Chunking, LastChunk
        <4>9. \A q \in Requests : RemainingContext(q)' = RemainingContext(q)
          BY <2>2 DEF RemainingContext
        <4>10. \A q \in Chunking' : 0 < _scheduled_context_tokens'[q]
                                   /\ _scheduled_context_tokens'[q] < RemainingContext(q)'
          BY <2>1, <3>3, <3>4, <4>1, <4>5, <4>7, <4>8, <4>9 DEF BatchOK
        <4>11. \A q \in LastChunk' : 0 < RemainingContext(q)'
                              /\ _scheduled_context_tokens'[q] = RemainingContext(q)'
          BY <2>1, <3>3, <3>4, <4>1, <4>5, <4>7, <4>8, <4>9 DEF BatchOK
        <4>12. BatchOK'
          BY <2>1, <2>3, <4>5, <4>7, <4>10, <4>11 DEF BatchOK
        <4> QED BY <2>3, <3>1, <3>2, <3>3, <4>4, <4>7, <4>12 DEF Scheduling
      <3> QED BY <3>5, <3>6
    <2> QED BY <2>1, <2>5, <2>6, <2>7, <2>8 DEF ScheduleStep
  <1> QED BY <1>2, <1>3, <1>4, Into

LEMMA MovingStep ==
    ASSUME IInv, [Next]_vars
    PROVE  Moving'
  <1> SUFFICES ASSUME pc' = "move" PROVE Moving'
    BY DEF Moving
  <1>1. /\ Types /\ Scheduling /\ Moving
        /\ scheduled.context_chunking \in Seq(Requests)
        /\ scheduled.context_last_chunk \in Seq(Requests)
    BY DEF IInv, Types, TypeOK, SchedulerTypeOK, PhaseOK
  <1>2. CASE Outside
    <2>1. /\ UNCHANGED <<request_vars, scheduler_vars, active, work>> /\ pc = "move"
          /\ Candidates \subseteq Candidates'
      BY <1>2, OutsideFacts
    <2>2. /\ UNCHANGED <<scheduled, _scheduled_context_tokens, state>>
          /\ Chunking' = Chunking /\ LastChunk' = LastChunk
      BY <2>1 DEF scheduler_vars, request_vars, Chunking, LastChunk
    <2>3. BatchOK' /\ DecodingOK'
      BY <1>1, <2>1, <2>2, BatchStays, DecodingStays DEF Moving
    <2> QED BY <1>1, <2>1, <2>2, <2>3 DEF Moving
  <1>3. CASE EndSchedule
    <2>1. /\ pc = "schedule" /\ UNCHANGED <<request_vars, scheduler_vars, active, arrived, responses>>
          /\ work' = scheduled.context_chunking \o scheduled.context_last_chunk
      BY <1>3 DEF EndSchedule, queue_vars, client_vars
    <2>2. /\ UNCHANGED <<scheduled, _scheduled_context_tokens, state>>
          /\ Chunking' = Chunking /\ LastChunk' = LastChunk
      BY <2>1 DEF scheduler_vars, request_vars, Chunking, LastChunk
    <2>3. Candidates' = Candidates
      BY <2>1, <2>2, LiveSame DEF Candidates
    <2>4. BatchOK' /\ DecodingOK'
      BY <1>1, <2>1, <2>2, <2>3, BatchStays, DecodingStays DEF Scheduling
    <2>5. Range(work') = Chunking \cup LastChunk
      BY <1>1, <2>1, ConcatElements DEF Chunking, LastChunk
    <2> QED BY <2>2, <2>4, <2>5 DEF Moving
  <1>4. CASE MoveNext
    <2>1. /\ UNCHANGED <<request_vars, scheduler_vars, pc>> /\ Live' = Live
          /\ Range(active) \subseteq Range(active')
          /\ Head(work) \in Range(active') /\ Range(work) = Range(Tail(work)) \cup {Head(work)}
      BY <1>4, MoveFacts
    <2>2. work' = Tail(work)
      BY <1>4 DEF MoveNext
    <2>3. /\ UNCHANGED <<scheduled, _scheduled_context_tokens, state>>
          /\ Chunking' = Chunking /\ LastChunk' = LastChunk
      BY <2>1 DEF scheduler_vars, request_vars, Chunking, LastChunk
    <2>4. Candidates \subseteq Candidates'
      BY <2>1, <2>3 DEF Candidates
    <2>5. BatchOK' /\ DecodingOK'
      BY <1>1, <2>1, <2>3, <2>4, BatchStays, DecodingStays DEF Moving
    <2> QED BY <1>1, <2>1, <2>2, <2>3, <2>5 DEF Moving
  <1> QED BY <1>2, <1>3, <1>4, Into

-----------------------------------------------------------------------------
(* The block tables.                                                        *)

LEMMA AllocateFacts ==
    ASSUME IInv, AllocateTurn
    PROVE  /\ pc = "prepare" /\ HasResourceManager /\ allocation # BM!Idle
           /\ allocation.holder \in Range(active) /\ allocation.holder \in Requests
           /\ UNCHANGED <<others_of_pool, pc, work>>
           /\ \A r \in Requests :
                 /\ Len(block_table[r]) \in Nat /\ Len(block_table'[r]) \in Nat
                 /\ r = allocation.holder =>
                       Len(block_table'[r]) = Len(block_table[r]) + 1
                 /\ r # allocation.holder => block_table'[r] = block_table[r]
           /\ allocation.arg \in Nat \ {0}
           /\ \/ allocation' = BM!Idle /\ allocation.arg = 1
              \/ /\ allocation' # BM!Idle
                 /\ allocation'.holder = allocation.holder
                 /\ allocation'.arg = allocation.arg - 1
  <1> DEFINE h == allocation.holder
  <1>1. /\ pc \in {"prepare", "update"} /\ allocation.call = "allocate"
        /\ UNCHANGED <<others_of_pool, pc, work>>
        /\ Len(free_block_ids) >= allocation.arg
        /\ block_table' = [block_table EXCEPT ![h] = Append(@, Head(free_block_ids))]
        /\ allocation' = IF allocation.arg = 1 THEN BM!Idle
                         ELSE [allocation EXCEPT !.arg = @ - 1]
    BY DEF AllocateTurn, BM!AllocatePop, BM!Pop, BM!can_allocate
  <1>2. allocation # BM!Idle
    BY <1>1 DEF BM!Idle
  <1>3. /\ pc = "prepare" /\ HasResourceManager /\ h \in Range(active)
        /\ h \in Requests /\ allocation.arg \in Nat \ {0}
    BY <1>2 DEF IInv, TablesOK, Types, AllocationRuns
  <1>4. /\ block_table \in [Requests -> Seq(BM!Blocks)]
        /\ free_block_ids \in Seq(BM!Blocks)
        /\ allocation \in [call : {"idle", "allocate"}, holder : Requests \cup {NoRequest},
                            arg : Nat]
    BY DEF IInv, Types, TypeOK
  <1>5. Head(free_block_ids) \in BM!Blocks
    <2>1. free_block_ids # <<>>
      BY <1>1, <1>3, EmptySeq
    <2> QED BY <1>4, <2>1, HeadTailProperties
  <1>6. /\ block_table'[h] = Append(block_table[h], Head(free_block_ids))
        /\ \A r \in Requests : r # h => block_table'[r] = block_table[r]
    BY <1>1, <1>3, <1>4
  <1>7. \A r \in Requests : block_table[r] \in Seq(BM!Blocks) /\ Len(block_table[r]) \in Nat
    BY <1>4, LenProperties
  <1>8. Len(block_table'[h]) = Len(block_table[h]) + 1
    BY <1>3, <1>5, <1>6, <1>7, AppendProperties
  <1>9. CASE allocation.arg = 1
    <2>1. allocation' = BM!Idle
      BY <1>1, <1>9
    <2> HIDE DEF h
    <2>2. \A r \in Requests : Len(block_table'[r]) \in Nat
      BY <1>6, <1>7, <1>8
    <2> QED BY <1>1, <1>2, <1>3, <1>6, <1>7, <1>8, <1>9, <2>1, <2>2 DEF h
  <1>10. CASE allocation.arg # 1
    <2>1. /\ allocation'.call = "allocate" /\ allocation'.holder = h
          /\ allocation'.arg = allocation.arg - 1
      BY <1>1, <1>4, <1>10
    <2>2. allocation' # BM!Idle
      BY <2>1 DEF BM!Idle
    <2> HIDE DEF h
    <2>3. \A r \in Requests : Len(block_table'[r]) \in Nat
      BY <1>6, <1>7, <1>8
    <2> QED BY <1>1, <1>2, <1>3, <1>6, <1>7, <1>8, <2>1, <2>2, <2>3 DEF h
  <1> QED BY <1>9, <1>10

LEMMA Scaled ==
    ASSUME NEW m \in Nat, NEW n \in Nat, m <= n
    PROVE  m * block_size <= n * block_size
  <1>1. block_size \in Nat
    BY SchedulerAssumption
  <1>2. PICK k \in Nat : n = m + k
    <2>1. n - m \in Nat /\ n = m + (n - m)
      OBVIOUS
    <2> QED BY <2>1
  <1>3. n * block_size = m * block_size + k * block_size
    BY <1>1, <1>2
  <1>4. m * block_size \in Nat /\ k * block_size \in Nat
    BY <1>1
  <1> QED BY <1>3, <1>4

(* A table that only grows still covers its request.                        *)
LEMMA CoveredStays ==
    ASSUME NEW r \in Requests, Covered(r), Len(block_table[r]) \in Nat,
           Len(block_table'[r]) \in Nat, Len(block_table[r]) <= Len(block_table'[r])
    PROVE  Covered(r)'
  <1>1. ContextLen[r] + MaxTokens[r] \in Nat
    BY RequestAssumption
  <1>2. Len(block_table[r]) * block_size <= Len(block_table'[r]) * block_size
    BY Scaled
  <1>3. Len(block_table[r]) * block_size \in Nat /\ Len(block_table'[r]) * block_size \in Nat
    BY SchedulerAssumption
  <1> QED BY <1>1, <1>2, <1>3 DEF Covered

(* The blocks of prepare_resources reach to completion.                     *)
LEMMA NeededCovers ==
    ASSUME NEW r \in Requests, NEW n \in Nat, get_needed_resource_to_completion(r) <= n
    PROVE  ContextLen[r] + MaxTokens[r] <= n * block_size
  <1> DEFINE all == ContextLen[r] + MaxTokens[r]
             need == get_needed_resource_to_completion(r)
  <1>1. all \in Nat
    BY RequestAssumption
  <1>2. need \in Nat /\ all <= need * block_size
    BY <1>1, BlocksNeeded DEF get_needed_resource_to_completion
  <1> HIDE DEF all, need
  <1>3. need * block_size <= n * block_size
    BY <1>2, Scaled DEF need
  <1>4. need * block_size \in Nat /\ n * block_size \in Nat
    BY <1>2, SchedulerAssumption
  <1>5. all <= n * block_size
    BY <1>1, <1>2, <1>3, <1>4
  <1> QED BY <1>5 DEF all

LEMMA PrepareFacts ==
    ASSUME IInv, PrepareNext
    PROVE  /\ pc = "prepare" /\ HasResourceManager /\ allocation = BM!Idle
           /\ Head(work) \in Range(active) /\ Head(work) \in Requests
           /\ work' = Tail(work) /\ Range(work) = Range(Tail(work)) \cup {Head(work)}
           /\ UNCHANGED <<others_of_pool, pc, block_table>>
           /\ state[Head(work)] = "CONTEXT_INIT" =>
                  /\ allocation'.call = "allocate" /\ allocation'.holder = Head(work)
                  /\ allocation'.arg = get_needed_resource_to_completion(Head(work))
           /\ state[Head(work)] # "CONTEXT_INIT" => allocation' = BM!Idle
  <1>1. /\ pc = "prepare" /\ allocation = BM!Idle /\ work # <<>> /\ work' = Tail(work)
        /\ UNCHANGED <<others_of_pool, pc>>
    BY DEF PrepareNext
  <1>2. work \in Seq(Requests)
    BY DEF IInv, Types, TypeOK
  <1>3. /\ Head(work) \in Requests /\ Head(work) \in Range(work)
        /\ Range(work) = Range(Tail(work)) \cup {Head(work)}
    BY <1>1, <1>2, TailElements, HeadTailProperties
  <1>4. HasResourceManager /\ Range(work) \subseteq Range(active)
    BY <1>1 DEF IInv, PhaseOK, Preparing
  <1>5. CASE state[Head(work)] = "CONTEXT_INIT"
    BY <1>1, <1>3, <1>4, <1>5 DEF PrepareNext, BM!AllocateCall, BM!Call
  <1>6. CASE state[Head(work)] # "CONTEXT_INIT"
    BY <1>1, <1>3, <1>4, <1>6 DEF PrepareNext, pool_vars
  <1> QED BY <1>5, <1>6

(* update_resources finds every table long enough: it asks for no block.    *)
LEMMA UpdateFacts ==
    ASSUME IInv, UpdateNext
    PROVE  /\ pc = "update" /\ work' = Tail(work)
           /\ Range(work) = Range(Tail(work)) \cup {Head(work)}
           /\ UNCHANGED <<others_of_pool, pc, pool_vars>>
  <1> DEFINE r == Head(work)
  <1>1. /\ pc = "update" /\ work # <<>> /\ work' = Tail(work)
        /\ UNCHANGED <<others_of_pool, pc>>
    BY DEF UpdateNext
  <1>2. work \in Seq(Requests)
    BY DEF IInv, Types, TypeOK
  <1>3. /\ r \in Requests /\ r \in Range(work) /\ Range(work) = Range(Tail(work)) \cup {r}
    BY <1>1, <1>2, TailElements, HeadTailProperties
  <1>4. /\ HasResourceManager /\ r \in Range(active)
        /\ state[r] \in {"GENERATION_IN_PROGRESS", "GENERATION_COMPLETE"}
    BY <1>1, <1>3 DEF IInv, PhaseOK, Applied
  <1>5. Covered(r)
    BY <1>4 DEF IInv, TablesOK
  <1>6. num_output_tokens[r] \in Nat /\ num_output_tokens[r] <= MaxTokens[r]
    <2>1. num_output_tokens[r] \in Nat
      BY <1>3 DEF IInv, Types, TypeOK, RequestTypeOK
    <2>2. ProgressOf(r)
      BY <1>3 DEF IInv, ProgressOK
    <2> HIDE DEF r
    <2> QED BY <1>3, <1>4, <2>1, <2>2, RequestAssumption DEF ProgressOf
  <1>7. Len(block_table[r]) \in Nat
    BY <1>3, LenProperties DEF IInv, Types, TypeOK
  <1>8. ~(Uncovered(r) > 0)
    <2>1. Len(block_table[r]) * block_size \in Nat
      BY <1>7, SchedulerAssumption
    <2>2. ContextLen[r] \in Nat /\ MaxTokens[r] \in Nat
      BY <1>3, RequestAssumption
    <2> HIDE DEF r
    <2> QED BY <1>5, <1>6, <2>1, <2>2 DEF Uncovered, Covered, total_num_tokens
  <1> QED BY <1>1, <1>3, <1>8 DEF UpdateNext

LEMMA PreparingStep ==
    ASSUME IInv, [Next]_vars
    PROVE  Preparing'
  <1> SUFFICES ASSUME pc' \in {"prepare", "advance"} PROVE Preparing'
    BY DEF Preparing
  <1>1. /\ Types /\ Moving /\ Preparing
        /\ scheduled.context_chunking \in Seq(Requests)
        /\ scheduled.context_last_chunk \in Seq(Requests)
        /\ scheduled.generation \in Seq(Requests)
        /\ Chunking \cup LastChunk \subseteq Requests
    BY ElementsOfSeq
       DEF IInv, Types, TypeOK, SchedulerTypeOK, PhaseOK, Chunking, LastChunk
  <1>2. CASE Outside
    <2>1. /\ UNCHANGED <<request_vars, scheduler_vars, active, work, pc, block_table, allocation>>
          /\ Candidates \subseteq Candidates'
      BY <1>2, OutsideFacts DEF pool_vars
    <2>2. /\ UNCHANGED <<scheduled, _scheduled_context_tokens, state>>
          /\ Chunking' = Chunking /\ LastChunk' = LastChunk
      BY <2>1 DEF scheduler_vars, request_vars, Chunking, LastChunk
    <2>3. BatchOK' /\ DecodingOK'
      BY <1>1, <2>1, <2>2, BatchStays, DecodingStays DEF Preparing
    <2> QED BY <1>1, <2>1, <2>2, <2>3 DEF Preparing, InPreparation, Covered
  <1> SUFFICES ASSUME ~Outside PROVE Preparing'
    BY <1>2
  <1>3. ASSUME UNCHANGED <<request_vars, scheduler_vars, queue_vars, client_vars, responses>>,
               pc \in {"move", "prepare"}
        PROVE  /\ BatchOK' /\ DecodingOK' /\ active' = active
               /\ Chunking' = Chunking /\ LastChunk' = LastChunk
    <2>1. /\ UNCHANGED <<scheduled, _scheduled_context_tokens, state, active, arrived, responses>>
          /\ Chunking' = Chunking /\ LastChunk' = LastChunk
      BY <1>3 DEF scheduler_vars, request_vars, queue_vars, client_vars, Chunking, LastChunk
    <2>2. Candidates' = Candidates
      BY <2>1, LiveSame DEF Candidates
    <2>3. BatchOK /\ DecodingOK
      BY <1>1, <1>3 DEF Moving, Preparing
    <2> QED BY <1>3, <2>1, <2>2, <2>3, BatchStays, DecodingStays
  <1>4. CASE EndMove
    <2>1. /\ pc = "move" /\ work = <<>> /\ pc' = "prepare"
          /\ work' = IF HasResourceManager THEN all_requests ELSE <<>>
          /\ UNCHANGED <<request_vars, scheduler_vars, queue_vars, client_vars, responses>>
      BY <1>4 DEF EndMove
    <2>2. Chunking \cup LastChunk \subseteq Range(active) /\ Decoding \subseteq Range(active)
      BY <1>1, <2>1, EmptyRange DEF Moving, DecodingOK
    <2>3. Range(all_requests) = Chunking \cup LastChunk \cup Decoding
      <3> DEFINE ctx == scheduled.context_chunking \o scheduled.context_last_chunk
      <3>1. ctx \in Seq(Requests) /\ Range(ctx) = Chunking \cup LastChunk
        BY <1>1, ConcatElements, ConcatProperties DEF Chunking, LastChunk
      <3> HIDE DEF ctx
      <3>2. Range(ctx \o scheduled.generation) = Range(ctx) \cup Decoding
        BY <1>1, <3>1, ConcatElements DEF Decoding
      <3> QED BY <3>1, <3>2 DEF all_requests, ctx
    <2>4. /\ BatchOK' /\ DecodingOK' /\ active' = active
          /\ Chunking' = Chunking /\ LastChunk' = LastChunk
      BY <1>3, <2>1
    <2>5. Range(work') \subseteq Range(active)
      BY <2>1, <2>2, <2>3, EmptyRange
    <2>6. HasResourceManager => \A r \in Chunking \cup LastChunk : InPreparation(r)'
      BY <2>1, <2>3 DEF InPreparation
    <2> QED BY <2>1, <2>2, <2>4, <2>5, <2>6 DEF Preparing
  <1>5. CASE PrepareNext
    <2>1. /\ pc = "prepare" /\ pc' = pc /\ HasResourceManager /\ allocation = BM!Idle
          /\ work' = Tail(work) /\ Range(work) = Range(Tail(work)) \cup {Head(work)}
          /\ Head(work) \in Requests /\ Head(work) \in Range(active)
          /\ UNCHANGED <<others_of_pool, block_table>>
      BY <1>5, PrepareFacts
    <2>2. /\ BatchOK' /\ DecodingOK' /\ active' = active
          /\ Chunking' = Chunking /\ LastChunk' = LastChunk
      BY <1>3, <2>1 DEF others_of_pool
    <2>3. PICK h \in Requests : h = Head(work)
      BY <2>1
    <2>6. /\ state[h] = "CONTEXT_INIT" =>
                /\ allocation'.call = "allocate" /\ allocation'.holder = h
                /\ allocation'.arg = get_needed_resource_to_completion(h)
          /\ state[h] # "CONTEXT_INIT" => allocation' = BM!Idle
      BY <1>5, <2>3, PrepareFacts
    <2>7. InPreparation(h)'
      <3>1. CASE state[h] = "CONTEXT_INIT"
        <4>1. allocation' # BM!Idle
          BY <2>6, <3>1 DEF BM!Idle
        <4>2. Len(block_table[h]) \in Nat
          BY <1>1, LenProperties DEF Types, TypeOK
        <4>3. get_needed_resource_to_completion(h) \in Nat
          BY BlocksNeeded, RequestAssumption DEF get_needed_resource_to_completion
        <4> DEFINE need == get_needed_resource_to_completion(h)
        <4>4. need' = need
          BY DEF get_needed_resource_to_completion
        <4> HIDE DEF need
        <4>5. need <= Len(block_table'[h]) + need
          BY <2>1, <4>2, <4>3 DEF need
        <4>6. need <= Len(block_table'[h]) + allocation'.arg
          BY <2>6, <3>1, <4>5 DEF need
        <4> QED BY <2>6, <3>1, <4>1, <4>4, <4>6 DEF InPreparation, need
      <3>2. CASE state[h] # "CONTEXT_INIT"
        <4>1. Covered(h)
          BY <2>1, <2>3, <3>2 DEF IInv, TablesOK
        <4> QED BY <2>1, <4>1 DEF InPreparation, Covered
      <3> QED BY <3>1, <3>2
    <2>4. ASSUME NEW r \in Chunking \cup LastChunk PROVE InPreparation(r)'
      <3>1. InPreparation(r)
        BY <1>1, <2>1 DEF Preparing
      <3>2. r \in Range(work) \/ Covered(r)
        BY <2>1, <3>1 DEF InPreparation
      <3>3. CASE r = h
        BY <2>7, <3>3
      <3>4. CASE r # h
        BY <2>1, <2>3, <3>2, <3>4 DEF InPreparation, Covered
      <3> QED BY <3>3, <3>4
    <2>5. Range(work') \subseteq Range(active) /\ Chunking \cup LastChunk \subseteq Range(active)
      BY <1>1, <2>1 DEF Preparing
    <2> QED BY <2>1, <2>2, <2>4, <2>5 DEF Preparing
  <1>6. CASE AllocateTurn
    <2>1. /\ pc = "prepare" /\ pc' = pc /\ HasResourceManager /\ allocation # BM!Idle
          /\ work' = work /\ UNCHANGED others_of_pool
      BY <1>6, AllocateFacts
    <2>2. /\ BatchOK' /\ DecodingOK' /\ active' = active
          /\ Chunking' = Chunking /\ LastChunk' = LastChunk
      BY <1>3, <2>1 DEF others_of_pool
    <2>3. ASSUME NEW r \in Chunking \cup LastChunk PROVE InPreparation(r)'
      <3>1. InPreparation(r) /\ r \in Requests
        BY <1>1, <2>1 DEF Preparing
      <3>2. /\ Len(block_table[r]) \in Nat /\ Len(block_table'[r]) \in Nat
            /\ r = allocation.holder => Len(block_table'[r]) = Len(block_table[r]) + 1
            /\ r # allocation.holder => block_table'[r] = block_table[r]
            /\ allocation.arg \in Nat \ {0}
            /\ \/ allocation' = BM!Idle /\ allocation.arg = 1
               \/ /\ allocation' # BM!Idle
                  /\ allocation'.holder = allocation.holder
                  /\ allocation'.arg = allocation.arg - 1
        BY <1>6, <3>1, AllocateFacts
      <3>3. CASE r \in Range(work)
        BY <2>1, <3>3 DEF InPreparation
      <3>4. CASE Covered(r)
        <4>1. Covered(r)'
          BY <3>1, <3>2, <3>4, CoveredStays
        <4> QED BY <4>1 DEF InPreparation
      <3>5. CASE /\ allocation.holder = r
                 /\ get_needed_resource_to_completion(r) <= Len(block_table[r]) + allocation.arg
        <4> DEFINE need == get_needed_resource_to_completion(r)
        <4>1. need \in Nat
          BY <3>1, BlocksNeeded, RequestAssumption DEF get_needed_resource_to_completion
        <4> HIDE DEF need
        <4>2. CASE allocation' = BM!Idle /\ allocation.arg = 1
          <5>1. need <= Len(block_table'[r])
            BY <3>2, <3>5, <4>1, <4>2 DEF need
          <5>2. Covered(r)'
            BY <3>1, <3>2, <5>1, NeededCovers DEF need, Covered
          <5> QED BY <5>2 DEF InPreparation
        <4>3. CASE /\ allocation' # BM!Idle
                   /\ allocation'.holder = allocation.holder
                   /\ allocation'.arg = allocation.arg - 1
          <5>1. need <= Len(block_table'[r]) + allocation'.arg
            BY <3>2, <3>5, <4>1, <4>3 DEF need
          <5> QED BY <3>5, <4>3, <5>1 DEF InPreparation, need
        <4> QED BY <3>2, <4>2, <4>3
      <3> QED BY <3>1, <3>3, <3>4, <3>5 DEF InPreparation
    <2> QED BY <1>1, <2>1, <2>2, <2>3 DEF Preparing
  <1>7. CASE EndPrepare
    <2>1. /\ pc = "prepare" /\ pc' = "advance" /\ work = <<>> /\ allocation = BM!Idle
          /\ UNCHANGED <<others_of_pool, work, pool_vars>>
      BY <1>7 DEF EndPrepare
    <2>2. /\ BatchOK' /\ DecodingOK' /\ active' = active
          /\ Chunking' = Chunking /\ LastChunk' = LastChunk
      BY <1>3, <2>1 DEF others_of_pool
    <2>3. /\ HasResourceManager => \A r \in Chunking \cup LastChunk : Covered(r)
          /\ Chunking \cup LastChunk \subseteq Range(active)
      BY <1>1, <2>1, EmptyRange DEF Preparing, InPreparation
    <2> QED BY <2>1, <2>2, <2>3 DEF Preparing, Covered, pool_vars
  <1> QED BY <1>4, <1>5, <1>6, <1>7, Into

-----------------------------------------------------------------------------
(* The forward pass: the batch advances, then each of its requests that     *)
(* decodes gets a token.                                                    *)

LEMMA AdvanceFacts ==
    ASSUME IInv, Advance
    PROVE  /\ pc = "advance" /\ pc' = "sample" /\ BatchOK /\ DecodingOK
           /\ Chunking \cup LastChunk \subseteq Range(active)
           /\ Chunking \cup LastChunk \cup Decoding \subseteq Requests
           /\ UNCHANGED <<num_output_tokens, scheduler_vars, queue_vars, client_vars,
                          responses, pool_vars>>
           /\ completed_ids' = <<>>
           /\ IsInjective(work') /\ Range(work') = LastChunk \cup Decoding
           /\ \A r \in LastChunk :
                 /\ state[r] \in {"CONTEXT_INIT", "CONTEXT_IN_PROGRESS"}
                 /\ state'[r] = "GENERATION_IN_PROGRESS"
                 /\ num_context_tokens_processed'[r] = ContextLen[r]
           /\ \A r \in Chunking :
                 /\ state[r] \in {"CONTEXT_INIT", "CONTEXT_IN_PROGRESS"}
                 /\ state'[r] = "CONTEXT_IN_PROGRESS"
                 /\ 0 < num_context_tokens_processed'[r]
                 /\ num_context_tokens_processed'[r] < ContextLen[r]
           /\ \A r \in Requests \ (Chunking \cup LastChunk) :
                 /\ state'[r] = state[r]
                 /\ num_context_tokens_processed'[r] = num_context_tokens_processed[r]
  <1>1. /\ pc = "advance" /\ pc' = "sample" /\ completed_ids' = <<>>
        /\ UNCHANGED <<num_output_tokens, scheduler_vars, queue_vars, client_vars,
                       responses, pool_vars>>
        /\ work' = scheduled.context_last_chunk \o scheduled.generation
    BY DEF Advance
  <1>2. /\ BatchOK /\ DecodingOK /\ Chunking \cup LastChunk \subseteq Range(active)
        /\ scheduled.context_chunking \in Seq(Requests)
        /\ scheduled.context_last_chunk \in Seq(Requests)
        /\ scheduled.generation \in Seq(Requests)
    BY <1>1 DEF IInv, PhaseOK, Preparing, Types, TypeOK, SchedulerTypeOK
  <1>3. Chunking \cup LastChunk \cup Decoding \subseteq Requests
    BY <1>2, ElementsOfSeq DEF Chunking, LastChunk, Decoding
  <1>4. /\ Chunking = Members(scheduled.context_chunking)
        /\ LastChunk = Members(scheduled.context_last_chunk)
    BY MembersAreRange DEF Chunking, LastChunk
  <1>5. \A r \in Chunking \cup LastChunk :
            state[r] \in {"CONTEXT_INIT", "CONTEXT_IN_PROGRESS"}
    BY <1>2 DEF BatchOK, Candidates
  <1>6. Range(work') = LastChunk \cup Decoding /\ IsInjective(work')
    <2>1. LastChunk \cap Decoding = {}
      BY <1>2, <1>5 DEF DecodingOK
    <2>2. IsInjective(scheduled.context_last_chunk) /\ IsInjective(scheduled.generation)
      BY <1>2 DEF DecodingOK, BatchOK
    <2> QED BY <1>1, <1>2, <2>1, <2>2, ConcatElements DEF LastChunk, Decoding
  <1>7. \A r \in Requests :
            /\ state'[r] = IF r \in LastChunk /\ InContext(r)
                           THEN "GENERATION_IN_PROGRESS"
                           ELSE IF r \in Chunking /\ state[r] = "CONTEXT_INIT"
                           THEN "CONTEXT_IN_PROGRESS"
                           ELSE state[r]
            /\ num_context_tokens_processed'[r] = num_context_tokens_processed[r] +
                   IF r \in Chunking \cup LastChunk THEN _scheduled_context_tokens[r] ELSE 0
    BY <1>4 DEF Advance, Advanced, ContextScheduled
  <1>8. \A r \in Requests : /\ num_context_tokens_processed[r] \in Nat
                            /\ _scheduled_context_tokens[r] \in Nat
                            /\ ContextLen[r] \in Nat
    BY RequestAssumption DEF IInv, Types, TypeOK, RequestTypeOK, SchedulerTypeOK
  <1>9. Chunking \cap LastChunk = {}
    BY <1>2 DEF BatchOK
  <1>10. ASSUME NEW r \in LastChunk
         PROVE  /\ state'[r] = "GENERATION_IN_PROGRESS"
                /\ num_context_tokens_processed'[r] = ContextLen[r]
    <2>1. r \in Requests /\ InContext(r)
      BY <1>3, <1>5 DEF InContext
    <2>2. _scheduled_context_tokens[r] = ContextLen[r] - num_context_tokens_processed[r]
      BY <1>2 DEF BatchOK, RemainingContext
    <2>3. num_context_tokens_processed'[r] =
              num_context_tokens_processed[r] + _scheduled_context_tokens[r]
      BY <1>7, <2>1
    <2>4. num_context_tokens_processed'[r] = ContextLen[r]
      BY <1>8, <2>1, <2>2, <2>3
    <2> QED BY <1>7, <2>1, <2>4
  <1>11. ASSUME NEW r \in Chunking
         PROVE  /\ state'[r] = "CONTEXT_IN_PROGRESS"
                /\ 0 < num_context_tokens_processed'[r]
                /\ num_context_tokens_processed'[r] < ContextLen[r]
    <2>1. r \in Requests /\ r \notin LastChunk
      BY <1>3, <1>9
    <2>2. /\ 0 < _scheduled_context_tokens[r]
          /\ _scheduled_context_tokens[r] < ContextLen[r] - num_context_tokens_processed[r]
      BY <1>2 DEF BatchOK, RemainingContext
    <2>3. num_context_tokens_processed'[r] =
              num_context_tokens_processed[r] + _scheduled_context_tokens[r]
      BY <1>7, <2>1
    <2>4. /\ 0 < num_context_tokens_processed'[r]
          /\ num_context_tokens_processed'[r] < ContextLen[r]
      BY <1>8, <2>1, <2>2, <2>3
    <2> QED BY <1>5, <1>7, <2>1, <2>4
  <1>12. ASSUME NEW r \in Requests \ (Chunking \cup LastChunk)
         PROVE  /\ state'[r] = state[r]
                /\ num_context_tokens_processed'[r] = num_context_tokens_processed[r]
    BY <1>7, <1>8
  <1> QED BY <1>1, <1>2, <1>3, <1>5, <1>6, <1>10, <1>11, <1>12

LEMMA SampleFacts ==
    ASSUME IInv, SampleNext
    PROVE  \E r \in Requests :
              /\ pc = "sample" /\ pc' = pc
              /\ r \in Range(work) /\ work' = Tail(work)
              /\ Range(work) = Range(Tail(work)) \cup {r}
              /\ IsInjective(Tail(work)) /\ r \notin Range(Tail(work))
              /\ state[r] = "GENERATION_IN_PROGRESS" /\ r \in Range(active)
              /\ num_output_tokens[r] < MaxTokens[r]
              /\ num_output_tokens'[r] = num_output_tokens[r] + 1
              /\ \A q \in Requests \ {r} : /\ state'[q] = state[q]
                                           /\ num_output_tokens'[q] = num_output_tokens[q]
              /\ \/ /\ num_output_tokens'[r] < MaxTokens[r]
                    /\ state'[r] = state[r] /\ completed_ids' = completed_ids
                 \/ /\ num_output_tokens'[r] = MaxTokens[r]
                    /\ state'[r] = "GENERATION_COMPLETE"
                    /\ Range(completed_ids') = Range(completed_ids) \cup {r}
              /\ UNCHANGED <<num_context_tokens_processed, scheduler_vars, queue_vars,
                             client_vars, responses, pool_vars>>
  <1>1. /\ pc = "sample" /\ pc' = pc /\ work # <<>> /\ work' = Tail(work)
        /\ UNCHANGED <<num_context_tokens_processed, scheduler_vars, queue_vars,
                       client_vars, responses, pool_vars>>
    BY DEF SampleNext
  <1>2. /\ work \in Seq(Requests) /\ completed_ids \in Seq(Requests)
        /\ num_output_tokens \in [Requests -> Nat] /\ state \in [Requests -> RequestState]
    BY DEF IInv, Types, TypeOK, RequestTypeOK
  <1>3. Sampling
    BY DEF IInv, PhaseOK
  <1>4. PICK r \in Requests : r = Head(work)
    BY <1>1, <1>2, HeadTailProperties
  <1>5. /\ r \in Range(work) /\ Range(work) = Range(Tail(work)) \cup {r}
        /\ IsInjective(Tail(work)) /\ r \notin Range(Tail(work))
    BY <1>1, <1>2, <1>3, <1>4, TailElements DEF Sampling
  <1>6. state[r] = "GENERATION_IN_PROGRESS" /\ r \in Range(active)
    BY <1>1, <1>3, <1>5 DEF Sampling
  <1>7. num_output_tokens[r] \in Nat /\ MaxTokens[r] \in Nat
        /\ num_output_tokens[r] < MaxTokens[r]
    BY <1>2, <1>6, RequestAssumption DEF IInv, ProgressOK, ProgressOf
  <1>8. /\ num_output_tokens' = [num_output_tokens EXCEPT ![r] = @ + 1]
        /\ IF CompleteNow(r)
           THEN /\ state' = [state EXCEPT ![r] = "GENERATION_COMPLETE"]
                /\ completed_ids' = Append(completed_ids, r)
           ELSE UNCHANGED <<state, completed_ids>>
    BY <1>4 DEF SampleNext
  <1>9. CompleteNow(r) <=> num_output_tokens[r] + 1 = MaxTokens[r]
    BY <1>7 DEF CompleteNow, num_tokens_remaining
  <1>10. num_output_tokens'[r] = num_output_tokens[r] + 1
         /\ \A q \in Requests \ {r} : num_output_tokens'[q] = num_output_tokens[q]
    BY <1>2, <1>8
  <1>11. CASE CompleteNow(r)
    <2>1. num_output_tokens'[r] = MaxTokens[r]
      BY <1>9, <1>10, <1>11
    <2>2. /\ state'[r] = "GENERATION_COMPLETE"
          /\ \A q \in Requests \ {r} : state'[q] = state[q]
      BY <1>2, <1>8, <1>11
    <2>3. Range(completed_ids') = Range(completed_ids) \cup {r}
      <3>1. completed_ids' = Append(completed_ids, r)
        BY <1>8, <1>11
      <3>2. completed_ids \in Seq(Requests)
        BY <1>2
      <3>3. Range(Append(completed_ids, r)) = Range(completed_ids) \cup {r}
        BY <3>2, AppendElements
      <3> QED BY <3>1, <3>3
    <2> QED BY <1>1, <1>5, <1>6, <1>7, <1>10, <2>1, <2>2, <2>3
  <1>12. CASE ~CompleteNow(r)
    <2>1. num_output_tokens'[r] < MaxTokens[r]
      BY <1>7, <1>9, <1>10, <1>12
    <2>2. UNCHANGED <<state, completed_ids>>
      BY <1>8, <1>12
    <2> QED BY <1>1, <1>5, <1>6, <1>7, <1>10, <2>1, <2>2
  <1> QED BY <1>11, <1>12

(* A new token is news.                                                     *)
LEMMA NewsWhenSampled ==
    ASSUME IInv, NEW r \in Requests, UNCHANGED responses,
           num_output_tokens'[r] = num_output_tokens[r] + 1
    PROVE  NewsOf(r)'
  <1>1. /\ num_output_tokens[r] \in Nat
        /\ responses[r] \in Seq([tokens : Nat, finished : BOOLEAN])
    BY DEF IInv, Types, TypeOK, RequestTypeOK
  <1>2. \A i \in DOMAIN responses[r] : responses[r][i].tokens \in Nat
    <2>1. \A i \in DOMAIN responses[r] : responses[r][i] \in [tokens : Nat, finished : BOOLEAN]
      BY <1>1, ElementOfSeq, LenProperties
    <2> QED BY <2>1
  <1>3. \A i \in DOMAIN responses[r] : responses[r][i].tokens <= num_output_tokens[r]
    BY DEF IInv, ToldOK, ToldOf
  <1> QED BY <1>1, <1>2, <1>3 DEF NewsOf

LEMMA SamplingStep ==
    ASSUME IInv, [Next]_vars
    PROVE  Sampling'
  <1> SUFFICES ASSUME pc' = "sample" PROVE Sampling'
    BY DEF Sampling
  <1>1. Sampling /\ Decoding \subseteq Requests
    BY ElementsOfSeq DEF IInv, PhaseOK, Types, TypeOK, SchedulerTypeOK, Decoding
  <1>2. CASE Outside
    <2>1. UNCHANGED <<active, state, scheduled, pc, work>>
          /\ \A r \in Requests : NewsOf(r) => NewsOf(r)'
      BY <1>2, OutsideFacts DEF request_vars, scheduler_vars
    <2> QED BY <1>1, <2>1 DEF Sampling, LastChunk, Decoding
  <1>3. CASE Advance
    <2>1. UNCHANGED <<active, scheduled>>
      BY <1>3, AdvanceFacts DEF queue_vars, scheduler_vars
    <2>2. LastChunk' = LastChunk /\ Decoding' = Decoding
      BY <2>1 DEF LastChunk, Decoding
    <2>3. /\ IsInjective(work') /\ Range(work') = LastChunk \cup Decoding
          /\ LastChunk \cup Decoding \subseteq Range(active)
          /\ \A r \in LastChunk : state'[r] = "GENERATION_IN_PROGRESS"
      BY <1>3, AdvanceFacts DEF DecodingOK
    <2>4. \A r \in Decoding : state'[r] = "GENERATION_IN_PROGRESS"
      BY <1>1, <1>3, AdvanceFacts DEF DecodingOK
    <2> QED BY <2>1, <2>2, <2>3, <2>4 DEF Sampling
  <1>4. CASE SampleNext
    <2>1. PICK r \in Requests :
             /\ pc = "sample" /\ r \in Range(work) /\ work' = Tail(work)
             /\ Range(work) = Range(Tail(work)) \cup {r}
             /\ IsInjective(Tail(work)) /\ r \notin Range(Tail(work))
             /\ num_output_tokens'[r] = num_output_tokens[r] + 1
             /\ \A q \in Requests \ {r} : /\ state'[q] = state[q]
                                          /\ num_output_tokens'[q] = num_output_tokens[q]
             /\ UNCHANGED <<scheduler_vars, queue_vars, responses>>
      BY <1>4, SampleFacts
    <2>2. UNCHANGED <<active, scheduled>> /\ LastChunk' = LastChunk /\ Decoding' = Decoding
      BY <2>1 DEF queue_vars, scheduler_vars, LastChunk, Decoding
    <2>3. work \in Seq(Requests) /\ Range(work) \subseteq Requests
      BY ElementsOfSeq DEF IInv, Types, TypeOK
    <2>4. NewsOf(r)'
      BY <2>1, NewsWhenSampled
    <2>5. \A q \in Requests \ {r} : NewsOf(q) => NewsOf(q)'
      BY <2>1 DEF NewsOf
    <2> QED BY <1>1, <2>1, <2>2, <2>3, <2>4, <2>5 DEF Sampling
  <1> QED BY <1>2, <1>3, <1>4, Into

(* What a step of the completions leaves alone.                             *)
LEMMA CompleteFacts ==
    ASSUME IInv, CompleteNext
    PROVE  /\ pc = "complete" /\ pc' = pc /\ work' = Tail(work)
           /\ Head(work) \in Range(completed_ids)
           /\ UNCHANGED <<request_vars, scheduler_vars, waiting, client_vars, local_vars>>
           /\ \A r \in Requests : NewsOf(r) /\ r # Head(work) => NewsOf(r)'
           /\ Range(active') = Range(active) \ {Head(work)}
  <1>1. /\ pc = "complete" /\ pc' = pc /\ work' = Tail(work)
        /\ UNCHANGED <<request_vars, scheduler_vars, waiting, client_vars, local_vars>>
    BY DEF CompleteNext
  <1>2. Types /\ Applied /\ QueuesOK /\ active \in Seq(Requests)
    BY DEF IInv, PhaseOK, Types, TypeOK
  <1>3. Head(work) \in Requests /\ Head(work) \in Range(completed_ids)
    BY <1>1, <1>2, LiveComplete DEF Applied
  <1>4. Range(active') = Range(active) \ {Head(work)}
    <2>1. CASE Head(work) \in Range(active)
      BY <1>2, <2>1, LiveComplete, WithoutElements DEF QueuesOK
    <2>2. CASE Head(work) \notin Range(active)
      BY <1>2, <2>2, LiveComplete
    <2> QED BY <2>1, <2>2
  <1>5. ASSUME NEW r \in Requests, NewsOf(r), r # Head(work) PROVE NewsOf(r)'
    <2>1. responses \in [Requests -> Seq([tokens : Nat, finished : BOOLEAN])]
      BY <1>2 DEF Types, TypeOK
    <2>2. responses'[r] = responses[r]
      BY <1>2, <1>3, <1>5, <2>1, LiveComplete
    <2>3. num_output_tokens' = num_output_tokens
      BY <1>1 DEF request_vars
    <2> QED BY <1>5, <2>2, <2>3 DEF NewsOf
  <1> QED BY <1>1, <1>3, <1>4, <1>5

LEMMA AppliedStep ==
    ASSUME IInv, [Next]_vars
    PROVE  Applied'
  <1> SUFFICES ASSUME pc' \in {"sample", "update", "complete"} PROVE Applied'
    BY DEF Applied
  <1>1. /\ Applied /\ Sampling /\ Decoding \subseteq Requests
        /\ completed_ids \in Seq(Requests) /\ scheduled.generation \in Seq(Requests)
    BY ElementsOfSeq DEF IInv, PhaseOK, Types, TypeOK, SchedulerTypeOK, Decoding
  <1>2. CASE Outside
    <2>1. UNCHANGED <<active, state, scheduled, pc, work, completed_ids>>
          /\ \A r \in Requests : NewsOf(r) => NewsOf(r)'
      BY <1>2, OutsideFacts DEF request_vars, scheduler_vars, local_vars
    <2> QED BY <1>1, <2>1 DEF Applied, Decoding
  <1>3. CASE Advance
    <2>1. UNCHANGED <<active, scheduled>> /\ completed_ids' = <<>> /\ pc' = "sample"
      BY <1>3, AdvanceFacts DEF queue_vars, scheduler_vars
    <2>2. Decoding' = Decoding
      BY <2>1 DEF Decoding
    <2>3. Decoding \subseteq Range(active)
      BY <1>3, AdvanceFacts DEF DecodingOK
    <2>4. \A r \in Decoding : state'[r] = "GENERATION_IN_PROGRESS"
      BY <1>1, <1>3, AdvanceFacts DEF DecodingOK
    <2> QED BY <2>1, <2>2, <2>3, <2>4, EmptyRange DEF Applied
  <1>4. CASE SampleNext
    <2>1. PICK r \in Requests :
             /\ pc = "sample" /\ pc' = pc /\ state[r] = "GENERATION_IN_PROGRESS"
             /\ \A q \in Requests \ {r} : state'[q] = state[q]
             /\ \/ state'[r] = state[r] /\ completed_ids' = completed_ids
                \/ /\ state'[r] = "GENERATION_COMPLETE"
                   /\ Range(completed_ids') = Range(completed_ids) \cup {r}
             /\ UNCHANGED <<scheduler_vars, queue_vars>>
      BY <1>4, SampleFacts
    <2>2. UNCHANGED <<active, scheduled>> /\ Decoding' = Decoding
      BY <2>1 DEF queue_vars, scheduler_vars, Decoding
    <2>3. /\ \A q \in Decoding :
                 state[q] = "GENERATION_IN_PROGRESS" \/ q \in Range(completed_ids)
          /\ \A q \in Range(completed_ids) : state[q] = "GENERATION_COMPLETE"
          /\ Decoding \ Range(completed_ids) \subseteq Range(active)
      BY <1>1, <2>1 DEF Applied
    <2>4. Range(completed_ids) \subseteq Requests
      BY <1>1, ElementsOfSeq
    <2>5. CASE state'[r] = state[r] /\ completed_ids' = completed_ids
      BY <1>1, <2>1, <2>2, <2>3, <2>4, <2>5 DEF Applied
    <2>6. CASE /\ state'[r] = "GENERATION_COMPLETE"
               /\ Range(completed_ids') = Range(completed_ids) \cup {r}
      BY <1>1, <2>1, <2>2, <2>3, <2>4, <2>6 DEF Applied
    <2> QED BY <2>1, <2>5, <2>6
  <1>5. CASE EndSample
    <2>1. /\ pc = "sample" /\ pc' = "update" /\ work = <<>>
          /\ work' = IF HasResourceManager THEN scheduled.generation ELSE <<>>
          /\ UNCHANGED <<active, state, scheduled, completed_ids, responses, num_output_tokens>>
      BY <1>5
         DEF EndSample, others_of_pool, queue_vars, request_vars, scheduler_vars, local_vars
    <2>2. Decoding' = Decoding /\ Range(work') \subseteq Decoding
      BY <2>1, EmptyRange DEF Decoding
    <2>3. Decoding \subseteq Range(active) /\ \A r \in Decoding : NewsOf(r)
      BY <1>1, <2>1, EmptyRange DEF Sampling
    <2>4. \A r \in Decoding : NewsOf(r)'
      BY <2>1, <2>3 DEF NewsOf
    <2> QED BY <1>1, <2>1, <2>2, <2>3, <2>4 DEF Applied
  <1>6. CASE UpdateNext \/ EndUpdate
    <2>1. /\ pc = "update" /\ UNCHANGED others_of_pool
          /\ \/ pc' = "update" /\ Range(work') \subseteq Range(work) /\ work # <<>>
             \/ pc' = "complete" /\ work' = completed_ids
      BY <1>6, UpdateFacts DEF EndUpdate, UpdateNext
    <2>2. /\ UNCHANGED <<active, state, scheduled, completed_ids, responses, num_output_tokens>>
          /\ Decoding' = Decoding
      BY <2>1 DEF others_of_pool, queue_vars, request_vars, scheduler_vars, local_vars, Decoding
    <2>3. \A r \in Decoding : NewsOf(r) => NewsOf(r)'
      BY <2>2 DEF NewsOf
    <2> QED BY <1>1, <2>1, <2>2, <2>3 DEF Applied
  <1>7. CASE AllocateTurn
    BY <1>7, AllocateFacts
  <1>8. CASE CompleteNext
    <2>1. /\ pc = "complete" /\ pc' = pc /\ work' = Tail(work)
          /\ Head(work) \in Range(completed_ids)
          /\ UNCHANGED <<state, scheduled, completed_ids>>
          /\ \A r \in Requests : NewsOf(r) /\ r # Head(work) => NewsOf(r)'
          /\ Range(active') = Range(active) \ {Head(work)}
      BY <1>8, CompleteFacts DEF request_vars, scheduler_vars, local_vars
    <2>2. Range(Tail(work)) \subseteq Range(work)
      BY <1>8, LiveComplete DEF IInv
    <2> QED BY <1>1, <2>1, <2>2 DEF Applied, Decoding
  <1> QED BY <1>2, <1>3, <1>4, <1>5, <1>6, <1>7, <1>8, Into

-----------------------------------------------------------------------------
(* The progress of the requests.                                            *)

LEMMA RequestsStay ==
    [Next]_vars => Advance \/ SampleNext \/ UNCHANGED request_vars
  BY DEF Next, Iteration, enqueue_request, cancel_request, BeginIteration, DropCancelled,
         TakeSnapshot, CollectNext, CallSchedule, RunScheduler, EndSchedule, MoveNext,
         EndMove, PrepareNext, AllocateTurn, AllocateFails, Resume, EndPrepare, ForwardRaises, EndSample,
         UpdateNext, EndUpdate, CompleteNext, Stream, vars, others_of_drop, others_of_pool,
         others_of_raise

(* _waiting only grows by a request that is new.                            *)
LEMMA WaitingStays ==
    ASSUME IInv, [Next]_vars
    PROVE  /\ arrived \subseteq arrived'
           /\ \/ Range(waiting') \subseteq Range(waiting)
              \/ \E r \in Requests : /\ r \notin arrived /\ UNCHANGED request_vars
                                     /\ Range(waiting') = Range(waiting) \cup {r}
  <1>1. waiting \in Seq(Requests) /\ IsInjective(waiting)
    BY DEF IInv, Types, TypeOK, QueuesOK
  <1>2. ASSUME NEW r \in Requests, enqueue_request(r)
        PROVE  /\ r \notin arrived /\ UNCHANGED request_vars /\ arrived \subseteq arrived'
               /\ Range(waiting') = Range(waiting) \cup {r}
    BY <1>1, <1>2, AppendElements DEF enqueue_request
  <1>3. ASSUME NEW r \in Requests, cancel_request(r)
        PROVE  arrived' = arrived /\ Range(waiting') \subseteq Range(waiting)
    BY <1>1, <1>3, WithoutElements DEF cancel_request
  <1>4. CASE DropCancelled
    BY <1>4, DropFacts DEF others_of_drop, client_vars
  <1>5. CASE MoveNext
    BY <1>5, MoveFacts DEF client_vars
  <1>6. CASE CompleteNext
    BY <1>6 DEF CompleteNext, client_vars
  <1>7. CASE Stream
    BY <1>7 DEF Stream, queue_vars, client_vars
  <1>8. CASE QuietStep
    BY <1>8, QuietLive
  <1> QED BY <1>2, <1>3, <1>4, <1>5, <1>6, <1>7, <1>8, StepCases

LEMMA ProgressStep ==
    ASSUME IInv, [Next]_vars
    PROVE  ProgressOK'
  <1>1. /\ ProgressOK /\ QueuesOK /\ Types /\ arrived \subseteq Requests
        /\ Range(waiting) \subseteq Requests
    BY ElementsOfSeq DEF IInv, Types, TypeOK
  <1>2. CASE UNCHANGED request_vars
    <2>1. UNCHANGED <<state, num_context_tokens_processed, num_output_tokens>>
      BY <1>2 DEF request_vars
    <2>2. \A r \in Requests : ProgressOf(r)'
      BY <1>1, <2>1 DEF ProgressOK, ProgressOf
    <2>3. \A r \in Requests : r \notin arrived' => state'[r] = "CONTEXT_INIT"
      BY <1>1, <2>1, WaitingStays DEF ProgressOK
    <2>4. \A r \in Range(waiting') : state'[r] = "CONTEXT_INIT"
      BY <1>1, <2>1, WaitingStays DEF ProgressOK
    <2> QED BY <2>2, <2>3, <2>4 DEF ProgressOK
  <1>3. CASE Advance
    <2>1. /\ UNCHANGED <<num_output_tokens, waiting, arrived>>
          /\ Chunking \cup LastChunk \subseteq Range(active)
          /\ Chunking \cup LastChunk \subseteq Requests
      BY <1>3, AdvanceFacts DEF queue_vars, client_vars
    <2>2. ASSUME NEW r \in Requests PROVE ProgressOf(r)'
      <3>1. /\ ProgressOf(r) /\ num_output_tokens[r] \in Nat
            /\ num_context_tokens_processed[r] \in Nat
            /\ ContextLen[r] \in Nat /\ MaxTokens[r] \in Nat \ {0}
        BY <1>1, RequestAssumption DEF ProgressOK, Types, TypeOK, RequestTypeOK
      <3>2. CASE r \in LastChunk
        <4>1. /\ state[r] \in {"CONTEXT_INIT", "CONTEXT_IN_PROGRESS"}
              /\ state'[r] = "GENERATION_IN_PROGRESS"
              /\ num_context_tokens_processed'[r] = ContextLen[r]
          BY <1>3, <3>2, AdvanceFacts
        <4> QED BY <2>1, <3>1, <4>1 DEF ProgressOf
      <3>3. CASE r \in Chunking
        <4>1. /\ state[r] \in {"CONTEXT_INIT", "CONTEXT_IN_PROGRESS"}
              /\ state'[r] = "CONTEXT_IN_PROGRESS"
              /\ 0 < num_context_tokens_processed'[r]
              /\ num_context_tokens_processed'[r] < ContextLen[r]
          BY <1>3, <3>3, AdvanceFacts
        <4> QED BY <2>1, <3>1, <4>1 DEF ProgressOf
      <3>4. CASE r \notin Chunking \cup LastChunk
        <4>1. /\ state'[r] = state[r]
              /\ num_context_tokens_processed'[r] = num_context_tokens_processed[r]
          BY <1>3, <3>4, AdvanceFacts
        <4> QED BY <2>1, <3>1, <4>1 DEF ProgressOf
      <3> QED BY <3>2, <3>3, <3>4
    <2>3. \A r \in Requests \ Range(active) : state'[r] = state[r]
      BY <1>3, <2>1, AdvanceFacts
    <2>4. Range(active) \subseteq arrived
      BY <1>1 DEF QueuesOK, Live
    <2> QED BY <1>1, <2>1, <2>2, <2>3, <2>4 DEF ProgressOK, QueuesOK
  <1>4. CASE SampleNext
    <2>1. PICK r \in Requests :
             /\ state[r] = "GENERATION_IN_PROGRESS" /\ r \in Range(active)
             /\ num_output_tokens[r] < MaxTokens[r]
             /\ num_output_tokens'[r] = num_output_tokens[r] + 1
             /\ \A q \in Requests \ {r} : /\ state'[q] = state[q]
                                          /\ num_output_tokens'[q] = num_output_tokens[q]
             /\ \/ num_output_tokens'[r] < MaxTokens[r] /\ state'[r] = state[r]
                \/ /\ num_output_tokens'[r] = MaxTokens[r]
                   /\ state'[r] = "GENERATION_COMPLETE"
             /\ UNCHANGED <<num_context_tokens_processed, queue_vars, client_vars>>
      BY <1>4, SampleFacts
    <2>2. UNCHANGED <<waiting, active, arrived>> /\ Range(active) \subseteq arrived
      BY <1>1, <2>1 DEF queue_vars, client_vars, QueuesOK, Live
    <2>3. ASSUME NEW q \in Requests PROVE ProgressOf(q)'
      <3>1. ProgressOf(q)
        BY <1>1 DEF ProgressOK
      <3>2. CASE q = r
        BY <2>1, <3>1, <3>2 DEF ProgressOf
      <3>3. CASE q # r
        BY <2>1, <3>1, <3>3 DEF ProgressOf
      <3> QED BY <3>2, <3>3
    <2> QED BY <1>1, <2>1, <2>2, <2>3 DEF ProgressOK, QueuesOK
  <1> QED BY <1>2, <1>3, <1>4, RequestsStay

-----------------------------------------------------------------------------
(* Complete requests leave in the iteration that completes them.            *)

LEMMA PendingStep ==
    ASSUME IInv, [Next]_vars
    PROVE  PendingOK'
  <1>1. PendingOK /\ active \in Seq(Requests) /\ Range(active) \subseteq Requests
    BY ElementsOfSeq DEF IInv, Types, TypeOK
  <1>2. CASE Outside
    <2>1. UNCHANGED <<active, state, pc, work, completed_ids>>
      BY <1>2, OutsideFacts DEF request_vars, local_vars
    <2> QED BY <1>1, <2>1 DEF PendingOK
  <1>3. CASE DropCancelled
    <2>1. /\ pc = "drop" /\ Range(active') \subseteq Range(active)
          /\ UNCHANGED <<state, pc>>
      BY <1>3, DropFacts DEF others_of_drop, request_vars
    <2> QED BY <1>1, <2>1 DEF PendingOK
  <1>4. CASE MoveNext
    <2>1. /\ pc = "move" /\ UNCHANGED <<state, pc>>
          /\ Range(active') = Range(active) \cup {Head(work)}
          /\ Head(work) \in Chunking \cup LastChunk
      BY <1>4, MoveFacts DEF MoveNext, request_vars
    <2>2. Chunking \cup LastChunk \subseteq Candidates
      BY <2>1 DEF IInv, PhaseOK, Moving, BatchOK
    <2>3. state[Head(work)] # "GENERATION_COMPLETE"
      BY <2>1, <2>2 DEF Candidates
    <2> QED BY <1>1, <2>1, <2>3 DEF PendingOK
  <1>5. CASE Advance
    <2>1. /\ pc = "advance" /\ UNCHANGED active
          /\ \A r \in Requests : state'[r] = "GENERATION_COMPLETE" => state'[r] = state[r]
      BY <1>5, AdvanceFacts DEF queue_vars
    <2> QED BY <1>1, <2>1 DEF PendingOK
  <1>6. CASE SampleNext
    <2>1. PICK r \in Requests :
             /\ pc = "sample" /\ pc' = pc
             /\ \A q \in Requests \ {r} : state'[q] = state[q]
             /\ state[r] = "GENERATION_IN_PROGRESS"
             /\ \/ state'[r] = state[r] /\ completed_ids' = completed_ids
                \/ Range(completed_ids') = Range(completed_ids) \cup {r}
             /\ UNCHANGED queue_vars
      BY <1>6, SampleFacts
    <2>2. UNCHANGED active
      BY <2>1 DEF queue_vars
    <2>3. CASE state'[r] = state[r] /\ completed_ids' = completed_ids
      BY <1>1, <2>1, <2>2, <2>3 DEF PendingOK
    <2>4. CASE Range(completed_ids') = Range(completed_ids) \cup {r}
      BY <1>1, <2>1, <2>2, <2>4 DEF PendingOK
    <2> QED BY <2>1, <2>3, <2>4
  <1>7. CASE EndSample \/ UpdateNext \/ EndUpdate
    <2>1. /\ pc \in {"sample", "update"} /\ UNCHANGED <<active, state, completed_ids>>
          /\ pc' = "update" \/ (pc' = "complete" /\ work' = completed_ids)
      BY <1>7
         DEF EndSample, UpdateNext, EndUpdate, others_of_pool, queue_vars, request_vars,
             local_vars
    <2> QED BY <1>1, <2>1 DEF PendingOK
  <1>8. CASE CompleteNext
    <2>1. /\ pc = "complete" /\ pc' = pc /\ work' = Tail(work) /\ UNCHANGED state
          /\ Range(active') = Range(active) \ {Head(work)}
      BY <1>8, CompleteFacts DEF request_vars
    <2>2. Range(work) = Range(Tail(work)) \cup {Head(work)}
      BY <1>8, LiveComplete DEF IInv
    <2> QED BY <1>1, <2>1, <2>2 DEF PendingOK
  <1>9. CASE Stream
    <2>1. pc = "complete" /\ work = <<>> /\ UNCHANGED <<active, state>>
      BY <1>9 DEF Stream, queue_vars, request_vars
    <2> QED BY <1>1, <2>1, EmptyRange DEF PendingOK
  <1>10. CASE AllocateTurn
    <2>1. pc = "prepare" /\ UNCHANGED <<active, state>>
      BY <1>10, AllocateFacts DEF others_of_pool, queue_vars, request_vars
    <2> QED BY <1>1, <2>1 DEF PendingOK
  <1>11. CASE AllocateFails
    <2>1. pc = "prepare" /\ UNCHANGED <<active, state>>
      <3>1. allocation # BM!Idle
        BY <1>11 DEF AllocateFails, BM!AllocateRaise, BM!Idle
      <3> QED
        BY <1>11, <3>1
           DEF AllocateFails, IInv, TablesOK, others_of_raise, queue_vars, request_vars
    <2> QED BY <1>1, <2>1 DEF PendingOK
  <1>12. CASE BeginIteration \/ TakeSnapshot \/ CollectNext \/ CallSchedule \/ RunScheduler
              \/ EndSchedule \/ EndMove \/ PrepareNext \/ Resume \/ EndPrepare
              \/ ForwardRaises
    <2>1. pc \notin {"sample", "update", "complete"} /\ UNCHANGED <<active, state>>
      BY <1>12
         DEF BeginIteration, TakeSnapshot, CollectNext, CallSchedule, RunScheduler,
             EndSchedule, EndMove, PrepareNext, Resume, EndPrepare, ForwardRaises,
             others_of_drop, others_of_pool, others_of_raise, queue_vars, request_vars
    <2> QED BY <1>1, <2>1 DEF PendingOK
  <1> QED
    BY <1>2, <1>3, <1>4, <1>5, <1>6, <1>7, <1>8, <1>9, <1>10, <1>11, <1>12
       DEF Next, Iteration, Outside

-----------------------------------------------------------------------------
(* The tables.                                                              *)

LEMMA FailsFacts ==
    ASSUME IInv, AllocateFails
    PROVE  /\ pc = "prepare" /\ allocation' = BM!Idle
           /\ UNCHANGED <<active, cancelled, state, block_table>>
  <1>1. allocation # BM!Idle /\ allocation' = BM!Idle
    BY DEF AllocateFails, BM!AllocateRaise, BM!Idle
  <1> QED
    BY <1>1
       DEF AllocateFails, BM!AllocateRaise, IInv, TablesOK, others_of_raise, queue_vars,
           request_vars

LEMMA FreeFacts ==
    ASSUME IInv, CompleteNext
    PROVE  /\ allocation' = allocation
           /\ \A r \in Requests : r # Head(work) => block_table'[r] = block_table[r]
           /\ Head(work) \in Range(active) => block_table'[Head(work)] = <<>>
           /\ Head(work) \notin Range(active) => block_table' = block_table
           /\ ~HasResourceManager => block_table' = block_table
  <1>1. Types /\ TablesOK /\ block_table \in [Requests -> Seq(BM!Blocks)]
    BY DEF IInv, Types, TypeOK
  <1>2. Head(work) \in Requests
    BY <1>1, LiveComplete
  <1>3. CASE Head(work) \notin Range(active)
    BY <1>1, <1>3, LiveComplete DEF pool_vars
  <1>4. CASE Head(work) \in Range(active)
    <2>1. IF HasResourceManager /\ block_table[Head(work)] # <<>>
          THEN BM!Free(Head(work)) ELSE UNCHANGED pool_vars
      BY <1>4, MembersAreRange DEF CompleteNext, free_resources
    <2>2. ASSUME BM!Free(Head(work))
          PROVE  /\ allocation' = allocation
                 /\ block_table' = [block_table EXCEPT ![Head(work)] = <<>>]
      BY <2>2 DEF BM!Free
    <2>3. PICK h \in Requests : h = Head(work)
      BY <1>2
    <2>4. CASE HasResourceManager /\ block_table[h] # <<>>
      <3>1. /\ allocation' = allocation
            /\ block_table' = [block_table EXCEPT ![h] = <<>>]
        BY <2>1, <2>2, <2>3, <2>4
      <3>2. block_table'[h] = <<>> /\ \A r \in Requests : r # h => block_table'[r] = block_table[r]
        BY <1>1, <3>1
      <3> QED BY <1>4, <2>3, <2>4, <3>1, <3>2
    <2>5. CASE ~(HasResourceManager /\ block_table[h] # <<>>)
      <3>1. UNCHANGED <<allocation, block_table>>
        BY <2>1, <2>3, <2>5 DEF pool_vars
      <3>2. block_table[h] = <<>>
        BY <1>1, <2>5 DEF TablesOK
      <3> QED BY <1>4, <2>3, <3>1, <3>2
    <2> QED BY <2>4, <2>5
  <1> QED BY <1>3, <1>4

LEMMA TablesStep ==
    ASSUME IInv, [Next]_vars
    PROVE  TablesOK'
  <1>1. /\ TablesOK /\ QueuesOK /\ Range(active) \subseteq Requests
        /\ \A r \in Requests : Len(block_table[r]) \in Nat
    BY ElementsOfSeq, LenProperties DEF IInv, Types, TypeOK
  <1>2. CASE Outside
    <2>1. UNCHANGED <<active, state, pc, block_table, allocation>>
          /\ cancelled \subseteq cancelled'
      <3>1. UNCHANGED <<active, state, pc, block_table, allocation>>
        BY <1>2, OutsideFacts DEF request_vars, pool_vars
      <3>2. cancelled \subseteq cancelled'
        BY <1>2 DEF Outside, enqueue_request, cancel_request, vars, client_vars
      <3> QED BY <3>1, <3>2
    <2> QED BY <1>1, <2>1 DEF TablesOK, Covered
  <1>3. CASE DropCancelled
    <2>1. /\ pc = "drop" /\ Range(active') \subseteq Range(active)
          /\ Range(active) \ Range(active') \subseteq cancelled
          /\ UNCHANGED <<state, pc, cancelled, block_table, allocation>>
      BY <1>3, DropFacts DEF others_of_drop, request_vars, client_vars, pool_vars
    <2> QED BY <1>1, <2>1 DEF TablesOK, Covered
  <1>4. CASE MoveNext
    <2>1. /\ pc = "move" /\ UNCHANGED <<state, pc, cancelled, block_table, allocation>>
          /\ Range(active') = Range(active) \cup {Head(work)}
          /\ Head(work) \in Chunking \cup LastChunk
      BY <1>4, MoveFacts DEF MoveNext, request_vars, client_vars, pool_vars
    <2>2. Chunking \cup LastChunk \subseteq Candidates
      BY <2>1 DEF IInv, PhaseOK, Moving, BatchOK
    <2>3. Head(work) \in Range(active) \/ state[Head(work)] = "CONTEXT_INIT"
      BY <2>1, <2>2 DEF Candidates
    <2> QED BY <1>1, <2>1, <2>3 DEF TablesOK, Covered
  <1>5. CASE Advance
    <2>1. /\ pc = "advance" /\ UNCHANGED <<active, cancelled, block_table, allocation>>
          /\ \A r \in Requests : state'[r] = state[r] \/ r \in Chunking \cup LastChunk
      BY <1>5, AdvanceFacts DEF queue_vars, client_vars, pool_vars
    <2>2. HasResourceManager => \A r \in Chunking \cup LastChunk : Covered(r)
      BY <2>1 DEF IInv, PhaseOK, Preparing
    <2> QED BY <1>1, <2>1, <2>2 DEF TablesOK, Covered
  <1>6. CASE SampleNext
    <2>1. PICK r \in Requests :
             /\ pc = "sample" /\ state[r] = "GENERATION_IN_PROGRESS" /\ r \in Range(active)
             /\ \A q \in Requests \ {r} : state'[q] = state[q]
             /\ UNCHANGED <<queue_vars, client_vars, pool_vars>>
      BY <1>6, SampleFacts
    <2>2. UNCHANGED <<active, cancelled, block_table, allocation>>
      BY <2>1 DEF queue_vars, client_vars, pool_vars
    <2> QED BY <1>1, <2>1, <2>2 DEF TablesOK, Covered
  <1>7. CASE PrepareNext
    <2>1. /\ pc = "prepare" /\ pc' = pc /\ HasResourceManager
          /\ Head(work) \in Range(active)
          /\ UNCHANGED <<active, cancelled, state, block_table>>
          /\ allocation'.holder = Head(work) \/ allocation' = BM!Idle
      BY <1>7, PrepareFacts DEF others_of_pool, queue_vars, client_vars, request_vars
    <2> QED BY <1>1, <2>1 DEF TablesOK, Covered
  <1>8. CASE AllocateTurn
    <2>1. /\ pc = "prepare" /\ pc' = pc /\ HasResourceManager
          /\ allocation.holder \in Range(active)
          /\ UNCHANGED <<active, cancelled, state>>
          /\ allocation' = BM!Idle \/ allocation'.holder = allocation.holder
      BY <1>8, AllocateFacts DEF others_of_pool, queue_vars, client_vars, request_vars
    <2>2. \A r \in Requests : /\ Len(block_table[r]) \in Nat /\ Len(block_table'[r]) \in Nat
                              /\ Len(block_table[r]) <= Len(block_table'[r])
                              /\ r # allocation.holder => block_table'[r] = block_table[r]
      BY <1>8, AllocateFacts
    <2>3. \A r \in Requests : Covered(r) => Covered(r)'
      BY <2>2, CoveredStays
    <2> QED BY <1>1, <2>1, <2>2, <2>3 DEF TablesOK
  <1>9. CASE AllocateFails
    BY <1>1, <1>9, FailsFacts DEF TablesOK, Covered
  <1>10. CASE UpdateNext
    <2>1. /\ pc = "update" /\ UNCHANGED <<active, cancelled, state, block_table, allocation>>
      BY <1>10, UpdateFacts
         DEF others_of_pool, queue_vars, client_vars, request_vars, pool_vars
    <2> QED BY <1>1, <2>1 DEF TablesOK, Covered
  <1>11. CASE CompleteNext
    <2>1. /\ pc = "complete" /\ UNCHANGED <<state, cancelled>>
          /\ Range(active') = Range(active) \ {Head(work)}
      BY <1>11, CompleteFacts DEF request_vars, client_vars
    <2>2. /\ allocation' = allocation
          /\ \A r \in Requests : r # Head(work) => block_table'[r] = block_table[r]
          /\ Head(work) \in Range(active) => block_table'[Head(work)] = <<>>
          /\ Head(work) \notin Range(active) => block_table' = block_table
          /\ ~HasResourceManager => block_table' = block_table
      BY <1>11, FreeFacts
    <2>3. HasResourceManager =>
              \A r \in Range(active') : state'[r] # "CONTEXT_INIT" => Covered(r)'
      BY <1>1, <2>1, <2>2 DEF TablesOK, Covered
    <2>4. \A r \in Requests :
              block_table'[r] # <<>> => r \in Range(active') \/ r \in cancelled'
      BY <1>1, <2>1, <2>2 DEF TablesOK
    <2> QED BY <1>1, <2>1, <2>2, <2>3, <2>4 DEF TablesOK
  <1>12. CASE BeginIteration \/ TakeSnapshot \/ CollectNext \/ CallSchedule \/ RunScheduler
              \/ EndSchedule \/ EndMove \/ Resume \/ EndPrepare \/ ForwardRaises
              \/ EndSample \/ EndUpdate \/ Stream
    <2>1. UNCHANGED <<active, cancelled, state, block_table, allocation>>
      BY <1>12
         DEF BeginIteration, TakeSnapshot, CollectNext, CallSchedule, RunScheduler,
             EndSchedule, EndMove, Resume, EndPrepare, ForwardRaises, EndSample, EndUpdate,
             Stream, others_of_drop, others_of_pool, others_of_raise, queue_vars,
             client_vars, request_vars, pool_vars
    <2>2. pc # "prepare" \/ allocation = BM!Idle
      BY <1>12
         DEF BeginIteration, TakeSnapshot, CollectNext, CallSchedule, RunScheduler,
             EndSchedule, EndMove, Resume, EndPrepare, ForwardRaises, EndSample,
             EndUpdate, Stream
    <2> QED BY <1>1, <2>1, <2>2 DEF TablesOK, Covered
  <1> QED
    BY <1>2, <1>3, <1>4, <1>5, <1>6, <1>7, <1>8, <1>9, <1>10, <1>11, <1>12
       DEF Next, Iteration, Outside

-----------------------------------------------------------------------------
(* What the clients are told.                                               *)

LEMMA ToldAppend ==
    ASSUME IInv, NEW r \in Requests, NEW f \in BOOLEAN, NewsOf(r), r \in Live,
           f <=> num_output_tokens[r] = MaxTokens[r],
           responses'[r] = Append(responses[r], Output(r, f)),
           num_output_tokens'[r] = num_output_tokens[r]
    PROVE  ToldOf(r)'
  <1> DEFINE s == responses[r]
             t == responses'[r]
             n == Len(responses[r])
             out == num_output_tokens[r]
  <1>1. /\ s \in Seq([tokens : Nat, finished : BOOLEAN]) /\ out \in Nat
        /\ ToldOf(r) /\ MaxTokens[r] \in Nat
    BY RequestAssumption DEF IInv, Types, TypeOK, RequestTypeOK, ToldOK
  <1>2. Output(r, f) \in [tokens : Nat, finished : BOOLEAN]
        /\ Output(r, f).tokens = out /\ Output(r, f).finished = f
    BY <1>1 DEF Output
  <1>3. /\ n \in Nat /\ DOMAIN s = 1 .. n /\ DOMAIN t = 1 .. n + 1 /\ Len(t) = n + 1
        /\ \A i \in 1 .. n : t[i] = s[i]
        /\ t[n + 1] = Output(r, f)
    BY <1>1, <1>2, AppendProperties, LenProperties
  <1>4. \A i \in 1 .. n : s[i].tokens \in Nat /\ s[i].finished \in BOOLEAN
    <2>1. \A i \in 1 .. n : s[i] \in [tokens : Nat, finished : BOOLEAN]
      BY <1>1, <1>3, ElementOfSeq
    <2> QED BY <2>1
  <1>5. \A i \in 1 .. n : ~s[i].finished
    BY <1>3, LiveIs DEF Ended
  <1>6. \A i \in 1 .. n : /\ s[i].tokens < out
                          /\ s[i].tokens # MaxTokens[r]
                          /\ \A j \in 1 .. i - 1 : s[j].tokens < s[i].tokens
    BY <1>1, <1>3, <1>5 DEF NewsOf, ToldOf
  <1>7. t[n + 1].tokens = out /\ (t[n + 1].finished <=> out = MaxTokens[r])
    BY <1>2, <1>3
  <1> HIDE DEF s, t, n, out
  <1>8. ASSUME NEW i \in 1 .. n + 1
        PROVE  /\ \A j \in 1 .. i - 1 : t[j].tokens < t[i].tokens
               /\ t[i].finished <=> t[i].tokens = MaxTokens[r]
               /\ t[i].finished => i = n + 1
               /\ t[i].tokens <= out
    <2>1. CASE i \in 1 .. n
      <3>1. \A j \in 1 .. i - 1 : j \in 1 .. n
        BY <1>3, <2>1
      <3>2. t[i] = s[i] /\ \A j \in 1 .. i - 1 : t[j] = s[j]
        BY <1>3, <2>1, <3>1
      <3>3. /\ ~s[i].finished /\ s[i].tokens < out /\ s[i].tokens # MaxTokens[r]
            /\ \A j \in 1 .. i - 1 : s[j].tokens < s[i].tokens
        BY <1>5, <1>6, <2>1
      <3>4. s[i].tokens <= out
        BY <1>1, <1>4, <2>1, <3>3
      <3> QED BY <3>2, <3>3, <3>4
    <2>2. CASE i = n + 1
      <3>1. \A j \in 1 .. i - 1 : j \in 1 .. n /\ t[j] = s[j]
        BY <1>3, <2>2
      <3>2. t[i].tokens = out /\ (t[i].finished <=> out = MaxTokens[r])
        BY <1>7, <2>2
      <3>3. \A j \in 1 .. i - 1 : t[j].tokens < out
        BY <1>6, <3>1
      <3> QED BY <1>1, <2>2, <3>2, <3>3
    <2> QED BY <1>3, <2>1, <2>2
  <1> QED BY <1>3, <1>8 DEF ToldOf, t, out

LEMMA ToldSame ==
    ASSUME IInv, NEW r \in Requests, responses'[r] = responses[r],
           num_output_tokens'[r] \in Nat, num_output_tokens[r] <= num_output_tokens'[r]
    PROVE  ToldOf(r)'
  <1>1. /\ ToldOf(r) /\ num_output_tokens[r] \in Nat
        /\ responses[r] \in Seq([tokens : Nat, finished : BOOLEAN])
    BY DEF IInv, ToldOK, Types, TypeOK, RequestTypeOK
  <1>2. \A i \in DOMAIN responses[r] : responses[r][i].tokens \in Nat
    <2>1. \A i \in DOMAIN responses[r] : responses[r][i] \in [tokens : Nat, finished : BOOLEAN]
      BY <1>1, ElementOfSeq, LenProperties
    <2> QED BY <2>1
  <1> QED BY <1>1, <1>2 DEF ToldOf

LEMMA ToldStep ==
    ASSUME IInv, [Next]_vars
    PROVE  ToldOK'
  <1> SUFFICES ASSUME NEW r \in Requests PROVE ToldOf(r)'
    BY DEF ToldOK
  <1>1. /\ Types /\ responses \in [Requests -> Seq([tokens : Nat, finished : BOOLEAN])]
        /\ num_output_tokens[r] \in Nat /\ MaxTokens[r] \in Nat
    BY RequestAssumption DEF IInv, Types, TypeOK, RequestTypeOK
  <1>2. CASE SampleNext
    <2>1. PICK h \in Requests :
             /\ num_output_tokens'[h] = num_output_tokens[h] + 1
             /\ \A q \in Requests \ {h} : num_output_tokens'[q] = num_output_tokens[q]
             /\ UNCHANGED responses
      BY <1>2, SampleFacts
    <2>2. num_output_tokens'[r] \in {num_output_tokens[r], num_output_tokens[r] + 1}
      BY <2>1
    <2> QED BY <1>1, <2>1, <2>2, ToldSame
  <1>3. CASE Advance
    BY <1>1, <1>3, AdvanceFacts, ToldSame
  <1>4. CASE UNCHANGED request_vars
    <2>1. num_output_tokens'[r] = num_output_tokens[r]
      BY <1>4 DEF request_vars
    <2>2. CASE responses'[r] = responses[r]
      BY <1>1, <2>1, <2>2, ToldSame
    <2>3. ASSUME NEW q \in Requests, enqueue_request(q) PROVE ToldOf(r)'
      <3>1. responses'[r] = responses[r] \/ responses'[r] = <<>>
        BY <1>1, <2>3 DEF enqueue_request
      <3>2. CASE responses'[r] = <<>>
        BY <3>2 DEF ToldOf
      <3> QED BY <2>2, <3>1, <3>2
    <2>4. CASE CompleteNext
      <3>1. CASE Head(work) \notin Range(active) \/ r # Head(work)
        <4>1. responses'[r] = responses[r]
          BY <1>1, <2>4, <3>1, LiveComplete
        <4> QED BY <2>2, <4>1
      <3>2. CASE Head(work) \in Range(active) /\ r = Head(work)
        <4>1. responses'[r] = Append(responses[r], Output(r, TRUE))
          BY <1>1, <2>4, <3>2, LiveComplete
        <4>2. r \in Live /\ state[r] = "GENERATION_COMPLETE"
          BY <2>4, <3>2, CompleteFacts DEF IInv, QueuesOK, PhaseOK, Applied
        <4>3. num_output_tokens[r] = MaxTokens[r]
          BY <4>2 DEF IInv, ProgressOK, ProgressOf
        <4>4. NewsOf(r)
          <5>1. \A i \in DOMAIN responses[r] :
                    /\ responses[r][i].tokens \in Nat
                    /\ responses[r][i].tokens <= num_output_tokens[r]
                    /\ responses[r][i].tokens # MaxTokens[r]
            <6>1. \A i \in DOMAIN responses[r] : ~responses[r][i].finished
              BY <4>2, LiveIs DEF Ended
            <6>2. \A i \in DOMAIN responses[r] : responses[r][i].tokens \in Nat
              <7>1. \A i \in DOMAIN responses[r] :
                        responses[r][i] \in [tokens : Nat, finished : BOOLEAN]
                BY <1>1, ElementOfSeq, LenProperties
              <7> QED BY <7>1
            <6> QED BY <6>1, <6>2 DEF IInv, ToldOK, ToldOf
          <5> QED BY <1>1, <4>3, <5>1 DEF NewsOf
        <4> QED BY <2>1, <4>1, <4>2, <4>3, <4>4, ToldAppend
      <3> QED BY <3>1, <3>2
    <2>5. CASE Stream
      <3>1. CASE ~Streamed(r)
        <4>1. responses'[r] = responses[r]
          BY <2>5, <3>1 DEF Stream
        <4> QED BY <2>2, <4>1
      <3>2. CASE Streamed(r)
        <4>1. responses'[r] = Append(responses[r], Output(r, FALSE))
          BY <2>5, <3>2 DEF Stream
        <4>2. r \in Decoding \ Range(completed_ids)
          BY <3>2, MembersAreRange DEF Streamed, Decoding
        <4>3. /\ NewsOf(r) /\ r \in Range(active) /\ state[r] = "GENERATION_IN_PROGRESS"
          BY <2>5, <4>2 DEF Stream, IInv, PhaseOK, Applied
        <4>4. r \in Live
          BY <4>3 DEF IInv, QueuesOK
        <4>5. num_output_tokens[r] < MaxTokens[r]
          BY <4>3 DEF IInv, ProgressOK, ProgressOf
        <4>6. FALSE <=> num_output_tokens[r] = MaxTokens[r]
          BY <1>1, <4>5
        <4> QED BY <2>1, <4>1, <4>3, <4>4, <4>6, ToldAppend
      <3> QED BY <3>1, <3>2
    <2>6. CASE \/ \E q \in Requests : cancel_request(q)
               \/ DropCancelled \/ MoveNext \/ QuietStep
      <3>1. UNCHANGED responses
        BY <2>6, QuietLive DEF cancel_request, DropCancelled, MoveNext, others_of_drop
      <3> QED BY <2>2, <3>1
    <2> QED BY <2>3, <2>4, <2>5, <2>6, StepCases
  <1> QED BY <1>2, <1>3, <1>4, RequestsStay

-----------------------------------------------------------------------------
(* The inductive invariant, and what follows from it.                       *)

LEMMA InitIInv == Init => IInv
  <1> SUFFICES ASSUME Init PROVE IInv
    OBVIOUS
  <1>1. Types
    BY InitTypes
  <1>2. /\ waiting = <<>> /\ active = <<>> /\ arrived = {} /\ pc = "idle"
        /\ responses = [r \in Requests |-> <<>>]
        /\ state = [r \in Requests |-> "CONTEXT_INIT"]
        /\ num_context_tokens_processed = [r \in Requests |-> 0]
        /\ num_output_tokens = [r \in Requests |-> 0]
        /\ block_table = [r \in Requests |-> <<>>] /\ allocation = BM!Idle
    BY DEF Init, RequestInit, BM!Init
  <1>3. QueuesOK
    BY <1>2, EmptyRange DEF QueuesOK, Live
  <1>4. ProgressOK
    BY <1>2, EmptyRange DEF ProgressOK, ProgressOf
  <1>5. PendingOK
    BY <1>2, EmptyRange DEF PendingOK
  <1>6. TablesOK
    BY <1>2, EmptyRange DEF TablesOK
  <1>7. ToldOK
    BY <1>2 DEF ToldOK, ToldOf
  <1>8. PhaseOK
    BY <1>2 DEF PhaseOK, Collecting, Scheduling, Moving, Preparing, Sampling, Applied
  <1> QED BY <1>1, <1>3, <1>4, <1>5, <1>6, <1>7, <1>8 DEF IInv

LEMMA StepIInv == IInv /\ [Next]_vars => IInv'
  <1> SUFFICES ASSUME IInv, [Next]_vars PROVE IInv'
    OBVIOUS
  <1>1. Types'
    BY StepTypes DEF IInv
  <1>2. QueuesOK' /\ ProgressOK' /\ PendingOK' /\ TablesOK' /\ ToldOK'
    BY QueuesStep, ProgressStep, PendingStep, TablesStep, ToldStep
  <1>3. PhaseOK'
    BY CollectingStep, SchedulingStep, MovingStep, PreparingStep, SamplingStep, AppliedStep
       DEF PhaseOK
  <1> QED BY <1>1, <1>2, <1>3 DEF IInv

(* No request is lost, doubled or revived by enqueue_request,               *)
(* cancel_request, the copy of _waiting made under the lock, the move to    *)
(* _active and the removal at completion, whatever comes in between.        *)
THEOREM QueuesPartition == Spec => []InOneQueue
  <1>1. ASSUME IInv PROVE InOneQueue
    <2> DEFINE all == waiting \o active
    <2>1. /\ QueuesOK /\ waiting \in Seq(Requests) /\ active \in Seq(Requests)
      BY <1>1 DEF IInv, Types, TypeOK
    <2>2. /\ IsInjective(all) /\ Range(all) = Range(waiting) \cup Range(active)
      BY <2>1, ConcatElements DEF QueuesOK
    <2>3. Distinct(all)
      BY <2>2 DEF Distinct, IsInjective
    <2>4. Members(all) = Range(waiting) \cup Range(active)
      BY <2>2, MembersAreRange
    <2> HIDE DEF all
    <2>5. \A r \in arrived : Finished(r) \/ r \in cancelled \/ r \in Members(all)
      BY <2>1, <2>4 DEF QueuesOK, Live
    <2>6. \A r \in Members(all) : ~Finished(r)
      BY <2>1, <2>4 DEF QueuesOK, Live
    <2> QED BY <2>3, <2>5, <2>6 DEF InOneQueue, all
  <1> QED BY <1>1, InitIInv, StepIInv, PTL DEF Spec

(* Decoding starts with the whole prompt processed, once, and stops at      *)
(* max_tokens, whatever chunks the scheduler made of the prompt.            *)
THEOREM PrefillComplete == Spec => []PrefillBeforeDecode
  <1>1. ASSUME IInv PROVE PrefillBeforeDecode
    <2> SUFFICES ASSUME NEW r \in Requests
                 PROVE  /\ num_context_tokens_processed[r] <= ContextLen[r]
                        /\ is_generation_phase(r) =>
                               num_context_tokens_processed[r] = ContextLen[r]
                        /\ num_output_tokens[r] > 0 => is_generation_phase(r)
                        /\ num_output_tokens[r] <= MaxTokens[r]
      BY DEF PrefillBeforeDecode
    <2>1. /\ ProgressOf(r) /\ state[r] \in RequestState
          /\ num_context_tokens_processed[r] \in Nat /\ num_output_tokens[r] \in Nat
          /\ ContextLen[r] \in Nat /\ MaxTokens[r] \in Nat
      BY <1>1, RequestAssumption DEF IInv, ProgressOK, Types, TypeOK, RequestTypeOK
    <2> QED BY <2>1 DEF ProgressOf, RequestState, is_generation_phase
  <1> QED BY <1>1, InitIInv, StepIInv, PTL DEF Spec

(* A request in generation has blocks for all its tokens: the allocation at *)
(* its first chunk is the last one it needs.                                *)
THEOREM TablesCover == Spec => []TableCovers
  <1>1. ASSUME IInv PROVE TableCovers
    <2> SUFFICES ASSUME HasResourceManager, NEW r \in Members(active), is_generation_phase(r)
                 PROVE  Len(block_table[r]) * block_size >= ContextLen[r] + MaxTokens[r]
      BY DEF TableCovers
    <2>1. r \in Requests /\ r \in Range(active)
      BY <1>1, MembersAreRange, ElementsOfSeq DEF IInv, Types, TypeOK
    <2>2. Covered(r)
      BY <1>1, <2>1 DEF IInv, TablesOK, is_generation_phase
    <2>3. Len(block_table[r]) * block_size \in Nat /\ ContextLen[r] + MaxTokens[r] \in Nat
      <3>1. Len(block_table[r]) \in Nat
        BY <1>1, <2>1, LenProperties DEF IInv, Types, TypeOK
      <3> QED BY <2>1, <3>1, SchedulerAssumption, RequestAssumption
    <2> DEFINE have == Len(block_table[r]) * block_size
               want == ContextLen[r] + MaxTokens[r]
    <2>4. want <= have
      BY <2>2 DEF Covered
    <2> HIDE DEF have, want
    <2>5. have >= want
      BY <2>3, <2>4 DEF have, want
    <2> QED BY <2>5 DEF have, want
  <1> QED BY <1>1, InitIInv, StepIInv, PTL DEF Spec

(* What a client hears of a request: ever more tokens, and finished last.   *)
THEOREM ToldInOrder == Spec => []ResponsesInOrder
  <1>1. ASSUME IInv PROVE ResponsesInOrder
    BY <1>1 DEF IInv, ToldOK, ToldOf, ResponsesInOrder
  <1> QED BY <1>1, InitIInv, StepIInv, PTL DEF Spec

(* Blocks are held by active requests, or by cancelled ones: nothing else   *)
(* keeps a table.                                                           *)
THEOREM BlocksAreActive == Spec => []BlocksOfActive
  <1>1. ASSUME IInv PROVE BlocksOfActive
    BY <1>1, MembersAreRange DEF IInv, TablesOK, BlocksOfActive
  <1> QED BY <1>1, InitIInv, StepIInv, PTL DEF Spec

(* transition_to is never asked for a transition that is not valid.         *)
THEOREM TransitionsValid == Spec => TransitionsLegal
  <1> DEFINE Legal(r) ==
          state'[r] # state[r] =>
              \/ state'[r] \in VALID_TRANSITIONS(state[r])
              \/ state[r] = "CONTEXT_INIT" /\ state'[r] = "GENERATION_IN_PROGRESS"
             Step == \A r \in Requests : Legal(r)
  <1>1. IInv /\ [Next]_vars => [Step]_vars
    <2> SUFFICES ASSUME IInv, [Next]_vars, NEW r \in Requests PROVE Legal(r)
      OBVIOUS
    <2>1. CASE UNCHANGED request_vars
      BY <2>1 DEF request_vars
    <2>2. CASE Advance
      <3>1. CASE r \in LastChunk
        <4>1. /\ state[r] \in {"CONTEXT_INIT", "CONTEXT_IN_PROGRESS"}
              /\ state'[r] = "GENERATION_IN_PROGRESS"
          BY <2>2, <3>1, AdvanceFacts
        <4> QED BY <4>1 DEF VALID_TRANSITIONS
      <3>2. CASE r \in Chunking
        <4>1. /\ state[r] \in {"CONTEXT_INIT", "CONTEXT_IN_PROGRESS"}
              /\ state'[r] = "CONTEXT_IN_PROGRESS"
          BY <2>2, <3>2, AdvanceFacts
        <4> QED BY <4>1 DEF VALID_TRANSITIONS
      <3>3. CASE r \notin Chunking \cup LastChunk
        BY <2>2, <3>3, AdvanceFacts
      <3> QED BY <3>1, <3>2, <3>3
    <2>3. CASE SampleNext
      <3>1. PICK h \in Requests :
               /\ state[h] = "GENERATION_IN_PROGRESS"
               /\ \A q \in Requests \ {h} : state'[q] = state[q]
               /\ state'[h] = state[h] \/ state'[h] = "GENERATION_COMPLETE"
        BY <2>3, SampleFacts
      <3> QED BY <3>1 DEF VALID_TRANSITIONS
    <2> QED BY <2>1, <2>2, <2>3, RequestsStay
  <1> QED BY <1>1, InitIInv, StepIInv, PTL DEF Spec, TransitionsLegal

-----------------------------------------------------------------------------
(* The steps that reach the pool.                                          *)

LEMMA PoolStays ==
    [Next]_vars => \/ PrepareNext \/ AllocateTurn \/ AllocateFails \/ UpdateNext
                   \/ CompleteNext \/ UNCHANGED pool_vars
  BY DEF Next, Iteration, enqueue_request, cancel_request, BeginIteration, DropCancelled,
         TakeSnapshot, CollectNext, CallSchedule, RunScheduler, EndSchedule, MoveNext,
         EndMove, Resume, EndPrepare, ForwardRaises, Advance, SampleNext, EndSample,
         EndUpdate, Stream, vars, others_of_drop

-----------------------------------------------------------------------------
(* What GUARANTEED_NO_EVICT guarantees: as long as no request is cancelled  *)
(* and if the scheduler counts no more blocks than there are, the blocks of *)
(* the admitted requests are there when prepare_resources asks for them.    *)

Promised == policy.capacity = "GUARANTEED_NO_EVICT" /\ cancelled = {}

needs == [r \in Requests |-> _blocks_needed(ContextLen[r] + MaxTokens[r])]

(* Every block is free or in one table.                                     *)
Counted == Len(free_block_ids) + CellCount(Requests, tables) = NumBlocks

Reserved == CellCount(Range(admitted), needs) <= Len(free_block_ids)

ScheduleRoom ==
    pc = "schedule" =>
        /\ IsInjective(scheduled.context_chunking)
        /\ tier = "capacity" =>
               blocks_used + Len(free_block_ids)
                   = NumBlocks + CellCount(Range(admitted), needs)
        /\ tier = "microbatch" => Range(todo) \subseteq Range(admitted)
        /\ Chunking \cup LastChunk \subseteq Range(admitted)
        /\ Reserved

MoveRoom ==
    pc = "move" =>
        /\ IsInjective(scheduled.context_chunking)
        /\ Chunking \cup LastChunk \subseteq Range(admitted)
        /\ Reserved

(* Requests whose allocate() has not been called yet, and what the running  *)
(* call has still to take.                                                  *)
Unserved == {r \in Range(work) : state[r] = "CONTEXT_INIT"}
Owed == IF allocation = BM!Idle THEN 0 ELSE allocation.arg

PrepareRoom ==
    pc = "prepare" =>
        IsInjective(work) /\ CellCount(Unserved, needs) + Owed <= Len(free_block_ids)

RoomOK ==
    /\ Promised /\ ~errors.allocate
    /\ Counted /\ ScheduleRoom /\ MoveRoom /\ PrepareRoom

LEMMA NeedsType ==
    \A r \in Requests : /\ needs[r] \in Nat
                        /\ needs[r] = get_needed_resource_to_completion(r)
  BY BlocksNeeded, RequestAssumption DEF needs, get_needed_resource_to_completion

LEMMA NeedsFinite ==
    ASSUME NEW S, S \subseteq Requests
    PROVE  IsFiniteSet(Cells(S, needs)) /\ CellCount(S, needs) \in Nat
  <1>1. IsFiniteSet(S)
    <2>1. S \in SUBSET Requests
      OBVIOUS
    <2> QED BY <2>1, RequestAssumption, FS_Subset
  <1>2. \A r \in S : needs[r] \in Nat
    BY NeedsType
  <1> QED BY <1>1, <1>2, CellsFinite

LEMMA InitRoom == Init /\ Promised => RoomOK
  <1> SUFFICES ASSUME Init, Promised PROVE RoomOK
    OBVIOUS
  <1>1. NumBlocks \in Nat
    BY ExecutorAssumption
  <1>2. Len(free_block_ids) = NumBlocks
    <2>1. /\ free_block_ids = [i \in 1 .. NumBlocks |-> i - 1]
          /\ free_block_ids \in Seq(BM!Blocks)
      BY InitTypes DEF Init, BM!Init, BM!AllFree, Types, TypeOK
    <2>2. DOMAIN free_block_ids = 1 .. NumBlocks
      BY <2>1
    <2> QED BY <1>1, <2>1, <2>2, LenProperties
  <1>3. CellCount(Requests, tables) = 0
    <2>1. block_table = [r \in Requests |-> <<>>]
      BY DEF Init, BM!Init
    <2>2. \A r \in Requests : tables[r] = 0
      BY <2>1, EmptySeq DEF tables
    <2>3. Cells(Requests, tables) = {}
      BY <2>2 DEF Cells
    <2> QED BY <2>3, FS_EmptySet DEF CellCount
  <1>4. Counted
    BY <1>1, <1>2, <1>3 DEF Counted
  <1> QED
    BY <1>4
       DEF Init, SchedulerInit, RoomOK, ScheduleRoom, MoveRoom, PrepareRoom

(* A cancelled request stays cancelled, and no step changes the policy.     *)
LEMMA PromisedBefore ==
    ASSUME [Next]_vars, Promised'
    PROVE  Promised
  <1>1. cancelled \subseteq cancelled'
    BY StepCases, QuietStepKeeps
       DEF enqueue_request, cancel_request, DropCancelled, MoveNext, CompleteNext, Stream,
           others_of_drop, client_vars
  <1>2. UNCHANGED scheduler_vars \/ CallSchedule \/ RunScheduler
    BY DEF Next, Iteration, enqueue_request, cancel_request, BeginIteration, DropCancelled,
           TakeSnapshot, CollectNext, EndSchedule, MoveNext, EndMove, PrepareNext,
           AllocateTurn, AllocateFails, Resume, EndPrepare, ForwardRaises, Advance,
           SampleNext, EndSample, UpdateNext, EndUpdate, CompleteNext, Stream, vars,
           others_of_drop, others_of_pool, others_of_raise
  <1>3. policy' = policy
    BY <1>2
       DEF scheduler_vars, CallSchedule, RunScheduler, ScheduleCall, ScheduleStep, AdmitNext,
           StartMicrobatch, ChunkNext, EndMicrobatch
  <1> QED BY <1>1, <1>3 DEF Promised

(* allocate() finds its blocks.                                             *)
LEMMA NeverFails ==
    ASSUME IInv, RoomOK
    PROVE  ~AllocateFails
  <1> SUFFICES ASSUME AllocateFails PROVE FALSE
    OBVIOUS
  <1>1. /\ allocation.call = "allocate" /\ ~(Len(free_block_ids) >= allocation.arg)
        /\ allocation # BM!Idle
    BY DEF AllocateFails, BM!AllocateRaise, BM!Exhausted, BM!can_allocate, BM!Wanted, BM!Idle
  <1>2. /\ allocation.arg \in Nat /\ Len(free_block_ids) \in Nat
        /\ work \in Seq(Requests)
    BY <1>1, LenProperties DEF IInv, Types, AllocationRuns, TypeOK
  <1>3. CellCount(Unserved, needs) \in Nat
    BY <1>2, ElementsOfSeq, NeedsFinite DEF Unserved
  <1>4. pc = "prepare"
    BY <1>1 DEF IInv, TablesOK
  <1>5. CellCount(Unserved, needs) + allocation.arg <= Len(free_block_ids)
    BY <1>1, <1>4 DEF RoomOK, PrepareRoom, Owed
  <1> QED BY <1>1, <1>2, <1>3, <1>5

LEMMA NotRaised ==
    ASSUME IInv, RoomOK, [Next]_vars
    PROVE  ~errors'.allocate
  <1>1. errors \in [allocate : BOOLEAN, forward : Nat] /\ ~errors.allocate
    BY DEF IInv, Types, TypeOK, RoomOK
  <1>2. CASE ForwardRaises
    BY <1>1, <1>2 DEF ForwardRaises
  <1>3. CASE errors' = errors
    BY <1>1, <1>3
  <1> QED
    BY <1>2, <1>3, NeverFails
       DEF Next, Iteration, enqueue_request, cancel_request, BeginIteration,
           DropCancelled, TakeSnapshot, CollectNext, CallSchedule, RunScheduler, EndSchedule,
           MoveNext, EndMove, PrepareNext, AllocateTurn, Resume, EndPrepare, Advance,
           SampleNext, EndSample, UpdateNext, EndUpdate, CompleteNext, Stream, vars,
           others_of_drop, others_of_pool, client_vars

(* A block that is popped goes to a table, and the blocks of a table go     *)
(* back.                                                                    *)
LEMMA CountedStep ==
    ASSUME IInv, RoomOK, [Next]_vars
    PROVE  Counted'
  <1>1. /\ Counted /\ Types /\ block_table \in [Requests -> Seq(BM!Blocks)]
        /\ free_block_ids \in Seq(BM!Blocks) /\ Len(free_block_ids) \in Nat
        /\ NumBlocks \in Nat /\ IsFiniteSet(Requests)
    BY LenProperties, ExecutorAssumption, RequestAssumption DEF RoomOK, IInv, Types, TypeOK
  <1>2. \A r \in Requests : tables[r] \in Nat /\ tables[r] = Len(block_table[r])
    BY <1>1, TablesType
  <1>3. Types'
    BY <1>1, StepTypes
  <1>4. \A r \in Requests : tables'[r] \in Nat /\ tables'[r] = Len(block_table'[r])
    BY <1>3, LenProperties DEF tables, Types, TypeOK
  <1>5. CellCount(Requests, tables) \in Nat /\ CellCount(Requests, tables') \in Nat
    BY <1>1, <1>2, <1>4, CellsFinite
  <1>6. ASSUME UNCHANGED <<free_block_ids, block_table>> PROVE Counted'
    BY <1>1, <1>6 DEF Counted, tables
  <1>7. CASE AllocateTurn
    <2>1. PICK h \in Requests : h = allocation.holder
      BY <1>7, AllocateFacts
    <2>2. Len(block_table'[h]) = Len(block_table[h]) + 1
          /\ \A q \in Requests : q # h => block_table'[q] = block_table[q]
      BY <1>7, <2>1, AllocateFacts
    <2>3. tables'[h] = tables[h] + 1 /\ \A q \in Requests : q # h => tables'[q] = tables[q]
      BY <1>2, <1>4, <2>2
    <2>4. CellCount(Requests, tables') + tables[h] = CellCount(Requests, tables) + tables'[h]
      <3> DEFINE before == tables
                 after == tables'
      <3>1. /\ \A q \in Requests : before[q] \in Nat /\ after[q] \in Nat
            /\ \A q \in Requests : q # h => after[q] = before[q]
        BY <1>2, <1>4, <2>3
      <3>2. IsFiniteSet(Requests) /\ h \in Requests
        BY <1>1, <2>1
      <3> HIDE DEF before, after
      <3>3. CellCount(Requests, after) + before[h] = CellCount(Requests, before) + after[h]
        BY <3>1, <3>2, CountChange
      <3> QED BY <3>3 DEF before, after
    <2>5. Len(free_block_ids') = Len(free_block_ids) - 1 /\ Len(free_block_ids) > 0
      <3>1. free_block_ids' = Tail(free_block_ids) /\ Len(free_block_ids) >= allocation.arg
        BY <1>7 DEF AllocateTurn, BM!AllocatePop, BM!Pop, BM!can_allocate
      <3>2. allocation.arg \in Nat \ {0}
        BY <1>7, AllocateFacts
      <3>3. free_block_ids # <<>> /\ Len(free_block_ids) > 0
        BY <1>1, <3>1, <3>2, EmptySeq
      <3> QED BY <1>1, <3>1, <3>3, HeadTailProperties
    <2>6. tables[h] \in Nat
      BY <1>2
    <2>7. CellCount(Requests, tables') = CellCount(Requests, tables) + 1
      BY <1>5, <2>3, <2>4, <2>6
    <2>8. Len(free_block_ids') + CellCount(Requests, tables') = NumBlocks
      BY <1>1, <1>5, <2>5, <2>7 DEF Counted
    <2> QED BY <2>8 DEF Counted
  <1>8. CASE CompleteNext
    <2>1. PICK r \in Requests : r = Head(work)
      BY <1>1, <1>8, LiveComplete
    <2>2. BM!Free(r) \/ UNCHANGED pool_vars
      BY <1>8, <2>1 DEF CompleteNext, free_resources
    <2>3. CASE BM!Free(r)
      <3>1. /\ free_block_ids' = free_block_ids \o block_table[r]
            /\ block_table' = [block_table EXCEPT ![r] = <<>>]
        BY <2>3 DEF BM!Free
      <3>2. block_table[r] \in Seq(BM!Blocks)
        BY <1>1
      <3>3. Len(free_block_ids') = Len(free_block_ids) + Len(block_table[r])
        BY <1>1, <3>1, <3>2, ConcatProperties
      <3>4. block_table'[r] = <<>> /\ \A q \in Requests : q # r => block_table'[q] = block_table[q]
        BY <1>1, <3>1
      <3>5. tables'[r] = 0 /\ \A q \in Requests : q # r => tables'[q] = tables[q]
        BY <1>2, <1>4, <3>4, EmptySeq
      <3>6. CellCount(Requests, tables') + tables[r] = CellCount(Requests, tables) + tables'[r]
        <4> DEFINE before == tables
                   after == tables'
        <4>1. /\ \A q \in Requests : before[q] \in Nat /\ after[q] \in Nat
              /\ \A q \in Requests : q # r => after[q] = before[q]
          BY <1>2, <1>4, <3>5
        <4>2. IsFiniteSet(Requests) /\ r \in Requests
          BY <1>1, <2>1
        <4> HIDE DEF before, after
        <4>3. CellCount(Requests, after) + before[r] = CellCount(Requests, before) + after[r]
          BY <4>1, <4>2, CountChange
        <4> QED BY <4>3 DEF before, after
      <3>7. tables[r] \in Nat /\ tables[r] = Len(block_table[r])
        BY <1>2
      <3>8. Len(free_block_ids') + CellCount(Requests, tables') = NumBlocks
        BY <1>1, <1>5, <3>3, <3>5, <3>6, <3>7 DEF Counted
      <3> QED BY <3>8 DEF Counted
    <2> QED BY <1>6, <2>2, <2>3 DEF pool_vars
  <1>9. CASE PrepareNext
    <2>1. UNCHANGED free_block_ids
      BY <1>9 DEF PrepareNext, BM!AllocateCall, pool_vars
    <2> QED BY <1>6, <1>9, <2>1, PrepareFacts
  <1>10. CASE UpdateNext \/ UNCHANGED pool_vars
    BY <1>6, <1>10, UpdateFacts DEF pool_vars
  <1> QED BY <1>7, <1>8, <1>9, <1>10, NeverFails, PoolStays

(* The tables of the active requests are all the blocks in use.             *)
LEMMA ActiveBlocksAreAll ==
    ASSUME IInv, RoomOK
    PROVE  active_blocks + Len(free_block_ids) = NumBlocks
  <1>1. active_blocks = CellCount(Range(active), tables)
    BY ActiveBlocksType DEF IInv, Types
  <1>2. block_table \in [Requests -> Seq(BM!Blocks)] /\ Range(active) \subseteq Requests
    BY ElementsOfSeq DEF IInv, Types, TypeOK
  <1>3. \A r \in Requests \ Range(active) : block_table[r] = <<>>
    BY DEF IInv, TablesOK, RoomOK, Promised
  <1>4. \A r \in Requests \ Range(active) : tables[r] = 0
    BY <1>2, <1>3, TablesType, EmptySeq
  <1>5. Cells(Requests, tables) = Cells(Range(active), tables)
    BY <1>2, <1>4 DEF Cells
  <1>6. active_blocks = CellCount(Requests, tables)
    BY <1>1, <1>5 DEF CellCount
  <1>7. CellCount(Requests, tables) \in Nat /\ Len(free_block_ids) \in Nat
    <2>1. Len(free_block_ids) \in Nat
      BY LenProperties DEF IInv, Types, TypeOK
    <2>2. \A r \in Requests : tables[r] \in Nat
      BY <1>2, TablesType
    <2> QED BY <2>1, <2>2, CellsFinite, RequestAssumption
  <1> QED BY <1>6, <1>7, ExecutorAssumption DEF RoomOK, Counted

LEMMA ScheduleRoomStep ==
    ASSUME max_blocks <= NumBlocks, IInv, RoomOK, [Next]_vars
    PROVE  ScheduleRoom'
  <1> SUFFICES ASSUME pc' = "schedule" PROVE ScheduleRoom'
    BY DEF ScheduleRoom
  <1>1. /\ ScheduleRoom /\ Scheduling /\ blocks_used \in Nat /\ Len(free_block_ids) \in Nat
        /\ admitted \in Seq(Requests) /\ todo \in Seq(Requests)
        /\ scheduled \in [context_chunking : Seq(Requests),
                          context_last_chunk : Seq(Requests), generation : Seq(Requests)]
        /\ NumBlocks \in Nat /\ max_blocks \in Nat
    BY LenProperties, ExecutorAssumption, SchedulerAssumption
       DEF RoomOK, IInv, PhaseOK, Types, TypeOK, SchedulerTypeOK
  <1>2. CASE Outside
    <2>1. UNCHANGED <<scheduler_vars, pc, pool_vars>>
      BY <1>2, OutsideFacts
    <2>2. UNCHANGED <<tier, todo, admitted, blocks_used, scheduled, free_block_ids, pc>>
      BY <2>1 DEF scheduler_vars, pool_vars
    <2> QED BY <1>1, <2>2 DEF ScheduleRoom, Chunking, LastChunk, Reserved
  <1>3. CASE CallSchedule
    <2>1. /\ tier' = "capacity" /\ admitted' = <<>> /\ blocks_used' = active_blocks
          /\ scheduled' = [NothingScheduled EXCEPT !.generation = active_gen]
          /\ UNCHANGED free_block_ids
      BY <1>3 DEF CallSchedule, ScheduleCall, pool_vars
    <2>2. scheduled'.context_chunking = <<>> /\ scheduled'.context_last_chunk = <<>>
      BY <2>1 DEF NothingScheduled
    <2>3. Range(admitted') = {} /\ CellCount(Range(admitted'), needs) = 0
      BY <2>1, EmptyRange, CountNone
    <2>4. active_blocks + Len(free_block_ids) = NumBlocks
      BY ActiveBlocksAreAll
    <2>5. /\ Chunking' = {} /\ LastChunk' = {}
          /\ IsInjective(scheduled'.context_chunking)
      BY <2>2, EmptyRange DEF Chunking, LastChunk
    <2>6. blocks_used' + Len(free_block_ids') = NumBlocks + CellCount(Range(admitted'), needs)
      BY <1>1, <2>1, <2>3, <2>4
    <2>7. Reserved'
      BY <1>1, <2>1, <2>3 DEF Reserved
    <2> QED BY <2>1, <2>5, <2>6, <2>7 DEF ScheduleRoom
  <1>4. CASE RunScheduler
    <2>1. pc = "schedule" /\ ScheduleStep /\ UNCHANGED free_block_ids
      BY <1>4 DEF RunScheduler, pool_vars
    <2>2. /\ IsInjective(scheduled.context_chunking)
          /\ tier = "capacity" =>
                 blocks_used + Len(free_block_ids)
                     = NumBlocks + CellCount(Range(admitted), needs)
          /\ tier = "microbatch" => Range(todo) \subseteq Range(admitted)
          /\ Chunking \cup LastChunk \subseteq Range(admitted)
          /\ CellCount(Range(admitted), needs) <= Len(free_block_ids)
      BY <1>1, <2>1 DEF ScheduleRoom, Reserved
    <2>3. CASE AdmitNext
      <3>1. PICK r \in Requests : r = Head(todo)
        BY <1>1, <2>3, HeadTailProperties DEF AdmitNext
      <3>2. /\ tier = "capacity" /\ UNCHANGED <<tier, scheduled>> /\ todo # <<>>
            /\ IF Fits(r)
               THEN /\ admitted' = Append(admitted, r)
                    /\ blocks_used' = blocks_used + BlocksForRequest(r)
               ELSE UNCHANGED <<admitted, blocks_used>>
        BY <2>3, <3>1 DEF AdmitNext
      <3>3. CASE ~Fits(r)
        BY <2>1, <2>2, <3>2, <3>3 DEF ScheduleRoom, Reserved, Chunking, LastChunk
      <3>4. CASE Fits(r)
        <4>1. BlocksForRequest(r) = needs[r] /\ needs[r] \in Nat
          BY NeedsType DEF BlocksForRequest, RoomOK, Promised, get_needed_resource_to_completion
        <4>2. blocks_used + needs[r] <= NumBlocks
          <5>1. blocks_used + needs[r] <= max_blocks /\ max_blocks <= NumBlocks
            BY <3>4, <4>1 DEF Fits
          <5> QED BY <1>1, <4>1, <5>1
        <4>3. r \notin Range(admitted)
          <5>1. r \in Range(todo)
            BY <1>1, <3>1, <3>2, TailElements
          <5> QED BY <1>1, <2>1, <3>2, <5>1 DEF Scheduling
        <4>4. Range(admitted') = Range(admitted) \cup {r}
          <5>1. admitted' = Append(admitted, r) /\ admitted \in Seq(Requests)
            BY <1>1, <3>2, <3>4
          <5> QED BY <5>1, AppendElements
        <4>5. Range(admitted) \subseteq Requests
          BY <1>1, ElementsOfSeq
        <4>6. /\ IsFiniteSet(Cells(Range(admitted), needs))
              /\ CellCount(Range(admitted), needs) \in Nat
          BY <4>5, NeedsFinite
        <4>7. CellCount(Range(admitted'), needs) = CellCount(Range(admitted), needs) + needs[r]
          BY <4>1, <4>3, <4>4, <4>6, CountAdd
        <4>8. blocks_used' = blocks_used + needs[r]
          BY <3>2, <3>4, <4>1
        <4>9. blocks_used + Len(free_block_ids) = NumBlocks + CellCount(Range(admitted), needs)
          BY <2>2, <3>2
        <4>10. /\ blocks_used' + Len(free_block_ids')
                      = NumBlocks + CellCount(Range(admitted'), needs)
               /\ CellCount(Range(admitted'), needs) <= Len(free_block_ids')
          <5> DEFINE used == blocks_used
                     free == Len(free_block_ids)
                     count == CellCount(Range(admitted), needs)
                     need == needs[r]
                     later == CellCount(Range(admitted'), needs)
          <5>1. /\ used \in Nat /\ free \in Nat /\ count \in Nat /\ need \in Nat
                /\ NumBlocks \in Nat /\ later = count + need
                /\ used + need <= NumBlocks /\ used + free = NumBlocks + count
            BY <1>1, <4>1, <4>2, <4>6, <4>7, <4>9
          <5>2. blocks_used' = used + need /\ Len(free_block_ids') = free
            BY <2>1, <4>8
          <5> HIDE DEF used, free, count, need, later
          <5>3. (used + need) + free = NumBlocks + later /\ later <= free
            BY <5>1
          <5> QED BY <5>2, <5>3 DEF later
        <4> QED BY <2>2, <3>2, <4>4, <4>10 DEF ScheduleRoom, Reserved, Chunking, LastChunk
      <3> QED BY <3>3, <3>4
    <2>4. CASE StartMicrobatch
      <3>1. /\ UNCHANGED <<admitted, blocks_used, scheduled>>
            /\ tier' = "done" \/ (tier' = "microbatch" /\ todo' = admitted)
        <4> DEFINE none == admitted = <<>> \/ RemainingBudget <= 0
        <4>1. /\ UNCHANGED <<admitted, blocks_used, scheduled>>
              /\ IF none THEN tier' = "done" ELSE tier' = "microbatch" /\ todo' = admitted
          BY <2>4, Zenon DEF StartMicrobatch
        <4> HIDE DEF none
        <4> QED BY <4>1
      <3> QED BY <2>1, <2>2, <3>1 DEF ScheduleRoom, Reserved, Chunking, LastChunk
    <2>5. CASE EndMicrobatch
      BY <2>1, <2>2, <2>5 DEF EndMicrobatch, ScheduleRoom, Reserved, Chunking, LastChunk
    <2>6. CASE ChunkNext
      <3>1. PICK r \in Requests : r = Head(todo)
        BY <1>1, <2>6, HeadTailProperties DEF ChunkNext
      <3>2. /\ tier = "microbatch" /\ UNCHANGED <<tier, admitted>> /\ todo' = Tail(todo)
            /\ todo # <<>>
            /\ \/ scheduled' = scheduled
               \/ scheduled' = [scheduled EXCEPT !.context_last_chunk = Append(@, r)]
               \/ scheduled' = [scheduled EXCEPT !.context_chunking = Append(@, r)]
        BY <2>6, <3>1 DEF ChunkNext
      <3>3. r \in Range(todo) /\ Range(Tail(todo)) \subseteq Range(todo)
        BY <1>1, <3>1, <3>2, TailElements
      <3>4. r \notin Chunking /\ r \in Range(admitted)
        BY <1>1, <2>1, <2>2, <3>2, <3>3 DEF Scheduling
      <3>5. /\ scheduled.context_chunking \in Seq(Requests)
            /\ scheduled.context_last_chunk \in Seq(Requests)
        BY <1>1
      <3>6. /\ Range(Append(scheduled.context_chunking, r)) = Chunking \cup {r}
            /\ IsInjective(Append(scheduled.context_chunking, r))
            /\ Range(Append(scheduled.context_last_chunk, r)) = LastChunk \cup {r}
        BY <2>2, <3>4, <3>5, AppendElements DEF Chunking, LastChunk
      <3>7. /\ IsInjective(scheduled'.context_chunking)
            /\ Chunking' \cup LastChunk' \subseteq Chunking \cup LastChunk \cup {r}
        <4>1. CASE scheduled' = scheduled
          BY <2>2, <4>1 DEF Chunking, LastChunk
        <4>2. CASE scheduled' = [scheduled EXCEPT !.context_last_chunk = Append(@, r)]
          <5>1. /\ scheduled'.context_chunking = scheduled.context_chunking
                /\ scheduled'.context_last_chunk = Append(scheduled.context_last_chunk, r)
            BY <1>1, <4>2
          <5> QED BY <2>2, <3>6, <5>1 DEF Chunking, LastChunk
        <4>3. CASE scheduled' = [scheduled EXCEPT !.context_chunking = Append(@, r)]
          <5>1. /\ scheduled'.context_last_chunk = scheduled.context_last_chunk
                /\ scheduled'.context_chunking = Append(scheduled.context_chunking, r)
            BY <1>1, <4>3
          <5> QED BY <3>6, <5>1 DEF Chunking, LastChunk
        <4> QED BY <3>2, <4>1, <4>2, <4>3
      <3> QED BY <2>1, <2>2, <3>2, <3>3, <3>4, <3>7 DEF ScheduleRoom, Reserved
    <2> QED BY <2>1, <2>3, <2>4, <2>5, <2>6 DEF ScheduleStep
  <1> QED BY <1>2, <1>3, <1>4, Into

LEMMA MoveRoomStep ==
    ASSUME RoomOK, IInv, [Next]_vars
    PROVE  MoveRoom'
  <1> SUFFICES ASSUME pc' = "move" PROVE MoveRoom'
    BY DEF MoveRoom
  <1>1. ScheduleRoom /\ MoveRoom
    BY DEF RoomOK
  <1>2. pc \in {"schedule", "move"} /\ UNCHANGED <<scheduler_vars, pool_vars>>
    <2>1. CASE Outside
      BY <2>1, OutsideFacts
    <2>2. CASE EndSchedule \/ MoveNext
      BY <2>2 DEF EndSchedule, MoveNext
    <2> QED BY <2>1, <2>2, Into
  <1>3. UNCHANGED <<admitted, scheduled, free_block_ids>>
    BY <1>2 DEF scheduler_vars, pool_vars
  <1> QED BY <1>1, <1>2, <1>3 DEF ScheduleRoom, MoveRoom, Reserved, Chunking, LastChunk

(* What prepare_resources has still to ask for goes down with each call,    *)
(* and what a call has still to take goes down with each block.             *)
LEMMA PrepareRoomStep ==
    ASSUME IInv, RoomOK, [Next]_vars
    PROVE  PrepareRoom'
  <1> SUFFICES ASSUME pc' = "prepare" PROVE PrepareRoom'
    BY DEF PrepareRoom
  <1>1. /\ work \in Seq(Requests) /\ free_block_ids \in Seq(BM!Blocks)
        /\ Len(free_block_ids) \in Nat
        /\ admitted \in Seq(Requests)
        /\ scheduled.context_chunking \in Seq(Requests)
        /\ scheduled.context_last_chunk \in Seq(Requests)
        /\ scheduled.generation \in Seq(Requests)
        /\ MoveRoom /\ PrepareRoom /\ Moving
    BY LenProperties DEF IInv, PhaseOK, Types, TypeOK, SchedulerTypeOK, RoomOK
  <1>2. CASE Outside
    <2>1. UNCHANGED <<pc, work, state, allocation, free_block_ids>>
      BY <1>2, OutsideFacts DEF pool_vars, request_vars
    <2> QED BY <1>1, <2>1 DEF PrepareRoom, Unserved, Owed
  <1>3. CASE EndMove
    <2>1. /\ pc = "move" /\ work = <<>>
          /\ work' = IF HasResourceManager THEN all_requests ELSE <<>>
          /\ UNCHANGED <<state, allocation, free_block_ids>>
      BY <1>3 DEF EndMove, request_vars, pool_vars
    <2>2. /\ IsInjective(scheduled.context_chunking)
          /\ Chunking \cup LastChunk \subseteq Range(admitted)
          /\ CellCount(Range(admitted), needs) <= Len(free_block_ids)
          /\ DecodingOK /\ BatchOK
      BY <1>1, <2>1 DEF MoveRoom, Reserved, Moving
    <2>3. /\ Range(all_requests) = Chunking \cup LastChunk \cup Decoding
          /\ IsInjective(all_requests)
      <3> DEFINE ctx == scheduled.context_chunking \o scheduled.context_last_chunk
      <3>1. /\ ctx \in Seq(Requests) /\ Range(ctx) = Chunking \cup LastChunk
            /\ IsInjective(ctx)
        BY <1>1, <2>2, ConcatElements, ConcatProperties DEF Chunking, LastChunk, BatchOK
      <3>2. Range(ctx) \cap Decoding = {}
        BY <2>2, <3>1 DEF BatchOK, DecodingOK, Candidates
      <3>3. IsInjective(scheduled.generation)
        BY <2>2 DEF DecodingOK
      <3> HIDE DEF ctx
      <3>4. /\ Range(ctx \o scheduled.generation) = Range(ctx) \cup Decoding
            /\ IsInjective(ctx \o scheduled.generation)
        BY <1>1, <3>1, <3>2, <3>3, ConcatElements DEF Decoding
      <3> QED BY <3>1, <3>4 DEF all_requests, ctx
    <2>4. IsInjective(work') /\ Range(work') \subseteq Chunking \cup LastChunk \cup Decoding
      BY <2>1, <2>3, EmptyRange
    <2>5. Unserved' \subseteq Range(admitted)
      BY <2>1, <2>2, <2>4 DEF Unserved, DecodingOK
    <2>6. Owed' = 0
      BY <2>1 DEF IInv, TablesOK, Owed
    <2> DEFINE later == Unserved'
               batch == Range(admitted)
    <2>7. batch \subseteq Requests /\ later \subseteq batch
      BY <1>1, <2>5, ElementsOfSeq
    <2> HIDE DEF later, batch
    <2>8. IsFiniteSet(Cells(batch, needs)) /\ CellCount(batch, needs) \in Nat
      BY <2>7, NeedsFinite
    <2>9. CellCount(later, needs) <= CellCount(batch, needs) /\ CellCount(later, needs) \in Nat
      <3>1. later \subseteq Requests
        BY <2>7
      <3>2. CellCount(later, needs) \in Nat
        BY <3>1, NeedsFinite
      <3> QED BY <2>7, <2>8, <3>2, CountSubset
    <2>10. CellCount(batch, needs) <= Len(free_block_ids)
      BY <2>2 DEF batch
    <2>11. CellCount(later, needs) + 0 <= Len(free_block_ids)
      BY <1>1, <2>8, <2>9, <2>10
    <2> QED BY <2>1, <2>4, <2>6, <2>11 DEF PrepareRoom, later
  <1>4. CASE PrepareNext
    <2>1. /\ pc = "prepare" /\ allocation = BM!Idle /\ work # <<>> /\ work' = Tail(work)
          /\ UNCHANGED <<state, free_block_ids>>
      BY <1>4 DEF PrepareNext, others_of_pool, request_vars, BM!AllocateCall, pool_vars
    <2>2. PICK h \in Requests : h = Head(work)
      BY <1>1, <2>1, HeadTailProperties
    <2>3. IsInjective(work) /\ CellCount(Unserved, needs) + 0 <= Len(free_block_ids)
      BY <1>1, <2>1 DEF PrepareRoom, Owed
    <2>4. /\ Range(work) = Range(work') \cup {h} /\ h \notin Range(work')
          /\ IsInjective(work') /\ Range(work) \subseteq Requests
      BY <1>1, <2>1, <2>2, <2>3, TailElements, ElementsOfSeq
    <2> DEFINE before == Unserved
               after == Unserved'
    <2>5. /\ after \subseteq Requests /\ h \notin after
          /\ before = after \cup (IF state[h] = "CONTEXT_INIT" THEN {h} ELSE {})
      BY <2>1, <2>4 DEF Unserved
    <2>6. CellCount(before, needs) <= Len(free_block_ids)
      <3>1. before \subseteq Requests
        BY <2>2, <2>5
      <3>2. CellCount(before, needs) \in Nat
        BY <3>1, NeedsFinite
      <3> QED BY <1>1, <2>3, <3>2
    <2> HIDE DEF before, after
    <2>7. IsFiniteSet(Cells(after, needs)) /\ CellCount(after, needs) \in Nat
      BY <2>5, NeedsFinite
    <2>8. CASE state[h] = "CONTEXT_INIT"
      <3>1. before = after \cup {h} /\ needs[h] \in Nat
        BY <2>5, <2>8, NeedsType
      <3>2. CellCount(before, needs) = CellCount(after, needs) + needs[h]
        BY <2>5, <2>7, <3>1, CountAdd
      <3>3. Owed' = needs[h]
        <4>1. allocation'.call = "allocate"
              /\ allocation'.arg = get_needed_resource_to_completion(h)
          BY <1>4, <2>2, <2>8, PrepareFacts
        <4>2. allocation' # BM!Idle
          BY <4>1 DEF BM!Idle
        <4> QED BY <4>1, <4>2, NeedsType DEF Owed
      <3>4. CellCount(after, needs) + needs[h] <= Len(free_block_ids)
        BY <2>6, <3>2
      <3> QED BY <2>1, <2>4, <3>3, <3>4 DEF PrepareRoom, after
    <2>9. CASE state[h] # "CONTEXT_INIT"
      <3>1. before = after
        BY <2>5, <2>9
      <3>2. Owed' = 0
        BY <1>4, <2>2, <2>9, PrepareFacts DEF Owed
      <3>3. CellCount(after, needs) + 0 <= Len(free_block_ids)
        BY <1>1, <2>6, <2>7, <3>1
      <3> QED BY <2>1, <2>4, <3>2, <3>3 DEF PrepareRoom, after
    <2> QED BY <2>8, <2>9
  <1>5. CASE AllocateTurn
    <2>1. /\ pc = "prepare" /\ allocation # BM!Idle /\ allocation.arg \in Nat \ {0}
          /\ UNCHANGED <<work, state>>
          /\ \/ allocation' = BM!Idle /\ allocation.arg = 1
             \/ /\ allocation' # BM!Idle
                /\ allocation'.arg = allocation.arg - 1
      BY <1>5, AllocateFacts DEF others_of_pool, request_vars
    <2>2. Len(free_block_ids') = Len(free_block_ids) - 1
      <3>1. free_block_ids' = Tail(free_block_ids) /\ Len(free_block_ids) >= allocation.arg
        BY <1>5 DEF AllocateTurn, BM!AllocatePop, BM!Pop, BM!can_allocate
      <3>2. free_block_ids # <<>>
        BY <1>1, <2>1, <3>1, EmptySeq
      <3> QED BY <1>1, <3>1, <3>2, HeadTailProperties
    <2>3. /\ IsInjective(work)
          /\ CellCount(Unserved, needs) + allocation.arg <= Len(free_block_ids)
      BY <1>1, <2>1 DEF PrepareRoom, Owed
    <2>4. Owed' = allocation.arg - 1
      BY <2>1 DEF Owed
    <2> DEFINE before == CellCount(Unserved, needs)
    <2>5. before \in Nat
      BY <1>1, ElementsOfSeq, NeedsFinite DEF Unserved
    <2>6. CellCount(Unserved, needs)' = before
      BY <2>1 DEF Unserved
    <2> HIDE DEF before
    <2>7. before + (allocation.arg - 1) <= Len(free_block_ids')
      BY <1>1, <2>1, <2>2, <2>3, <2>5 DEF before
    <2> QED BY <2>1, <2>3, <2>4, <2>6, <2>7 DEF PrepareRoom
  <1> QED BY <1>2, <1>3, <1>4, <1>5, Into

LEMMA RoomStep ==
    ASSUME max_blocks <= NumBlocks, IInv, Promised => RoomOK, [Next]_vars
    PROVE  (Promised => RoomOK)'
  <1> SUFFICES ASSUME Promised' PROVE RoomOK'
    OBVIOUS
  <1>1. RoomOK
    BY PromisedBefore
  <1> QED
    BY <1>1, NotRaised, CountedStep, ScheduleRoomStep, MoveRoomStep, PrepareRoomStep DEF RoomOK

(* GUARANTEED_NO_EVICT keeps its promise as long as nobody cancels and the  *)
(* scheduler is built with no more blocks than the pool has: allocate()     *)
(* finds its blocks in every iteration(), also after forward passes that    *)
(* raised.                                                                  *)
THEOREM GuaranteedNeverRaises ==
    ASSUME max_blocks <= NumBlocks
    PROVE  Spec => []GuaranteeKept
  <1> DEFINE Room == Promised => RoomOK
  <1>1. Init => IInv /\ Room
    BY InitIInv, InitRoom
  <1>2. IInv /\ Room /\ [Next]_vars => IInv' /\ Room'
    BY StepIInv, RoomStep
  <1>3. Room => GuaranteeKept
    BY DEF RoomOK, Promised, GuaranteeKept, NeverRaises
  <1> HIDE DEF Room
  <1> QED BY <1>1, <1>2, <1>3, PTL DEF Spec

-----------------------------------------------------------------------------
(* Who may be stranded.                                                     *)

Raised == errors.allocate \/ errors.forward > 0

(* A request of _active that has not begun its prefill is in the batch of a *)
(* running iteration, or an exception left one.                             *)
StrandedOK ==
    \A r \in Range(active) :
        state[r] = "CONTEXT_INIT" =>
            \/ Raised
            \/ pc \in {"move", "prepare", "advance"} /\ r \in Chunking \cup LastChunk

LEMMA RaisedStays ==
    ASSUME IInv, [Next]_vars
    PROVE  /\ Raised => Raised'
           /\ AllocateFails \/ ForwardRaises => Raised'
  <1>1. errors \in [allocate : BOOLEAN, forward : Nat]
    BY DEF IInv, Types, TypeOK
  <1>2. CASE ForwardRaises
    BY <1>1, <1>2 DEF ForwardRaises, Raised
  <1>3. CASE AllocateFails
    BY <1>1, <1>3 DEF AllocateFails, Raised
  <1>4. CASE errors' = errors /\ ~AllocateFails /\ ~ForwardRaises
    BY <1>4 DEF Raised
  <1> QED
    BY <1>2, <1>3, <1>4
       DEF Next, Iteration, enqueue_request, cancel_request, BeginIteration,
           DropCancelled, TakeSnapshot, CollectNext, CallSchedule, RunScheduler, EndSchedule,
           MoveNext, EndMove, PrepareNext, AllocateTurn, Resume, EndPrepare, Advance,
           SampleNext, EndSample, UpdateNext, EndUpdate, CompleteNext, Stream, vars,
           others_of_drop, others_of_pool, client_vars

LEMMA StrandedStep ==
    ASSUME IInv, StrandedOK, [Next]_vars
    PROVE  StrandedOK'
  <1> SUFFICES ASSUME NEW r \in Range(active'), state'[r] = "CONTEXT_INIT", ~Raised'
               PROVE  /\ pc' \in {"move", "prepare", "advance"}
                      /\ r \in Chunking' \cup LastChunk'
    BY DEF StrandedOK
  <1>0. ~Raised /\ ~AllocateFails /\ ~ForwardRaises
    BY RaisedStays
  <1>1. ASSUME r \in Range(active), state[r] = "CONTEXT_INIT"
        PROVE  pc \in {"move", "prepare", "advance"} /\ r \in Chunking \cup LastChunk
    BY <1>0, <1>1 DEF StrandedOK
  <1>2. CASE Outside
    BY <1>1, <1>2, OutsideFacts DEF request_vars, scheduler_vars, Chunking, LastChunk
  <1>3. CASE DropCancelled
    <2>1. /\ pc = "drop" /\ Range(active') \subseteq Range(active) /\ state' = state
      BY <1>3, DropFacts DEF others_of_drop, request_vars
    <2> QED BY <1>1, <2>1
  <1>4. CASE MoveNext
    <2>1. /\ pc = "move" /\ pc' = pc /\ UNCHANGED <<state, scheduled>>
          /\ Range(active') = Range(active) \cup {Head(work)}
          /\ Head(work) \in Chunking \cup LastChunk
      BY <1>4, MoveFacts DEF MoveNext, request_vars, scheduler_vars
    <2> QED BY <1>1, <2>1 DEF Chunking, LastChunk
  <1>5. CASE Advance
    <2>1. /\ active' = active /\ pc = "advance"
          /\ \A q \in Chunking \cup LastChunk : state'[q] # "CONTEXT_INIT"
          /\ \A q \in Requests : state'[q] = state[q] \/ q \in Chunking \cup LastChunk
      BY <1>5, AdvanceFacts DEF queue_vars
    <2>2. r \in Requests
      BY <2>1, ElementsOfSeq DEF IInv, Types, TypeOK
    <2> QED BY <1>1, <2>1, <2>2
  <1>6. CASE SampleNext
    <2>1. PICK h \in Requests :
             /\ pc = "sample" /\ state[h] = "GENERATION_IN_PROGRESS"
             /\ \A q \in Requests \ {h} : state'[q] = state[q]
             /\ state'[h] = state[h] \/ state'[h] = "GENERATION_COMPLETE"
             /\ UNCHANGED queue_vars
      BY <1>6, SampleFacts
    <2>2. r \in Requests /\ r \in Range(active)
      BY <2>1, ElementsOfSeq DEF IInv, Types, TypeOK, queue_vars
    <2> QED BY <1>1, <2>1, <2>2
  <1>7. CASE CompleteNext
    <2>1. /\ pc = "complete" /\ state' = state /\ Range(active') \subseteq Range(active)
      BY <1>7, CompleteFacts DEF request_vars
    <2> QED BY <1>1, <2>1
  <1>8. CASE BeginIteration \/ TakeSnapshot \/ CollectNext \/ CallSchedule \/ RunScheduler
             \/ EndSchedule \/ Resume \/ EndSample \/ UpdateNext \/ EndUpdate \/ Stream
    <2>1. /\ pc \notin {"move", "prepare", "advance"}
          /\ UNCHANGED <<active, state>>
      BY <1>8
         DEF BeginIteration, TakeSnapshot, CollectNext, CallSchedule, RunScheduler,
             EndSchedule, Resume, EndSample, UpdateNext, EndUpdate, Stream, others_of_drop,
             others_of_pool, queue_vars, request_vars
    <2> QED BY <1>1, <2>1
  <1>9. CASE EndMove \/ PrepareNext \/ EndPrepare
    <2>1. /\ pc' \in {"move", "prepare", "advance"}
          /\ UNCHANGED <<active, state, scheduled>>
      BY <1>9
         DEF EndMove, PrepareNext, EndPrepare, others_of_pool, queue_vars, request_vars,
             scheduler_vars
    <2> QED BY <1>1, <2>1 DEF Chunking, LastChunk
  <1>10. CASE AllocateTurn
    <2>1. /\ pc' = pc /\ UNCHANGED <<active, state, scheduled>>
      BY <1>10 DEF AllocateTurn, others_of_pool, queue_vars, request_vars, scheduler_vars
    <2> QED BY <1>1, <2>1 DEF Chunking, LastChunk
  <1> QED
    BY <1>0, <1>2, <1>3, <1>4, <1>5, <1>6, <1>7, <1>8, <1>9, <1>10
       DEF Next, Iteration, Outside

(* Between two iterations every request of _active is in prefill or in      *)
(* generation, unless an exception left an iteration: chunks, refusals,     *)
(* cancellations and completions of others strand none.                     *)
THEOREM OnlyRaisesStrand == Spec => []OnlyErrorsStrand
  <1>1. Init => IInv /\ StrandedOK
    BY InitIInv, EmptyRange DEF Init, StrandedOK
  <1>2. IInv /\ StrandedOK /\ [Next]_vars => IInv' /\ StrandedOK'
    BY StepIInv, StrandedStep
  <1>3. StrandedOK => OnlyErrorsStrand
    BY MembersAreRange DEF StrandedOK, Raised, OnlyErrorsStrand, Stranded
  <1> QED BY <1>1, <1>2, <1>3, PTL DEF Spec

=============================================================================
