------------------------ MODULE ScheduleCallsProofs ------------------------
(***************************************************************************)
(* Proofs about a call of the scheduler, for any requests, policies and    *)
(* bounds: tier 1 never overcommits blocks, GUARANTEED_NO_EVICT leaves     *)
(* room to completion, nobody is turned away without need, the loops of    *)
(* both tiers return the closed form of SchedulePlan, and the token budget *)
(* is exceeded only in the two ways that BudgetKept names.                 *)
(***************************************************************************)
EXTENDS ScheduleCalls, DataLemmas

-----------------------------------------------------------------------------
(* Sums over a set of requests, as Total counts them.                      *)

LEMMA TotalIsCount == \A S, f : Total(S, f) = CellCount(S, f)
  BY DEF Total, CellCount, Cells

LEMMA TotalOfNone ==
    ASSUME NEW f
    PROVE  IsFiniteSet(Cells({}, f)) /\ Total({}, f) = 0
  BY CountNone, TotalIsCount

LEMMA TotalAdd ==
    ASSUME NEW S, NEW f, IsFiniteSet(Cells(S, f)), NEW r, r \notin S, f[r] \in Nat
    PROVE  /\ IsFiniteSet(Cells(S \cup {r}, f))
           /\ Total(S \cup {r}, f) = Total(S, f) + f[r]
           /\ Total(S, f) \in Nat
  BY CountAdd, TotalIsCount

(* _blocks_needed rounds up.                                                *)
LEMMA BlocksHoldTokens ==
    ASSUME NEW n \in Nat
    PROVE  _blocks_needed(n) \in Nat /\ n <= _blocks_needed(n) * block_size
  <1>1. block_size \in Nat \ {0}
    BY SchedulerAssumption
  <1> DEFINE q == (n + block_size - 1) \div block_size
  <1>2. q \in Nat /\ n + block_size - 1 < (q + 1) * block_size
    BY <1>1
  <1> QED BY <1>1, <1>2 DEF _blocks_needed

LEMMA BlocksForRequestType ==
    ASSUME NEW r \in Requests
    PROVE  BlocksForRequest(r) \in Nat
  BY BlocksHoldTokens, RequestAssumption DEF BlocksForRequest, AtLeast

-----------------------------------------------------------------------------
(* The inductive invariant.                                                *)

blocks == [r \in Requests |-> BlocksForRequest(r)]
tokens == [r \in Requests |-> ContextLen[r] + MaxTokens[r]]

ListsOK ==
    /\ policy \in Policies
    /\ call.waiting \in Seq(Requests) /\ IsInjective(call.waiting)
    /\ call.active_blocks \in 0 .. max_blocks
    /\ tier \in {"idle", "capacity", "microbatch", "done"}
    /\ todo \in Seq(Requests)
    /\ admitted \in Seq(Requests)
    /\ blocks_used \in Nat

(* What tier 1 has still to look at is not admitted yet, and once.          *)
LookedAtOnce ==
    tier = "capacity" => IsInjective(todo) /\ Range(todo) \cap Range(admitted) = {}

(* blocks_used is the blocks in use and those of the admitted requests.     *)
BlocksCounted ==
    IF tier = "idle"
    THEN admitted = <<>>
    ELSE /\ IsFiniteSet(Cells(Range(admitted), blocks))
         /\ blocks_used = call.active_blocks + Total(Range(admitted), blocks)
         /\ blocks_used <= max_blocks

(* They hold every token of the admitted requests.                          *)
TokensHeld ==
    tier # "idle" /\ policy.capacity = "GUARANTEED_NO_EVICT" =>
        /\ IsFiniteSet(Cells(Range(admitted), tokens))
        /\ Total(Range(admitted), tokens) <= (blocks_used - call.active_blocks) * block_size

(* Who was passed over still does not fit.                                  *)
PassedOver ==
    tier # "idle" =>
        /\ Len(admitted) <= max_batch_size
        /\ \A r \in Range(call.waiting) \ Range(admitted) :
              \/ tier = "capacity" /\ r \in Range(todo)
              \/ Len(admitted) = max_batch_size
              \/ blocks_used + BlocksForRequest(r) > max_blocks

IInv == ListsOK /\ LookedAtOnce /\ BlocksCounted /\ TokensHeld /\ PassedOver

LEMMA InitIInv == Init => IInv
  <1> SUFFICES ASSUME Init PROVE IInv
    OBVIOUS
  <1>1. call.waiting \in Seq(Requests) /\ IsInjective(call.waiting)
    <2>1. PICK n \in Nat : call.waiting \in [1 .. n -> Requests] /\ Distinct(call.waiting)
      <3>1. Cardinality(Requests) \in Nat
        BY RequestAssumption, FS_CardinalityType
      <3> QED BY <3>1 DEF Init, Arguments, Arrangements
    <2> QED BY <2>1, IsASeq DEF Distinct, IsInjective
  <1> QED
    BY <1>1, EmptySeq
       DEF Init, Arguments, SchedulerInit, IInv, ListsOK, LookedAtOnce, BlocksCounted,
           TokensHeld, PassedOver

-----------------------------------------------------------------------------
(* The steps.                                                              *)

LEMMA StartKeeps == IInv /\ Start => IInv'
  <1> SUFFICES ASSUME IInv, Start PROVE IInv'
    OBVIOUS
  <1>1. /\ tier' = "capacity" /\ todo' = call.waiting /\ admitted' = <<>>
        /\ blocks_used' = call.active_blocks /\ call' = call /\ policy' = policy
    BY DEF Start, ScheduleCall, scheduler_vars
  <1>2. ListsOK'
    BY <1>1, EmptySeq DEF IInv, ListsOK
  <1>3. LookedAtOnce'
    BY <1>1, EmptyRange DEF IInv, ListsOK, LookedAtOnce
  <1>4. BlocksCounted'
    <2>1. IsFiniteSet(Cells({}, blocks')) /\ Total({}, blocks') = 0
      BY TotalOfNone
    <2>2. call.active_blocks \in 0 .. max_blocks /\ max_blocks \in Nat
      BY SchedulerAssumption DEF IInv, ListsOK
    <2>3. Range(admitted') = {}
      BY <1>1, EmptyRange
    <2>4. blocks_used' = call'.active_blocks + 0 /\ blocks_used' <= max_blocks
      BY <1>1, <2>2
    <2> QED BY <1>1, <2>1, <2>3, <2>4 DEF BlocksCounted
  <1>5. TokensHeld'
    <2>1. (blocks_used' - call'.active_blocks) * block_size = 0
      BY <1>1, SchedulerAssumption DEF IInv, ListsOK
    <2>2. IsFiniteSet(Cells({}, tokens)) /\ Total({}, tokens) = 0
      BY TotalOfNone
    <2>3. tokens' = tokens
      BY DEF tokens
    <2>4. Range(admitted') = {}
      BY <1>1, EmptyRange
    <2> QED BY <2>1, <2>2, <2>3, <2>4 DEF TokensHeld
  <1>6. PassedOver'
    BY <1>1, EmptyRange, SchedulerAssumption DEF PassedOver
  <1> QED BY <1>2, <1>3, <1>4, <1>5, <1>6 DEF IInv

LEMMA AdmitKeeps == IInv /\ AdmitNext /\ UNCHANGED <<call, request_vars>> => IInv'
  <1> SUFFICES ASSUME IInv, AdmitNext, call' = call PROVE IInv'
    BY DEF request_vars
  <1> DEFINE r == Head(todo)
  <1>1. /\ tier = "capacity" /\ todo # <<>> /\ tier' = tier /\ policy' = policy
        /\ todo' = Tail(todo)
    BY DEF AdmitNext
  <1>2. /\ r \in Requests /\ todo' \in Seq(Requests)
        /\ r \in Range(todo) /\ Range(todo) = Range(todo') \cup {r}
        /\ IsInjective(todo') /\ r \notin Range(todo') /\ r \notin Range(admitted)
    <2>1. todo \in Seq(Requests) /\ IsInjective(todo) /\ Range(todo) \cap Range(admitted) = {}
      BY <1>1 DEF IInv, ListsOK, LookedAtOnce
    <2> QED BY <1>1, <2>1, TailElements, HeadTailProperties
  <1>3. /\ blocks_used \in Nat /\ BlocksForRequest(r) \in Nat /\ max_blocks \in Nat
        /\ call.active_blocks \in Nat /\ max_batch_size \in Nat /\ block_size \in Nat
        /\ admitted \in Seq(Requests) /\ Len(admitted) \in Nat
    BY <1>2, BlocksForRequestType, SchedulerAssumption DEF IInv, ListsOK
  <1>4. \A q \in Requests : BlocksForRequest(q)' = BlocksForRequest(q)
    BY <1>1 DEF BlocksForRequest
  <1>5. blocks' = blocks
    BY <1>4 DEF blocks
  <1>6. tokens' = tokens
    BY DEF tokens
  <1> HIDE DEF r
  <1>7. CASE Fits(r)
    <2>1. /\ admitted' = Append(admitted, r)
          /\ blocks_used' = blocks_used + BlocksForRequest(r)
          /\ Len(admitted) < max_batch_size
          /\ blocks_used + BlocksForRequest(r) <= max_blocks
      BY <1>7 DEF AdmitNext, Fits, FitsInBatch, r
    <2>2. /\ admitted' \in Seq(Requests) /\ Len(admitted') = Len(admitted) + 1
          /\ Range(admitted') = Range(admitted) \cup {r}
      BY <1>2, <1>3, <2>1, AppendElements, AppendProperties
    <2>3. ListsOK'
      BY <1>1, <1>2, <1>3, <2>1, <2>2 DEF IInv, ListsOK
    <2>4. LookedAtOnce'
      BY <1>1, <1>2, <2>2 DEF IInv, LookedAtOnce
    <2>5. BlocksCounted'
      <3>1. /\ IsFiniteSet(Cells(Range(admitted), blocks))
            /\ blocks_used = call.active_blocks + Total(Range(admitted), blocks)
        BY <1>1 DEF IInv, BlocksCounted
      <3>2. blocks[r] = BlocksForRequest(r)
        BY <1>2 DEF blocks
      <3>3. /\ IsFiniteSet(Cells(Range(admitted'), blocks))
            /\ Total(Range(admitted'), blocks) = Total(Range(admitted), blocks) + blocks[r]
            /\ Total(Range(admitted), blocks) \in Nat
        BY <1>2, <1>3, <2>2, <3>1, <3>2, TotalAdd
      <3> QED BY <1>1, <1>3, <1>5, <2>1, <3>1, <3>2, <3>3 DEF BlocksCounted
    <2>6. TokensHeld'
      <3> SUFFICES ASSUME policy.capacity = "GUARANTEED_NO_EVICT"
                   PROVE  /\ IsFiniteSet(Cells(Range(admitted'), tokens))
                          /\ Total(Range(admitted'), tokens)
                                 <= (blocks_used' - call.active_blocks) * block_size
        BY <1>1, <1>6 DEF TokensHeld
      <3> DEFINE free == blocks_used - call.active_blocks
                 needed == BlocksForRequest(r)
      <3>1. /\ IsFiniteSet(Cells(Range(admitted), tokens))
            /\ Total(Range(admitted), tokens) <= free * block_size
        BY <1>1 DEF IInv, TokensHeld
      <3>2. tokens[r] \in Nat /\ tokens[r] <= needed * block_size
        <4>1. /\ tokens[r] = ContextLen[r] + MaxTokens[r]
              /\ ContextLen[r] \in Nat /\ MaxTokens[r] \in Nat
          BY <1>2, RequestAssumption DEF tokens
        <4>2. needed = _blocks_needed(ContextLen[r] + MaxTokens[r])
          BY DEF BlocksForRequest
        <4>3. /\ ContextLen[r] + MaxTokens[r] \in Nat
              /\ ContextLen[r] + MaxTokens[r]
                     <= _blocks_needed(ContextLen[r] + MaxTokens[r]) * block_size
          BY <4>1, BlocksHoldTokens
        <4> QED BY <4>1, <4>2, <4>3
      <3>3. /\ IsFiniteSet(Cells(Range(admitted'), tokens))
            /\ Total(Range(admitted'), tokens) = Total(Range(admitted), tokens) + tokens[r]
            /\ Total(Range(admitted), tokens) \in Nat
        <4>1. /\ IsFiniteSet(Cells(Range(admitted) \cup {r}, tokens))
              /\ Total(Range(admitted) \cup {r}, tokens) =
                     Total(Range(admitted), tokens) + tokens[r]
              /\ Total(Range(admitted), tokens) \in Nat
          <5> HIDE DEF free, needed
          <5> QED BY <1>2, <3>1, <3>2, TotalAdd
        <4> QED BY <2>2, <4>1
      <3>4. (blocks_used' - call.active_blocks) = free + needed
        BY <1>3, <2>1
      <3>5. free \in Int /\ needed \in Nat
        BY <1>3
      <3> HIDE DEF free, needed
      <3>6. (free + needed) * block_size = free * block_size + needed * block_size
        BY <1>3, <3>5
      <3>7. free * block_size \in Int /\ needed * block_size \in Int
        BY <1>3, <3>5
      <3> DEFINE a == free * block_size  b == needed * block_size
      <3>8. (blocks_used' - call.active_blocks) * block_size = a + b
        BY <3>4, <3>6
      <3>9. a \in Int /\ b \in Int /\ Total(Range(admitted), tokens) <= a /\ tokens[r] <= b
        BY <3>1, <3>2, <3>7
      <3> HIDE DEF a, b
      <3> QED BY <3>2, <3>3, <3>8, <3>9
    <2>7. PassedOver'
      <3>1. Len(admitted') <= max_batch_size
        BY <1>3, <2>1, <2>2
      <3> SUFFICES ASSUME NEW q \in Range(call.waiting) \ Range(admitted'),
                          q \notin Range(todo')
                   PROVE  \/ Len(admitted') = max_batch_size
                          \/ blocks_used' + BlocksForRequest(q)' > max_blocks
        BY <1>1, <3>1 DEF PassedOver
      <3>2. q \in Requests /\ q \notin Range(admitted) /\ q \notin Range(todo)
        BY <1>2, <2>2, ElementsOfSeq DEF IInv, ListsOK
      <3>3. Len(admitted) = max_batch_size \/ blocks_used + BlocksForRequest(q) > max_blocks
        BY <1>1, <3>2 DEF IInv, PassedOver
      <3>4. BlocksForRequest(q) \in Nat /\ BlocksForRequest(q)' = BlocksForRequest(q)
        BY <1>4, <3>2, BlocksForRequestType
      <3> QED BY <1>3, <2>1, <3>3, <3>4
    <2> QED BY <2>3, <2>4, <2>5, <2>6, <2>7 DEF IInv
  <1>8. CASE ~Fits(r)
    <2>1. admitted' = admitted /\ blocks_used' = blocks_used
      BY <1>8 DEF AdmitNext, r
    <2>2. ListsOK' /\ LookedAtOnce'
      BY <1>1, <1>2, <2>1 DEF IInv, ListsOK, LookedAtOnce
    <2>3. BlocksCounted' /\ TokensHeld'
      BY <1>1, <1>5, <1>6, <2>1 DEF IInv, BlocksCounted, TokensHeld
    <2>4. PassedOver'
      <3>1. Len(admitted) <= max_batch_size
        BY <1>1 DEF IInv, PassedOver
      <3>2. Len(admitted) = max_batch_size \/ blocks_used + BlocksForRequest(r) > max_blocks
        BY <1>3, <1>8, <3>1 DEF Fits, FitsInBatch
      <3> SUFFICES ASSUME NEW q \in Range(call.waiting) \ Range(admitted),
                          q \notin Range(todo')
                   PROVE  \/ Len(admitted) = max_batch_size
                          \/ blocks_used + BlocksForRequest(q)' > max_blocks
        BY <1>1, <2>1, <3>1 DEF PassedOver
      <3>3. q \in Requests
        BY ElementsOfSeq DEF IInv, ListsOK
      <3>4. q = r \/ q \notin Range(todo)
        BY <1>2
      <3> QED BY <1>1, <1>4, <3>2, <3>3, <3>4 DEF IInv, PassedOver
    <2> QED BY <2>2, <2>3, <2>4 DEF IInv
  <1> QED BY <1>7, <1>8

(* Tier 2 leaves what tier 1 decided.                                       *)
LEMMA MicrobatchKeeps ==
    IInv /\ (StartMicrobatch \/ ChunkNext \/ EndMicrobatch) /\ UNCHANGED <<call, request_vars>>
        => IInv'
  <1> SUFFICES ASSUME IInv, StartMicrobatch \/ ChunkNext \/ EndMicrobatch, call' = call
               PROVE  IInv'
    BY DEF request_vars
  <1>1. /\ policy' = policy /\ admitted' = admitted /\ blocks_used' = blocks_used
        /\ tier \in {"capacity", "microbatch"} /\ tier' \in {"microbatch", "done"}
        /\ tier = "capacity" => todo = <<>>
    BY DEF StartMicrobatch, ChunkNext, EndMicrobatch
  <1>2. todo' \in Seq(Requests)
    <2>1. todo \in Seq(Requests) /\ admitted \in Seq(Requests)
      BY DEF IInv, ListsOK
    <2>2. CASE StartMicrobatch
      BY <2>1, <2>2 DEF StartMicrobatch
    <2>3. CASE ChunkNext
      BY <2>1, <2>3, HeadTailProperties DEF ChunkNext
    <2>4. CASE EndMicrobatch
      BY <2>1, <2>4 DEF EndMicrobatch
    <2> QED BY <2>2, <2>3, <2>4
  <1>3. \A q \in Requests : BlocksForRequest(q)' = BlocksForRequest(q)
    BY <1>1 DEF BlocksForRequest
  <1>4. blocks' = blocks /\ tokens' = tokens
    BY <1>3 DEF blocks, tokens
  <1>5. ListsOK' /\ LookedAtOnce'
    BY <1>1, <1>2 DEF IInv, ListsOK, LookedAtOnce
  <1>6. BlocksCounted' /\ TokensHeld'
    BY <1>1, <1>4 DEF IInv, BlocksCounted, TokensHeld
  <1>7. PassedOver'
    <2> SUFFICES ASSUME NEW q \in Range(call.waiting) \ Range(admitted)
                 PROVE  \/ Len(admitted) = max_batch_size
                        \/ blocks_used + BlocksForRequest(q)' > max_blocks
      BY <1>1 DEF IInv, PassedOver
    <2>1. q \in Requests
      BY ElementsOfSeq DEF IInv, ListsOK
    <2>2. ~(tier = "capacity" /\ q \in Range(todo))
      BY <1>1, EmptyRange
    <2> QED BY <1>1, <1>3, <2>1, <2>2 DEF IInv, PassedOver
  <1> QED BY <1>5, <1>6, <1>7 DEF IInv

LEMMA StutterKeeps == IInv /\ UNCHANGED calls_vars => IInv'
  <1> SUFFICES ASSUME IInv, UNCHANGED calls_vars PROVE IInv'
    OBVIOUS
  <1>1. /\ call' = call /\ policy' = policy /\ tier' = tier /\ todo' = todo
        /\ admitted' = admitted /\ blocks_used' = blocks_used
    BY DEF calls_vars, scheduler_vars
  <1>2. \A q \in Requests : BlocksForRequest(q)' = BlocksForRequest(q)
    BY <1>1 DEF BlocksForRequest
  <1>3. blocks' = blocks /\ tokens' = tokens
    BY <1>2 DEF blocks, tokens
  <1>4. \A q \in Range(call.waiting) : q \in Requests
    BY ElementsOfSeq DEF IInv, ListsOK
  <1> QED BY <1>1, <1>2, <1>3, <1>4
          DEF IInv, ListsOK, LookedAtOnce, BlocksCounted, TokensHeld, PassedOver

LEMMA StepKeeps == IInv /\ [Next]_calls_vars => IInv'
  BY StartKeeps, AdmitKeeps, MicrobatchKeeps, StutterKeeps
     DEF Next, Turn, ScheduleStep

LEMMA AlwaysIInv == Spec => []IInv
  BY InitIInv, StepKeeps, PTL DEF Spec

-----------------------------------------------------------------------------
(* Tier 1 never overcommits blocks, under any policy and for any list       *)
(* (schedule_capacity).                                                     *)
THEOREM NeverOvercommits == Spec => []NoOvercommit
  <1>1. IInv => NoOvercommit
    BY SchedulerAssumption
       DEF IInv, ListsOK, BlocksCounted, NoOvercommit, blocks, Members, Range
  <1> QED BY <1>1, AlwaysIInv, PTL

(* What GUARANTEED_NO_EVICT admits fits to its last token in the blocks     *)
(* that were left (schedule_capacity).                                      *)
THEOREM AdmittedFitToCompletion == Spec => []RoomToCompletion
  <1>1. IInv => RoomToCompletion
    <2> SUFFICES ASSUME IInv, policy.capacity = "GUARANTEED_NO_EVICT", admitted # <<>>
                 PROVE  Total(Range(admitted), tokens)
                            <= (max_blocks - call.active_blocks) * block_size
      BY DEF RoomToCompletion, tokens, Members, Range
    <2>1. /\ IsFiniteSet(Cells(Range(admitted), tokens))
          /\ Total(Range(admitted), tokens) <= (blocks_used - call.active_blocks) * block_size
          /\ blocks_used <= max_blocks
      BY DEF IInv, BlocksCounted, TokensHeld
    <2> DEFINE used == blocks_used - call.active_blocks
               room == max_blocks - call.active_blocks
    <2>2. used \in Int /\ room \in Int /\ used <= room /\ block_size \in Nat
      BY <2>1, SchedulerAssumption DEF IInv, ListsOK
    <2>3. Total(Range(admitted), tokens) \in Nat
      BY <2>1, FS_CardinalityType DEF Total, Cells
    <2> HIDE DEF used, room
    <2>4. used * block_size <= room * block_size
      BY <2>2
    <2>5. used * block_size \in Int /\ room * block_size \in Int
      BY <2>2
    <2> QED BY <2>1, <2>3, <2>4, <2>5 DEF used, room
  <1> QED BY <1>1, AlwaysIInv, PTL

(* A request is turned away only for a reason that still stands at the end  *)
(* of the call (schedule_capacity).                                         *)
THEOREM NobodyTurnedAwayInVain == Spec => []NoIdleCapacity
  <1>1. IInv => NoIdleCapacity
    BY DEF IInv, PassedOver, NoIdleCapacity, Members, Range
  <1> QED BY <1>1, AlwaysIInv, PTL

-----------------------------------------------------------------------------
(* What a call returns: tier 1 first.  The closed form speaks of the set of *)
(* the indices of the admitted requests, which its first condition defines. *)

Ids(n) == [i \in 1 .. n |-> i]
At(s, ids) == [k \in DOMAIN ids |-> s[ids[k]]]

FitsAt(I, i, s, used, b) ==
    /\ Cardinality(I \cap 1 .. i - 1) < max_batch_size
    /\ used + SumOver(I, s, i - 1, b) + b[s[i]] <= max_blocks

Selects(I, n, s, used, b) ==
    I \in SUBSET (1 .. n) /\ \A i \in 1 .. n : i \in I <=> FitsAt(I, i, s, used, b)

(* Only the indices before i say whether i fits.                            *)
LEMMA FitsSame ==
    ASSUME NEW I, NEW J, NEW X, NEW s \in Seq(X), NEW b \in [X -> Int], NEW used,
           NEW i \in 1 .. Len(s), AgreeUpTo(I, J, i - 1)
    PROVE  FitsAt(I, i, s, used, b) <=> FitsAt(J, i, s, used, b)
<1>1. I \cap 1 .. i - 1 = J \cap 1 .. i - 1 BY DEF AgreeUpTo
<1>2. SumOver(I, s, i - 1, b) = SumOver(J, s, i - 1, b)
  <2> DEFINE k == i - 1
  <2>1. k \in 0 .. Len(s) BY LenProperties
  <2>2. AgreeUpTo(I, J, k) OBVIOUS
  <2> HIDE DEF k
  <2>3. SumOver(I, s, k, b) = SumOver(J, s, k, b) BY <2>1, <2>2, SumOverSame
  <2> QED BY <2>3 DEF k
<1> QED BY <1>1, <1>2 DEF FitsAt

LEMMA SelectsNext ==
    ASSUME NEW X, NEW s \in Seq(X), NEW b \in [X -> Int], NEW used,
           NEW n \in 1 .. Len(s), NEW I, Selects(I, n - 1, s, used, b)
    PROVE  \E J : Selects(J, n, s, used, b)
<1> DEFINE J == IF FitsAt(I, n, s, used, b) THEN I \cup {n} ELSE I
<1>1. n \in Nat /\ Len(s) \in Nat /\ n <= Len(s) BY LenProperties
<1>2. I \in SUBSET (1 .. n - 1) /\ n \notin I BY <1>1 DEF Selects
<1>3. J \in SUBSET (1 .. n) BY <1>1, <1>2
<1>4. \A i \in 1 .. n : AgreeUpTo(I, J, i - 1) BY <1>1, <1>2 DEF AgreeUpTo
<1>5. \A i \in 1 .. n - 1 : i \in J <=> i \in I BY <1>1, <1>2
<1>6. n \in J <=> FitsAt(I, n, s, used, b) BY <1>2
<1> HIDE DEF J
<1>7. ASSUME NEW i \in 1 .. n PROVE i \in J <=> FitsAt(J, i, s, used, b)
  <2>1. i \in 1 .. Len(s) /\ AgreeUpTo(I, J, i - 1) BY <1>1, <1>4
  <2>2. FitsAt(I, i, s, used, b) <=> FitsAt(J, i, s, used, b) BY <2>1, FitsSame
  <2>3. CASE i = n BY <1>6, <2>2, <2>3
  <2>4. CASE i # n
    <3>1. i \in 1 .. n - 1 BY <1>1, <2>4
    <3> QED BY <1>5, <2>2, <3>1 DEF Selects
  <2> QED BY <2>3, <2>4
<1> QED BY <1>3, <1>7 DEF Selects

(* There is such a set of indices.                                          *)
LEMMA SomeSelected ==
    ASSUME NEW X, NEW s \in Seq(X), NEW b \in [X -> Int], NEW used
    PROVE  \E I : Selects(I, Len(s), s, used, b)
<1> DEFINE P == {n \in 0 .. Len(s) : \E I : Selects(I, n, s, used, b)}
<1>1. Len(s) \in Nat BY LenProperties
<1>2. 0 \in P
  <2>1. Selects({}, 0, s, used, b) BY DEF Selects
  <2> QED BY <1>1, <2>1
<1>3. ASSUME NEW n \in 0 + 1 .. Len(s), n - 1 \in P PROVE n \in P
  <2>1. n \in 1 .. Len(s) /\ n \in 0 .. Len(s) BY <1>1
  <2>2. PICK I : Selects(I, n - 1, s, used, b) BY <1>3
  <2>3. \E J : Selects(J, n, s, used, b) BY <2>1, <2>2, SelectsNext
  <2> QED BY <2>1, <2>3
<1>4. \A n \in 0 .. Len(s) : n \in P
  <2> HIDE DEF P
  <2>1. 0 \in Nat OBVIOUS
  <2> QED BY <1>1, <1>2, <1>3, <2>1, UpTo
<1>5. Len(s) \in 0 .. Len(s) BY <1>1
<1> QED BY <1>4, <1>5

LEMMA PlanOperators ==
    /\ \A s, S : Plan!Keep(s, S) = Keep(s, S)
    /\ \A I, s, n, f : Plan!SumOver(I, s, n, f) = SumOver(I, s, n, f)
    /\ \A f : Plan!Range(f) = Range(f)
    /\ \A m, n : Plan!AtLeast(m, n) = AtLeast(m, n)
BY DEF Keep, Plan!Keep, SumOver, Plan!SumOver, Range, Plan!Range, AtLeast, Plan!AtLeast

(* schedule_capacity picks the requests at such indices.                    *)
LEMMA CapacityPicks ==
    ASSUME NEW X, NEW s \in Seq(X), NEW b \in [X -> Int], NEW used
    PROVE  \E I : /\ Selects(I, Len(s), s, used, b)
                  /\ Plan!schedule_capacity(s, used, b) = At(s, Keep(Ids(Len(s)), I))
<1> DEFINE Ok(I) == \A i \in DOMAIN s :
                        i \in I <=> /\ Cardinality(I \cap 1 .. i - 1) < max_batch_size
                                    /\ used + SumOver(I, s, i - 1, b) + b[s[i]] <= max_blocks
           J == CHOOSE I \in SUBSET DOMAIN s : Ok(I)
<1>1. DOMAIN s = 1 .. Len(s) BY LenProperties
<1>2. \A I : I \in SUBSET DOMAIN s /\ Ok(I) <=> Selects(I, Len(s), s, used, b)
  BY <1>1 DEF Selects, FitsAt
<1>3. \E I \in SUBSET DOMAIN s : Ok(I) BY <1>2, SomeSelected
<1>4. J \in SUBSET DOMAIN s /\ Ok(J)
  <2> HIDE DEF Ok
  <2> QED BY <1>3
<1>5. [i \in DOMAIN s |-> i] = Ids(Len(s)) BY <1>1 DEF Ids
<1>6. Plan!schedule_capacity(s, used, b) = At(s, Keep([i \in DOMAIN s |-> i], J))
  BY DEF Plan!schedule_capacity, At, Plan!Keep, Keep, Plan!SumOver, SumOver,
         Plan!Cardinality, Cardinality
<1> HIDE DEF J, Ok
<1> QED BY <1>2, <1>4, <1>5, <1>6

-----------------------------------------------------------------------------
(* A loop over a list: what is left of s after k turns, and what of s the   *)
(* turns so far have seen.                                                  *)

Rest(t, s, k) ==
    /\ k \in 0 .. Len(s)
    /\ Len(t) = Len(s) - k
    /\ \A j \in 1 .. Len(t) : t[j] = s[k + j]

LEMMA RestStart ==
    ASSUME NEW X, NEW s \in Seq(X)
    PROVE  Rest(s, s, 0)
BY LenProperties DEF Rest

LEMMA RestNext ==
    ASSUME NEW X, NEW s \in Seq(X), NEW t \in Seq(X), t # <<>>, NEW k, Rest(t, s, k)
    PROVE  /\ k + 1 \in 1 .. Len(s) /\ k \in Nat
           /\ Head(t) = s[k + 1]
           /\ Rest(Tail(t), s, k + 1)
<1> DEFINE u == Tail(t)
<1>1. /\ Len(t) \in Nat /\ Len(s) \in Nat /\ Len(t) # 0 /\ k \in Nat /\ Len(t) = Len(s) - k
      /\ \A j \in 1 .. Len(t) : t[j] = s[k + j]
  BY LenProperties, EmptySeq DEF Rest
<1>2. /\ Head(t) = t[1] /\ u \in Seq(X) /\ Len(u) = Len(t) - 1
      /\ \A j \in 1 .. Len(u) : u[j] = t[j + 1]
  BY HeadTailProperties, TailElements
<1> HIDE DEF u
<1>3. k + 1 \in 1 .. Len(s) /\ 1 \in 1 .. Len(t) BY <1>1
<1>4. ASSUME NEW j \in 1 .. Len(u) PROVE u[j] = s[(k + 1) + j]
  <2>1. j + 1 \in 1 .. Len(t) /\ k + (j + 1) = (k + 1) + j BY <1>1, <1>2
  <2>2. t[j + 1] = s[k + (j + 1)] BY <1>1, <2>1
  <2> QED BY <1>2, <2>1, <2>2
<1>5. Len(u) = Len(s) - (k + 1) BY <1>1, <1>2
<1>6. Rest(u, s, k + 1)
  <2> DEFINE m == k + 1
  <2>1. m \in 0 .. Len(s) BY <1>1, <1>3
  <2> QED BY <1>4, <1>5, <2>1 DEF Rest
<1> QED BY <1>1, <1>2, <1>3, <1>6 DEF u

LEMMA RestEnd ==
    ASSUME NEW X, NEW s \in Seq(X), NEW k, Rest(<<>>, s, k)
    PROVE  k = Len(s)
BY LenProperties DEF Rest

LEMMA IdsNext ==
    ASSUME NEW n \in Nat, NEW k \in 1 .. n
    PROVE  /\ Ids(k) \in Seq(1 .. n) /\ Ids(k - 1) \in Seq(1 .. n)
           /\ Ids(k) = Append(Ids(k - 1), k)
<1> DEFINE m == k - 1
<1>1. m \in Nat /\ k \in Nat /\ k = m + 1 OBVIOUS
<1>2. Ids(k) \in Seq(1 .. n) /\ Len(Ids(k)) = k /\ \A i \in 1 .. k : Ids(k)[i] = i
  <2>1. \A i \in 1 .. k : i \in 1 .. n OBVIOUS
  <2> QED BY <1>1, <2>1, IsASeq DEF Ids
<1> HIDE DEF m
<1>3. Ids(m) \in Seq(1 .. n) /\ Len(Ids(m)) = m /\ \A i \in 1 .. m : Ids(m)[i] = i
  <2>1. \A i \in 1 .. m : i \in 1 .. n BY <1>1
  <2> QED BY <1>1, <2>1, IsASeq DEF Ids
<1> DEFINE a == Append(Ids(m), k)
<1>4. /\ a \in Seq(1 .. n) /\ Len(a) = m + 1
      /\ \A i \in 1 .. m : a[i] = Ids(m)[i]
      /\ a[m + 1] = k
  BY <1>3, AppendProperties
<1> HIDE DEF a
<1>5. ASSUME NEW i \in 1 .. k PROVE a[i] = i
  <2>1. i \in 1 .. m \/ i = m + 1 BY <1>1
  <2> QED BY <1>1, <1>3, <1>4, <2>1
<1>6. Ids(k) = a
  <2>1. Len(Ids(k)) = Len(a) BY <1>1, <1>2, <1>4
  <2>2. \A i \in 1 .. Len(Ids(k)) : Ids(k)[i] = a[i] BY <1>2, <1>5
  <2> QED BY <1>2, <1>4, <2>1, <2>2, SeqEqual
<1> QED BY <1>2, <1>3, <1>6 DEF a, m

LEMMA AtAppend ==
    ASSUME NEW X, NEW s \in Seq(X), NEW c \in Seq(1 .. Len(s)), NEW i \in 1 .. Len(s)
    PROVE  /\ At(s, c) \in Seq(X)
           /\ At(s, Append(c, i)) = Append(At(s, c), s[i])
<1> DEFINE n == Len(c)
           a == Append(c, i)
           t == At(s, c)
           u == At(s, a)
           v == Append(t, s[i])
<1>1. /\ n \in Nat /\ DOMAIN c = 1 .. n /\ \A k \in 1 .. n : c[k] \in 1 .. Len(s)
      /\ \A k \in 1 .. Len(s) : s[k] \in X
  BY LenProperties
<1>2. /\ a \in Seq(1 .. Len(s)) /\ Len(a) = n + 1 /\ DOMAIN a = 1 .. n + 1 /\ a[n + 1] = i
      /\ \A k \in 1 .. n : a[k] = c[k]
  BY AppendProperties, LenProperties
<1>3. t \in Seq(X) /\ Len(t) = n /\ \A k \in 1 .. n : t[k] = s[c[k]]
  <2>1. t = [k \in 1 .. n |-> s[c[k]]] BY <1>1 DEF At
  <2>2. \A k \in 1 .. n : s[c[k]] \in X BY <1>1
  <2> HIDE DEF t
  <2> QED BY <1>1, <2>1, <2>2, IsASeq
<1> HIDE DEF t
<1>4. /\ v \in Seq(X) /\ Len(v) = n + 1 /\ v[n + 1] = s[i]
      /\ \A k \in 1 .. n : v[k] = t[k]
  BY <1>1, <1>3, AppendProperties
<1>5. u = [k \in 1 .. n + 1 |-> s[a[k]]] BY <1>2 DEF At
<1> HIDE DEF a, u, v, n
<1>6. ASSUME NEW k \in 1 .. n + 1 PROVE s[a[k]] = v[k]
  <2>1. k \in 1 .. n \/ k = n + 1 BY <1>1
  <2> QED BY <1>2, <1>3, <1>4, <2>1
<1>7. v = [k \in 1 .. n + 1 |-> v[k]]
  <2>1. DOMAIN v = 1 .. n + 1 /\ v \in [1 .. n + 1 -> X] BY <1>4, LenProperties
  <2> QED BY <2>1
<1>8. u = v
  <2> SUFFICES [k \in 1 .. n + 1 |-> s[a[k]]] = [k \in 1 .. n + 1 |-> v[k]] BY <1>5, <1>7
  <2> QED BY <1>6
<1> QED BY <1>3, <1>8 DEF t, u, v, a

(* The requests picked, of those the first turns have seen.                 *)
LEMMA PickStart ==
    ASSUME NEW s, NEW I
    PROVE  At(s, Ids(0)) = <<>> /\ At(s, Keep(Ids(0), I)) = <<>>
<1>1. Ids(0) = <<>> BY DEF Ids
<1>2. <<>> \in Seq(Nat) /\ Range(<<>>) \cap I = {} BY EmptyRange
<1>3. Keep(<<>>, I) = <<>> BY <1>2, KeepNone
<1>4. At(s, <<>>) = <<>> BY DEF At
<1> QED BY <1>1, <1>3, <1>4

LEMMA PickNext ==
    ASSUME NEW X, NEW s \in Seq(X), NEW k \in 1 .. Len(s), NEW I
    PROVE  /\ At(s, Ids(k)) = Append(At(s, Ids(k - 1)), s[k])
           /\ At(s, Ids(k - 1)) \in Seq(X) /\ s[k] \in X
           /\ At(s, Keep(Ids(k), I)) =
                  IF k \in I THEN Append(At(s, Keep(Ids(k - 1), I)), s[k])
                             ELSE At(s, Keep(Ids(k - 1), I))
<1> DEFINE d == Ids(k - 1)
           e == Keep(d, I)
<1>1. d \in Seq(1 .. Len(s)) /\ Ids(k) = Append(d, k) /\ s[k] \in X
  BY IdsNext, LenProperties
<1> HIDE DEF d
<1>2. e \in Seq(1 .. Len(s)) BY <1>1, KeepElements
<1>3. At(s, d) \in Seq(X) /\ At(s, Append(d, k)) = Append(At(s, d), s[k])
  BY <1>1, AtAppend
<1>4. Keep(Append(d, k), I) = IF k \in I THEN Append(e, k) ELSE e
  BY <1>1, KeepAppend
<1> HIDE DEF e
<1>5. At(s, Append(e, k)) = Append(At(s, e), s[k]) BY <1>2, AtAppend
<1> QED BY <1>1, <1>3, <1>4, <1>5 DEF d, e

LEMMA PickAll ==
    ASSUME NEW X, NEW s \in Seq(X)
    PROVE  At(s, Ids(Len(s))) = s
<1> DEFINE n == Len(s)
<1>1. n \in Nat /\ DOMAIN s = 1 .. n /\ s = [i \in 1 .. n |-> s[i]] BY LenProperties
<1>2. DOMAIN Ids(n) = 1 .. n /\ \A i \in 1 .. n : Ids(n)[i] = i BY DEF Ids
<1> HIDE DEF n
<1>3. At(s, Ids(n)) = [i \in 1 .. n |-> s[i]] BY <1>2 DEF At
<1> QED BY <1>1, <1>3 DEF n

(* What is kept of the seen ones is all that is kept, if no later one is.   *)
LEMMA KeptEarly ==
    ASSUME NEW X, NEW s \in Seq(X), NEW k \in 0 .. Len(s), NEW S,
           \A i \in k + 1 .. Len(s) : s[i] \notin S
    PROVE  Keep(s, S) = Keep(At(s, Ids(k)), S)
<1> DEFINE kept(i) == Keep(At(s, Ids(i)), S)
           P == {i \in k .. Len(s) : kept(i) = kept(k)}
<1>1. Len(s) \in Nat /\ k \in Nat BY LenProperties
<1>2. k \in P BY <1>1
<1>3. ASSUME NEW i \in k + 1 .. Len(s), i - 1 \in P PROVE i \in P
  <2>1. i \in 1 .. Len(s) /\ i \in k .. Len(s) BY <1>1
  <2> DEFINE a == At(s, Ids(i - 1))
  <2>2. At(s, Ids(i)) = Append(a, s[i]) /\ a \in Seq(X) /\ s[i] \in X BY <2>1, PickNext
  <2> HIDE DEF a
  <2>3. Keep(Append(a, s[i]), S) = Keep(a, S) BY <2>2, KeepAppend
  <2> QED BY <1>3, <2>1, <2>2, <2>3 DEF a
<1>4. \A i \in k .. Len(s) : i \in P
  <2> HIDE DEF P
  <2> QED BY <1>1, <1>2, <1>3, UpTo
<1>5. Len(s) \in k .. Len(s) BY <1>1
<1>6. kept(Len(s)) = kept(k) BY <1>4, <1>5
<1> QED BY <1>6, PickAll

-----------------------------------------------------------------------------
(* Tier 2.  What the first k of a list take from the budget.                *)

Taken(s, k, f) == SumOver(1 .. k, s, k, f)

LEMMA TakenNext ==
    ASSUME NEW X, NEW s \in Seq(X), NEW f \in [X -> Int]
    PROVE  /\ Taken(s, 0, f) = 0
           /\ \A k \in 1 .. Len(s) : /\ Taken(s, k, f) = Taken(s, k - 1, f) + f[s[k]]
                                     /\ Taken(s, k - 1, f) \in Int
<1> SumsUp(1 .. 0, s, f) BY SumOverNext
<1>1. Taken(s, 0, f) = 0 BY DEF Taken, SumsUp
<1>2. ASSUME NEW k \in 1 .. Len(s)
      PROVE  Taken(s, k, f) = Taken(s, k - 1, f) + f[s[k]] /\ Taken(s, k - 1, f) \in Int
  <2> DEFINE m == k - 1
  <2>1. k \in Nat /\ m \in 0 .. Len(s) /\ k \in 1 .. k BY LenProperties
  <2>2. AgreeUpTo(1 .. k, 1 .. m, m) BY <2>1 DEF AgreeUpTo
  <2>3. SumOver(1 .. k, s, k, f) = SumOver(1 .. k, s, k - 1, f) + IF k \in 1 .. k THEN f[s[k]] ELSE 0
    <3>1. SumsUp(1 .. k, s, f) BY SumOverNext
    <3> QED BY <3>1 DEF SumsUp
  <2>4. SumOver(1 .. k, s, k, f) = SumOver(1 .. k, s, m, f) + f[s[k]] BY <2>1, <2>3
  <2> HIDE DEF m
  <2>5. SumOver(1 .. k, s, m, f) = SumOver(1 .. m, s, m, f) BY <2>1, <2>2, SumOverSame
  <2>6. SumOver(1 .. m, s, m, f) \in Int BY <2>1, SumSteps
  <2> QED BY <2>4, <2>5, <2>6 DEF Taken, m
<1> QED BY <1>1, <1>2

(* A budget that is spent stays spent.                                      *)
LEMMA TakenGrows ==
    ASSUME NEW X, NEW s \in Seq(X), NEW f \in [X -> Nat], NEW k \in 0 .. Len(s)
    PROVE  \A i \in k .. Len(s) : Taken(s, k, f) <= Taken(s, i, f) /\ Taken(s, i, f) \in Int
<1> DEFINE P == {i \in k .. Len(s) : Taken(s, k, f) <= Taken(s, i, f) /\ Taken(s, i, f) \in Int}
<1>1. k \in Nat /\ Len(s) \in Nat /\ f \in [X -> Int] BY LenProperties
<1>2. /\ Taken(s, 0, f) = 0
      /\ \A i \in 1 .. Len(s) : /\ Taken(s, i, f) = Taken(s, i - 1, f) + f[s[i]]
                                /\ Taken(s, i - 1, f) \in Int
  BY <1>1, TakenNext
<1>3. \A i \in 1 .. Len(s) : f[s[i]] \in Nat BY LenProperties
<1>4. Taken(s, k, f) \in Int
  <2>1. k = 0 \/ k \in 1 .. Len(s) BY <1>1
  <2>2. CASE k = 0 BY <1>2, <2>2
  <2>3. CASE k \in 1 .. Len(s)
    <3>1. PICK x \in Int, y \in Nat : x = Taken(s, k - 1, f) /\ y = f[s[k]] BY <1>2, <1>3, <2>3
    <3>2. Taken(s, k, f) = x + y BY <1>2, <2>3, <3>1
    <3> QED BY <3>2
  <2> QED BY <2>1, <2>2, <2>3
<1>5. k \in P BY <1>1, <1>4
<1>6. ASSUME NEW i \in k + 1 .. Len(s), i - 1 \in P PROVE i \in P
  <2>1. i \in 1 .. Len(s) /\ i \in k .. Len(s) BY <1>1
  <2>2. PICK x \in Int, y \in Nat, z \in Int :
            x = Taken(s, i - 1, f) /\ y = f[s[i]] /\ z = Taken(s, k, f)
    BY <1>2, <1>3, <1>4, <2>1
  <2>3. Taken(s, i, f) = x + y /\ z <= x BY <1>2, <1>6, <2>1, <2>2
  <2> QED BY <2>1, <2>2, <2>3
<1>7. \A i \in k .. Len(s) : i \in P
  <2> HIDE DEF P
  <2> QED BY <1>1, <1>5, <1>6, UpTo
<1> QED BY <1>7

-----------------------------------------------------------------------------
(* The invariant of the call, on top of IInv: each loop has done so far     *)
(* what the closed form says of the elements that it has seen.              *)

left   == [r \in Requests |-> RemainingContext(r)]
Listed == Plan!schedule_capacity(call.waiting, call.active_blocks, blocks)
Room   == max_num_tokens - Len(call.active_gen)

TokensOf(r) ==
    Plan!ChunkOf(policy.chunking, admitted, CHOOSE i \in DOMAIN admitted : admitted[i] = r,
                 Room, left)
Partial == {r \in Range(admitted) : TokensOf(r) > 0 /\ TokensOf(r) < left[r]}
Whole   == {r \in Range(admitted) : TokensOf(r) > 0 /\ TokensOf(r) = left[r]}

CallOK ==
    /\ call.active_gen \in Seq(Requests)
    /\ left \in [Requests -> Nat]
    /\ IsInjective(admitted)
    /\ scheduled \in [context_chunking : Seq(Requests), context_last_chunk : Seq(Requests),
                      generation : Seq(Requests)]
    /\ tier # "idle" => scheduled.generation = call.active_gen
    /\ _scheduled_context_tokens \in [Requests -> Nat]

LookedAt(I, k) ==
    /\ Selects(I, Len(call.waiting), call.waiting, call.active_blocks, blocks)
    /\ Listed = At(call.waiting, Keep(Ids(Len(call.waiting)), I))
    /\ Rest(todo, call.waiting, k)
    /\ admitted = At(call.waiting, Keep(Ids(k), I))
    /\ Len(admitted) = Cardinality(I \cap 1 .. k)
    /\ blocks_used = call.active_blocks + SumOver(I, call.waiting, k, blocks)

AdmittingOK ==
    tier = "capacity" =>
        /\ scheduled.context_chunking = <<>> /\ scheduled.context_last_chunk = <<>>
        /\ \E I, k : LookedAt(I, k)

BudgetAfter(k) ==
    IF policy.chunking = "FCFS" THEN AtLeast(0, Room - Taken(admitted, k, left))
    ELSE AtLeast(1, Room \div Len(admitted))

SharedOut(k) ==
    /\ Rest(todo, admitted, k)
    /\ budget = BudgetAfter(k)
    /\ scheduled.context_chunking = Keep(At(admitted, Ids(k)), Partial)
    /\ scheduled.context_last_chunk = Keep(At(admitted, Ids(k)), Whole)
    /\ \A i \in 1 .. k : LET r == admitted[i] IN
           TokensOf(r) > 0 => _scheduled_context_tokens[r] = TokensOf(r)

ChunkingOK ==
    tier = "microbatch" =>
        admitted = Listed /\ admitted # <<>> /\ Room > 0 /\ \E k : SharedOut(k)

ReturnedOK ==
    tier = "done" =>
        /\ admitted = Listed
        /\ scheduled.context_chunking = Keep(admitted, Partial)
        /\ scheduled.context_last_chunk = Keep(admitted, Whole)
        /\ \A r \in Range(admitted) :
               TokensOf(r) > 0 => _scheduled_context_tokens[r] = TokensOf(r)

PlanInv == CallOK /\ AdmittingOK /\ ChunkingOK /\ ReturnedOK

LEMMA InitPlanInv == Init => PlanInv
<1> SUFFICES ASSUME Init PROVE PlanInv OBVIOUS
<1>1. call.active_gen \in Seq(Requests)
  <2>1. PICK n \in Nat : call.active_gen \in [1 .. n -> Requests]
    <3>1. Cardinality(Requests) \in Nat BY RequestAssumption, FS_CardinalityType
    <3> QED BY <3>1 DEF Init, Arguments, Arrangements
  <2> QED BY <2>1, IsASeq
<1>2. ASSUME NEW r \in Requests PROVE RemainingContext(r) \in Nat
  <2> DEFINE done == num_context_tokens_processed[r]
  <2>1. done \in Nat
    <3>1. PICK n : num_context_tokens_processed \in [Requests -> 0 .. n] BY DEF Init
    <3> QED BY <3>1
  <2>2. done = ContextLen[r] \/ done = 0 \/ done < ContextLen[r] BY DEF Init
  <2>3. ContextLen[r] \in Nat BY RequestAssumption
  <2> QED BY <2>1, <2>2, <2>3 DEF RemainingContext
<1>3. left \in [Requests -> Nat] BY <1>2 DEF left
<1>4. /\ tier = "idle" /\ admitted = <<>> /\ scheduled = NothingScheduled
      /\ _scheduled_context_tokens = [r \in Requests |-> 0]
  BY DEF Init, SchedulerInit
<1> QED BY <1>1, <1>3, <1>4, EmptyRange, EmptySeq
        DEF PlanInv, CallOK, AdmittingOK, ChunkingOK, ReturnedOK, NothingScheduled

(* A step keeps the arguments and what they say.                            *)
LEMMA ArgumentsKept ==
    ASSUME IInv, call' = call, policy' = policy, UNCHANGED request_vars
    PROVE  /\ blocks' = blocks /\ left' = left /\ Listed' = Listed /\ Room' = Room
           /\ policy'.chunking = policy.chunking
<1>1. \A r \in Requests : BlocksForRequest(r)' = BlocksForRequest(r)
  BY DEF BlocksForRequest
<1>2. blocks' = blocks BY <1>1 DEF blocks
<1>3. \A r \in Requests : RemainingContext(r)' = RemainingContext(r)
  BY DEF RemainingContext, request_vars
<1>4. left' = left BY <1>3 DEF left
<1>5. Listed' = Listed
  <2> HIDE DEF blocks
  <2> QED BY <1>2 DEF Listed
<1> QED BY <1>2, <1>4, <1>5 DEF Room

LEMMA ArgumentsFit ==
    ASSUME IInv, CallOK
    PROVE  /\ call.waiting \in Seq(Requests) /\ IsInjective(call.waiting)
           /\ blocks \in [Requests -> Int]
           /\ call.active_blocks \in Nat
           /\ admitted \in Seq(Requests) /\ todo \in Seq(Requests)
           /\ left \in [Requests -> Int] /\ left \in [Requests -> Nat]
           /\ Room \in Int
<1>1. blocks \in [Requests -> Int] BY BlocksForRequestType DEF blocks
<1>2. max_num_tokens \in Nat /\ max_blocks \in Nat BY SchedulerAssumption
<1>3. Room \in Int BY <1>2, LenProperties DEF Room, CallOK
<1>4. left \in [Requests -> Int]
  <2>1. \A r \in Requests : left[r] \in Int BY DEF CallOK
  <2>2. left = [r \in Requests |-> left[r]] BY DEF CallOK
  <2> QED BY <2>1, <2>2
<1> QED BY <1>1, <1>2, <1>3, <1>4 DEF IInv, ListsOK, CallOK

LEMMA StartPlan == IInv /\ PlanInv /\ Start => PlanInv'
<1> SUFFICES ASSUME IInv, PlanInv, Start PROVE PlanInv' OBVIOUS
<1>1. /\ tier' = "capacity" /\ todo' = call.waiting /\ admitted' = <<>>
      /\ blocks_used' = call.active_blocks /\ call' = call /\ policy' = policy
      /\ scheduled' = [NothingScheduled EXCEPT !.generation = call.active_gen]
      /\ _scheduled_context_tokens' = _scheduled_context_tokens /\ UNCHANGED request_vars
  BY DEF Start, ScheduleCall, scheduler_vars
<1>2. blocks' = blocks /\ left' = left /\ Listed' = Listed BY <1>1, ArgumentsKept
<1>3. scheduled' = [context_chunking |-> <<>>, context_last_chunk |-> <<>>,
                    generation |-> call.active_gen]
  BY <1>1 DEF NothingScheduled
<1>4. CallOK'
  <2>1. call.active_gen \in Seq(Requests) /\ <<>> \in Seq(Requests)
    BY EmptySeq DEF PlanInv, CallOK
  <2>2. /\ scheduled' \in [context_chunking : Seq(Requests), context_last_chunk : Seq(Requests),
                            generation : Seq(Requests)]
        /\ scheduled'.generation = call.active_gen
    BY <1>3, <2>1
  <2>3. IsInjective(admitted') BY <1>1, EmptyRange
  <2>4. left' \in [Requests -> Nat] /\ _scheduled_context_tokens' \in [Requests -> Nat]
    BY <1>1, <1>2 DEF PlanInv, CallOK
  <2> QED BY <1>1, <2>1, <2>2, <2>3, <2>4 DEF CallOK
<1>5. /\ call.waiting \in Seq(Requests) /\ blocks \in [Requests -> Int]
      /\ call.active_blocks \in Nat
  BY ArgumentsFit DEF PlanInv
<1>6. PICK I : /\ Selects(I, Len(call.waiting), call.waiting, call.active_blocks, blocks)
               /\ Listed = At(call.waiting, Keep(Ids(Len(call.waiting)), I))
  BY <1>5, CapacityPicks DEF Listed
<1>7. /\ Rest(call.waiting, call.waiting, 0)
      /\ At(call.waiting, Keep(Ids(0), I)) = <<>>
      /\ SumOver(I, call.waiting, 0, blocks) = 0
      /\ I \cap 1 .. 0 = {} /\ Cardinality({}) = 0 /\ Len(<<>>) = 0
  <2>1. Rest(call.waiting, call.waiting, 0) BY <1>5, RestStart
  <2>2. SumOver(I, call.waiting, 0, blocks) = 0
    <3>1. SumsUp(I, call.waiting, blocks) BY <1>5, SumOverNext
    <3> QED BY <3>1 DEF SumsUp
  <2>3. At(call.waiting, Keep(Ids(0), I)) = <<>> BY PickStart
  <2>4. I \cap 1 .. 0 = {} /\ Cardinality({}) = 0 BY FS_EmptySet
  <2> QED BY <2>1, <2>2, <2>3, <2>4
<1>8. call.active_blocks = call.active_blocks + SumOver(I, call.waiting, 0, blocks)
  BY <1>5, <1>7
<1>9. LookedAt(I, 0)'
  BY <1>1, <1>2, <1>6, <1>7, <1>8 DEF LookedAt
<1>10. AdmittingOK' BY <1>3, <1>9 DEF AdmittingOK
<1> QED BY <1>1, <1>4, <1>10 DEF PlanInv, ChunkingOK, ReturnedOK

(* One turn of schedule_capacity.                                           *)
LEMMA AdmitPlan == IInv /\ PlanInv /\ AdmitNext /\ UNCHANGED <<call, request_vars>> => PlanInv'
<1> SUFFICES ASSUME IInv, PlanInv, AdmitNext, UNCHANGED <<call, request_vars>> PROVE PlanInv'
  OBVIOUS
<1> DEFINE r == Head(todo)
           s == call.waiting
<1>1. /\ tier = "capacity" /\ todo # <<>> /\ tier' = tier /\ policy' = policy
      /\ todo' = Tail(todo) /\ scheduled' = scheduled /\ call' = call
      /\ _scheduled_context_tokens' = _scheduled_context_tokens
  BY DEF AdmitNext
<1>2. blocks' = blocks /\ left' = left /\ Listed' = Listed BY <1>1, ArgumentsKept
<1>3. /\ s \in Seq(Requests) /\ blocks \in [Requests -> Int] /\ call.active_blocks \in Nat
      /\ admitted \in Seq(Requests) /\ todo \in Seq(Requests)
  BY ArgumentsFit DEF PlanInv
<1>4. PICK I, k : LookedAt(I, k) BY <1>1 DEF PlanInv, AdmittingOK
<1>5. k + 1 \in 1 .. Len(s) /\ k \in Nat /\ r = s[k + 1] /\ Rest(todo', s, k + 1)
  BY <1>1, <1>3, <1>4, RestNext DEF LookedAt
<1> DEFINE n == k + 1
<1>6. n \in 1 .. Len(s) /\ n - 1 = k /\ r = s[n] /\ Rest(todo', s, n) BY <1>5
<1>7. r \in Requests /\ blocks[r] = BlocksForRequest(r)
  BY <1>3, <1>6, LenProperties DEF blocks
<1>8. /\ r \notin Range(admitted)
  BY <1>1, <1>3, TailElements DEF IInv, LookedAtOnce
<1>9. Fits(r) <=> FitsAt(I, n, s, call.active_blocks, blocks)
  BY <1>4, <1>6, <1>7 DEF LookedAt, Fits, FitsInBatch, FitsAt
<1>10. n \in I <=> Fits(r) BY <1>4, <1>6, <1>9 DEF LookedAt, Selects
<1>11. I \cap 1 .. n = (IF n \in I THEN (I \cap 1 .. k) \cup {n} ELSE I \cap 1 .. k)
       /\ n \notin I \cap 1 .. k
  BY <1>5
<1>12. IsFiniteSet(I \cap 1 .. k) /\ Cardinality(I \cap 1 .. k) \in Nat
  <2>1. IsFiniteSet(1 .. k) BY <1>5, FS_Interval
  <2>2. I \cap 1 .. k \in SUBSET (1 .. k) OBVIOUS
  <2>3. IsFiniteSet(I \cap 1 .. k) BY <2>1, <2>2, FS_Subset
  <2> QED BY <2>3, FS_CardinalityType
<1>13. Cardinality((I \cap 1 .. k) \cup {n}) = Cardinality(I \cap 1 .. k) + 1
  BY <1>11, <1>12, FS_AddElement
<1>14. SumOver(I, s, n, blocks) = SumOver(I, s, k, blocks) + IF n \in I THEN blocks[r] ELSE 0
  <2> HIDE DEF n, r, s
  <2>1. SumOver(I, s, n, blocks) = SumOver(I, s, n - 1, blocks) + IF n \in I THEN blocks[s[n]] ELSE 0
    <3>1. SumsUp(I, s, blocks) BY <1>3, SumOverNext
    <3> QED BY <1>6, <3>1 DEF SumsUp
  <2> QED BY <1>6, <2>1
<1>15. At(s, Keep(Ids(n), I)) = IF n \in I THEN Append(At(s, Keep(Ids(k), I)), r)
                                           ELSE At(s, Keep(Ids(k), I))
  <2> HIDE DEF n, r, s
  <2>1. s \in Seq(Requests) /\ n \in 1 .. Len(s) BY <1>3, <1>6
  <2>2. At(s, Keep(Ids(n), I)) = IF n \in I THEN Append(At(s, Keep(Ids(n - 1), I)), s[n])
                                             ELSE At(s, Keep(Ids(n - 1), I))
    BY ONLY <2>1, PickNext
  <2> QED BY <1>6, <2>2
<1>16. SumOver(I, s, k, blocks) \in Int
  <2>1. k \in 0 .. Len(s) BY <1>3, <1>5, LenProperties
  <2> QED BY <1>3, <2>1, SumSteps
<1>17. BlocksForRequest(r) \in Nat BY <1>7, BlocksForRequestType
<1>18. /\ admitted' = At(s, Keep(Ids(n), I))
       /\ Len(admitted') = Cardinality(I \cap 1 .. n)
       /\ blocks_used' = call.active_blocks + SumOver(I, s, n, blocks)
       /\ IsInjective(admitted')
  <2>1. CASE Fits(r)
    <3>1. admitted' = Append(admitted, r) /\ blocks_used' = blocks_used + BlocksForRequest(r)
      BY <2>1 DEF AdmitNext
    <3>2. Len(admitted') = Len(admitted) + 1 BY <1>3, <1>7, <3>1, AppendProperties
    <3>3. IsInjective(admitted')
      BY <1>3, <1>7, <1>8, <3>1, AppendElements DEF PlanInv, CallOK
    <3> HIDE DEF r, s, n
    <3>4. admitted' = At(s, Keep(Ids(n), I))
      BY <1>4, <1>10, <1>15, <2>1, <3>1 DEF LookedAt, s
    <3>5. Len(admitted') = Cardinality(I \cap 1 .. n)
      BY <1>4, <1>10, <1>11, <1>13, <2>1, <3>2 DEF LookedAt
    <3>6. blocks_used = call.active_blocks + SumOver(I, s, k, blocks)
      BY <1>4 DEF LookedAt, s
    <3>7. SumOver(I, s, n, blocks) = SumOver(I, s, k, blocks) + BlocksForRequest(r)
      BY <1>7, <1>10, <1>14, <2>1
    <3>8. blocks_used' = call.active_blocks + SumOver(I, s, n, blocks)
      BY <1>3, <1>16, <1>17, <3>1, <3>6, <3>7
    <3> QED BY <3>3, <3>4, <3>5, <3>8
  <2>2. CASE ~Fits(r)
    <3>1. admitted' = admitted /\ blocks_used' = blocks_used
      BY <2>2 DEF AdmitNext
    <3> HIDE DEF r, s, n
    <3>2. admitted' = At(s, Keep(Ids(n), I))
      BY <1>4, <1>10, <1>15, <2>2, <3>1 DEF LookedAt, s
    <3>3. Len(admitted') = Cardinality(I \cap 1 .. n)
      BY <1>4, <1>10, <1>11, <2>2, <3>1 DEF LookedAt
    <3>4. SumOver(I, s, n, blocks) = SumOver(I, s, k, blocks)
      BY <1>10, <1>14, <1>16, <2>2
    <3>5. blocks_used' = call.active_blocks + SumOver(I, s, n, blocks)
      BY <1>4, <3>1, <3>4 DEF LookedAt, s
    <3> QED BY <3>1, <3>2, <3>3, <3>5 DEF PlanInv, CallOK
  <2> QED BY <2>1, <2>2
<1>19. LookedAt(I, n)'
  <2> HIDE DEF n
  <2>1. Selects(I, Len(s), s, call.active_blocks, blocks)
        /\ Listed = At(s, Keep(Ids(Len(s)), I))
    BY <1>4 DEF LookedAt
  <2> QED BY <1>1, <1>2, <1>6, <1>18, <2>1 DEF LookedAt
<1>20. AdmittingOK'
  BY <1>1, <1>19 DEF AdmittingOK, PlanInv
<1>21. CallOK' BY <1>1, <1>2, <1>18 DEF PlanInv, CallOK
<1> QED BY <1>1, <1>20, <1>21 DEF PlanInv, ChunkingOK, ReturnedOK

(* What tier 2 gives the request at index i.                                *)
ShareAt(i) ==
    IF Room <= 0 THEN 0
    ELSE IF policy.chunking = "FCFS"
    THEN AtLeast(0, Plan!AtMost(Room - Taken(admitted, i - 1, left), left[admitted[i]]))
    ELSE Plan!AtMost(AtLeast(1, Room \div Len(admitted)), left[admitted[i]])

LEMMA SharesAre ==
    ASSUME IInv, CallOK, NEW i \in 1 .. Len(admitted)
    PROVE  TokensOf(admitted[i]) = ShareAt(i)
<1>1. DOMAIN admitted = 1 .. Len(admitted) BY LenProperties DEF IInv, ListsOK
<1>2. (CHOOSE j \in DOMAIN admitted : admitted[j] = admitted[i]) = i
  <2>1. \A j \in DOMAIN admitted : admitted[j] = admitted[i] <=> j = i
    BY <1>1 DEF CallOK, IsInjective
  <2> QED BY <1>1, <2>1
<1>3. TokensOf(admitted[i]) = Plan!ChunkOf(policy.chunking, admitted, i, Room, left)
  BY <1>2 DEF TokensOf
<1> QED BY <1>3 DEF Plan!ChunkOf, ShareAt, Taken, SumOver, Plan!SumOver, AtLeast, Plan!AtLeast

LEMMA SharesKept ==
    ASSUME admitted' = admitted, policy' = policy, Room' = Room, left' = left
    PROVE  /\ \A r : TokensOf(r)' = TokensOf(r)
           /\ Partial' = Partial /\ Whole' = Whole
           /\ \A k : BudgetAfter(k)' = BudgetAfter(k)
<1>1. \A r : TokensOf(r)' = TokensOf(r) BY DEF TokensOf
<1>2. Partial' = Partial /\ Whole' = Whole BY <1>1 DEF Partial, Whole
<1> QED BY <1>1, <1>2 DEF BudgetAfter

LEMMA ChunkingIs ==
    ASSUME IInv
    PROVE  policy.chunking \in {"EQUAL_PROGRESS", "FCFS"}
BY SchedulerAssumption DEF IInv, ListsOK, AllPolicies

(* The generation requests and what they leave.                             *)
LEMMA StartMicrobatchPlan ==
    IInv /\ PlanInv /\ StartMicrobatch /\ UNCHANGED <<call, request_vars>> => PlanInv'
<1> SUFFICES ASSUME IInv, PlanInv, StartMicrobatch, UNCHANGED <<call, request_vars>>
             PROVE  PlanInv'
  OBVIOUS
<1>1. /\ tier = "capacity" /\ todo = <<>> /\ policy' = policy /\ admitted' = admitted
      /\ scheduled' = scheduled /\ call' = call
      /\ _scheduled_context_tokens' = _scheduled_context_tokens
  BY DEF StartMicrobatch
<1>2. left' = left /\ Listed' = Listed /\ Room' = Room BY <1>1, ArgumentsKept
<1>3. /\ call.waiting \in Seq(Requests) /\ admitted \in Seq(Requests) /\ Room \in Int
      /\ left \in [Requests -> Int]
  BY ArgumentsFit DEF PlanInv
<1>4. admitted = Listed
  <2>1. PICK I, k : LookedAt(I, k) BY <1>1 DEF PlanInv, AdmittingOK
  <2>2. k = Len(call.waiting) BY <1>1, <1>3, <2>1, RestEnd DEF LookedAt
  <2> QED BY <2>1, <2>2 DEF LookedAt
<1>5. scheduled.context_chunking = <<>> /\ scheduled.context_last_chunk = <<>>
  BY <1>1 DEF PlanInv, AdmittingOK
<1>6. RemainingBudget = Room BY <1>1 DEF RemainingBudget, Room, PlanInv, CallOK
<1>7. CallOK' BY <1>1, <1>2 DEF PlanInv, CallOK
<1>8. /\ \A r : TokensOf(r)' = TokensOf(r)
      /\ Partial' = Partial /\ Whole' = Whole
      /\ \A k : BudgetAfter(k)' = BudgetAfter(k)
  BY <1>1, <1>2, SharesKept
<1>9. CASE admitted = <<>> \/ Room <= 0
  <2>1. tier' = "done" BY <1>6, <1>9 DEF StartMicrobatch
  <2>2. ASSUME NEW r \in Range(admitted) PROVE TokensOf(r) = 0
    <3>1. PICK i \in 1 .. Len(admitted) : r = admitted[i] BY <1>3, ElementsOfSeq
    <3>2. TokensOf(r) = ShareAt(i) BY <3>1, SharesAre DEF PlanInv
    <3>3. admitted # <<>> BY EmptyRange
    <3> QED BY <1>9, <3>2, <3>3 DEF ShareAt
  <2>3. Range(admitted) \cap Partial = {} /\ Range(admitted) \cap Whole = {}
    BY <2>2 DEF Partial, Whole
  <2>4. Keep(admitted, Partial) = <<>> /\ Keep(admitted, Whole) = <<>>
    BY <1>3, <2>3, KeepNone
  <2>5. ReturnedOK' BY <1>1, <1>2, <1>4, <1>5, <1>8, <2>2, <2>4 DEF ReturnedOK
  <2> QED BY <1>7, <2>1, <2>5 DEF PlanInv, AdmittingOK, ChunkingOK
<1>10. CASE ~(admitted = <<>> \/ Room <= 0)
  <2>1. /\ tier' = "microbatch" /\ todo' = admitted
        /\ budget' = IF policy.chunking = "FCFS" THEN Room ELSE AtLeast(1, Room \div Len(admitted))
    BY <1>6, <1>10 DEF StartMicrobatch, PerRequest
  <2>2. Taken(admitted, 0, left) = 0 BY <1>3, TakenNext
  <2>3. budget' = BudgetAfter(0) BY <1>3, <1>10, <2>1, <2>2 DEF BudgetAfter, AtLeast
  <2>4. Rest(admitted, admitted, 0) BY <1>3, RestStart
  <2>5. At(admitted, Ids(0)) = <<>> BY PickStart
  <2>6. /\ Keep(At(admitted, Ids(0)), Partial) = <<>>
        /\ Keep(At(admitted, Ids(0)), Whole) = <<>>
    <3>1. <<>> \in Seq(Requests) BY EmptySeq
    <3>2. Range(<<>>) \cap Partial = {} /\ Range(<<>>) \cap Whole = {} BY EmptyRange
    <3> QED BY <2>5, <3>1, <3>2, KeepNone
  <2>7. SharedOut(0)' BY <1>1, <1>5, <1>8, <2>1, <2>3, <2>4, <2>6 DEF SharedOut
  <2>8. ChunkingOK' BY <1>1, <1>2, <1>4, <1>3, <1>10, <2>7 DEF ChunkingOK
  <2> QED BY <1>7, <2>1, <2>8 DEF PlanInv, AdmittingOK, ReturnedOK
<1> QED BY <1>9, <1>10

(* The end of both loops, or the break out of the first one.                *)
LEMMA EndMicrobatchPlan ==
    IInv /\ PlanInv /\ EndMicrobatch /\ UNCHANGED <<call, request_vars>> => PlanInv'
<1> SUFFICES ASSUME IInv, PlanInv, EndMicrobatch, UNCHANGED <<call, request_vars>>
             PROVE  PlanInv'
  OBVIOUS
<1>1. /\ tier = "microbatch" /\ tier' = "done" /\ policy' = policy /\ admitted' = admitted
      /\ scheduled' = scheduled /\ call' = call
      /\ todo = <<>> \/ Spent
      /\ _scheduled_context_tokens' = _scheduled_context_tokens
  BY DEF EndMicrobatch
<1>2. left' = left /\ Listed' = Listed /\ Room' = Room BY <1>1, ArgumentsKept
<1>3. /\ admitted \in Seq(Requests) /\ Room \in Int
      /\ left \in [Requests -> Int] /\ left \in [Requests -> Nat]
  BY ArgumentsFit DEF PlanInv
<1>4. PICK k : SharedOut(k) BY <1>1 DEF PlanInv, ChunkingOK
<1>5. k \in 0 .. Len(admitted) /\ Len(admitted) \in Nat /\ admitted = Listed /\ Room > 0
  BY <1>1, <1>3, <1>4, LenProperties DEF SharedOut, Rest, PlanInv, ChunkingOK
<1>6. ASSUME NEW i \in k + 1 .. Len(admitted) PROVE TokensOf(admitted[i]) = 0
  <2> DEFINE m == i - 1
  <2>1. i \in 1 .. Len(admitted) /\ m \in k .. Len(admitted) BY <1>5
  <2>2. Spent
    <3> SUFFICES todo # <<>> BY <1>1
    <3>1. CASE todo = <<>>
      <4>1. k = Len(admitted) BY <1>3, <1>4, <3>1, RestEnd DEF SharedOut
      <4> QED BY <1>5, <4>1
    <3> QED BY <3>1
  <2>3. TokensOf(admitted[i]) = ShareAt(i) BY <2>1, SharesAre DEF PlanInv
  <2> HIDE DEF m
  <2>4. /\ Taken(admitted, k, left) <= Taken(admitted, m, left)
        /\ Taken(admitted, m, left) \in Int /\ Taken(admitted, k, left) \in Int
    <3>1. k \in k .. Len(admitted) BY <1>5
    <3> QED BY <1>3, <1>5, <2>1, <3>1, TakenGrows
  <2>5. left[admitted[i]] \in Nat BY <1>3, <2>1, LenProperties
  <2>6. policy.chunking = "FCFS" /\ budget <= 0 /\ budget = BudgetAfter(k)
    BY <1>4, <2>2 DEF Spent, SharedOut
  <2>7. Room - Taken(admitted, k, left) <= 0
    BY <1>3, <2>4, <2>6 DEF BudgetAfter, AtLeast
  <2>8. Room - Taken(admitted, m, left) <= 0 BY <1>3, <2>4, <2>7
  <2>9. ShareAt(i) = AtLeast(0, Plan!AtMost(Room - Taken(admitted, m, left), left[admitted[i]]))
    <3>1. ~(Room <= 0) BY <1>3, <1>5
    <3> QED BY <2>6, <3>1 DEF ShareAt, m
  <2>10. ShareAt(i) = 0
    <3> DEFINE x == Room - Taken(admitted, m, left)
               y == left[admitted[i]]
    <3>1. x \in Int /\ y \in Nat /\ x <= 0 BY <1>3, <2>4, <2>5, <2>8
    <3>2. ShareAt(i) = AtLeast(0, Plan!AtMost(x, y)) BY <2>9
    <3> HIDE DEF x, y
    <3> QED BY <3>1, <3>2 DEF AtLeast, Plan!AtMost
  <2> QED BY <2>3, <2>10
<1>7. \A i \in k + 1 .. Len(admitted) : admitted[i] \notin Partial /\ admitted[i] \notin Whole
  BY <1>6 DEF Partial, Whole
<1>8. /\ Keep(admitted, Partial) = Keep(At(admitted, Ids(k)), Partial)
      /\ Keep(admitted, Whole) = Keep(At(admitted, Ids(k)), Whole)
  BY <1>3, <1>5, <1>7, KeptEarly
<1>9. ASSUME NEW r \in Range(admitted), TokensOf(r) > 0
      PROVE  _scheduled_context_tokens[r] = TokensOf(r)
  <2>1. PICK i \in 1 .. Len(admitted) : r = admitted[i] BY <1>3, ElementsOfSeq
  <2>2. i \in 1 .. k \/ i \in k + 1 .. Len(admitted) BY <1>5
  <2>3. i \in 1 .. k BY <1>6, <1>9, <2>1, <2>2
  <2> QED BY <1>4, <1>9, <2>1, <2>3 DEF SharedOut
<1>10. \A r : TokensOf(r)' = TokensOf(r) BY <1>1, <1>2, SharesKept
<1>11. Partial' = Partial /\ Whole' = Whole BY <1>1, <1>2, SharesKept
<1>12. CallOK'
  <2>1. CallOK /\ tier # "idle" BY <1>1 DEF PlanInv
  <2> QED BY <1>1, <1>2, <2>1 DEF CallOK
<1>13. ReturnedOK'
  <2>1. admitted' = Listed' BY <1>1, <1>2, <1>5
  <2>2. /\ scheduled'.context_chunking = Keep(admitted', Partial')
        /\ scheduled'.context_last_chunk = Keep(admitted', Whole')
    BY <1>1, <1>4, <1>8, <1>11 DEF SharedOut
  <2>3. \A r \in Range(admitted') :
            TokensOf(r)' > 0 => _scheduled_context_tokens'[r] = TokensOf(r)'
    BY <1>1, <1>9, <1>10
  <2> QED BY <2>1, <2>2, <2>3 DEF ReturnedOK
<1> QED BY <1>1, <1>12, <1>13 DEF PlanInv, AdmittingOK, ChunkingOK

(* One turn of _schedule_fcfs or _schedule_equal_progress.                  *)
LEMMA TurnGivesShare ==
    ASSUME IInv, PlanInv, tier = "microbatch", todo # <<>>, ~Spent,
           NEW k, SharedOut(k), NEW r, r = Head(todo)
    PROVE  /\ k + 1 \in 1 .. Len(admitted) /\ k \in Nat /\ r = admitted[k + 1] /\ r \in Requests
           /\ Rest(Tail(todo), admitted, k + 1)
           /\ left[r] = RemainingContext(r) /\ left[r] \in Nat
           /\ budget \in Nat \ {0}
           /\ ChunkSize(r) = TokensOf(r) /\ TokensOf(r) \in Nat /\ TokensOf(r) <= left[r]
           /\ (IF policy.chunking = "FCFS" THEN budget - TokensOf(r) ELSE budget)
                  = BudgetAfter(k + 1)
<1> DEFINE n == k + 1
<1>1. /\ admitted \in Seq(Requests) /\ todo \in Seq(Requests) /\ Room \in Int
      /\ left \in [Requests -> Int] /\ left \in [Requests -> Nat]
  BY ArgumentsFit DEF PlanInv
<1>2. n \in 1 .. Len(admitted) /\ k \in Nat /\ r = admitted[n] /\ Rest(Tail(todo), admitted, n)
  BY <1>1, RestNext DEF SharedOut
<1>3. n - 1 = k /\ n \in Nat BY <1>2
<1>4. r \in Requests /\ left[r] = RemainingContext(r) /\ left[r] \in Nat
  <2>1. r \in Requests BY <1>1, <1>2, LenProperties
  <2> QED BY <1>1, <2>1 DEF left
<1>5. Room > 0 /\ budget = BudgetAfter(k) BY DEF PlanInv, ChunkingOK, SharedOut
<1> DEFINE before == Taken(admitted, k, left)
           after  == Taken(admitted, n, left)
           share  == AtLeast(1, Room \div Len(admitted))
<1> HIDE DEF n
<1>6. /\ after = before + left[r]
      /\ before \in Int
  BY <1>1, <1>2, <1>3, TakenNext
<1>7. share \in Nat \ {0}
  <2> DEFINE q == Room \div Len(admitted)
  <2>1. Len(admitted) \in Nat \ {0} BY <1>1, <1>2, LenProperties
  <2>2. q \in Int BY <1>1, <2>1
  <2> HIDE DEF q
  <2> QED BY <2>2 DEF AtLeast, q
<1>8. TokensOf(r) = ShareAt(n) BY <1>2, SharesAre DEF PlanInv
<1>9. ShareAt(n) = IF policy.chunking = "FCFS"
                   THEN AtLeast(0, Plan!AtMost(Room - before, left[r]))
                   ELSE Plan!AtMost(share, left[r])
  <2>1. ~(Room <= 0) BY <1>1, <1>5
  <2> QED BY <1>2, <1>3, <2>1 DEF ShareAt
<1>10. /\ BudgetAfter(k) = (IF policy.chunking = "FCFS" THEN AtLeast(0, Room - before) ELSE share)
       /\ BudgetAfter(n) = (IF policy.chunking = "FCFS" THEN AtLeast(0, Room - after) ELSE share)
  BY DEF BudgetAfter
<1>11. ChunkSize(r) = IF budget < left[r] THEN budget ELSE left[r]
  BY <1>4 DEF ChunkSize
<1> HIDE DEF before, after, share
<1>12. CASE policy.chunking = "FCFS"
  <2>1. budget = AtLeast(0, Room - before) /\ ~(budget <= 0)
    BY <1>5, <1>10, <1>12 DEF Spent
  <2>2. budget = Room - before /\ budget \in Nat \ {0}
    BY <1>1, <1>6, <2>1 DEF AtLeast
  <2> DEFINE b == budget
             l == left[r]
  <2>3. b \in Nat \ {0} /\ l \in Nat /\ Room - after = b - l
    BY <1>1, <1>4, <1>6, <2>2
  <2>4. TokensOf(r) = AtLeast(0, Plan!AtMost(b, l)) BY <1>8, <1>9, <1>12, <2>2
  <2>5. BudgetAfter(n) = AtLeast(0, b - l) BY <1>10, <1>12, <2>3
  <2>6. ChunkSize(r) = IF b < l THEN b ELSE l BY <1>11
  <2>7. b = budget /\ l = left[r] OBVIOUS
  <2> HIDE DEF b, l
  <2>8. TokensOf(r) = IF b < l THEN b ELSE l
    BY <2>3, <2>4 DEF AtLeast, Plan!AtMost
  <2>9. b - TokensOf(r) = AtLeast(0, b - l) BY <2>3, <2>8 DEF AtLeast
  <2>10. TokensOf(r) \in Nat /\ TokensOf(r) <= l BY <2>3, <2>8
  <2> QED BY <1>2, <1>4, <1>12, <2>2, <2>5, <2>6, <2>7, <2>8, <2>9, <2>10 DEF n
<1>13. CASE policy.chunking # "FCFS"
  <2>1. budget = share /\ BudgetAfter(n) = share BY <1>5, <1>10, <1>13
  <2> DEFINE l == left[r]
  <2>2. TokensOf(r) = Plan!AtMost(share, l) BY <1>8, <1>9, <1>13
  <2>3. ChunkSize(r) = IF share < l THEN share ELSE l BY <1>11, <2>1
  <2>4. l \in Nat /\ l = left[r] BY <1>4
  <2> HIDE DEF l
  <2>5. TokensOf(r) = IF share < l THEN share ELSE l
    BY <1>7, <2>2, <2>4 DEF Plan!AtMost
  <2>6. TokensOf(r) \in Nat /\ TokensOf(r) <= l BY <1>7, <2>4, <2>5
  <2> QED BY <1>2, <1>4, <1>7, <1>13, <2>1, <2>3, <2>4, <2>5, <2>6 DEF n
<1> QED BY <1>12, <1>13

LEMMA ChunkPlan == IInv /\ PlanInv /\ ChunkNext /\ UNCHANGED <<call, request_vars>> => PlanInv'
<1> SUFFICES ASSUME IInv, PlanInv, ChunkNext, UNCHANGED <<call, request_vars>> PROVE PlanInv'
  OBVIOUS
<1>1. /\ tier = "microbatch" /\ todo # <<>> /\ ~Spent /\ tier' = tier /\ policy' = policy
      /\ admitted' = admitted /\ todo' = Tail(todo) /\ call' = call
  BY DEF ChunkNext
<1>2. left' = left /\ Listed' = Listed /\ Room' = Room BY <1>1, ArgumentsKept
<1>3. PICK k : SharedOut(k) BY <1>1 DEF PlanInv, ChunkingOK
<1>4. PICK r : r = Head(todo) OBVIOUS
<1> DEFINE size == TokensOf(r)
           full == size = left[r]
<1>5. PICK n : n = k + 1 OBVIOUS
<1>6. /\ n \in 1 .. Len(admitted) /\ k \in Nat /\ r = admitted[n] /\ r \in Requests
      /\ Rest(todo', admitted, n)
      /\ left[r] = RemainingContext(r) /\ left[r] \in Nat /\ budget \in Nat \ {0}
      /\ ChunkSize(r) = size /\ size \in Nat /\ size <= left[r]
      /\ (IF policy.chunking = "FCFS" THEN budget - size ELSE budget) = BudgetAfter(n)
  BY <1>1, <1>3, <1>4, <1>5, TurnGivesShare
<1>7. /\ admitted \in Seq(Requests) /\ DOMAIN admitted = 1 .. Len(admitted)
      /\ Len(admitted) \in Nat
  BY ArgumentsFit, LenProperties DEF PlanInv
<1>8. n \in Nat /\ n - 1 = k BY <1>5, <1>6
<1>9. IsLast(r) <=> full BY <1>6 DEF IsLast
<1>10. r \in Whole <=> size > 0 /\ full
  <2>1. r \in Range(admitted) BY <1>6, <1>7, ElementsOfSeq
  <2> QED BY <2>1 DEF Whole
<1>11. r \in Partial <=> size > 0 /\ ~full
  <2>1. r \in Range(admitted) BY <1>6, <1>7, ElementsOfSeq
  <2> QED BY <1>6, <2>1 DEF Partial
<1> DEFINE seen == At(admitted, Ids(k))
           seen2 == At(admitted, Ids(n))
<1>12. seen \in Seq(Requests) /\ seen2 = Append(seen, r)
  <2> HIDE DEF seen, seen2
  <2>1. At(admitted, Ids(n)) = Append(At(admitted, Ids(n - 1)), admitted[n])
        /\ At(admitted, Ids(n - 1)) \in Seq(Requests)
    BY <1>6, <1>7, PickNext
  <2> QED BY <1>6, <1>8, <2>1 DEF seen, seen2
<1> HIDE DEF size, full, seen, seen2
<1>13. /\ Keep(seen2, Partial) = IF size > 0 /\ ~full THEN Append(Keep(seen, Partial), r)
                                                     ELSE Keep(seen, Partial)
       /\ Keep(seen2, Whole) = IF size > 0 /\ full THEN Append(Keep(seen, Whole), r)
                                                  ELSE Keep(seen, Whole)
  <2>0. seen \in Seq(Requests) /\ r \in Requests BY <1>6, <1>12
  <2>1. Keep(Append(seen, r), Partial) =
            IF r \in Partial THEN Append(Keep(seen, Partial), r) ELSE Keep(seen, Partial)
    BY ONLY <2>0, KeepAppend
  <2>2. Keep(Append(seen, r), Whole) =
            IF r \in Whole THEN Append(Keep(seen, Whole), r) ELSE Keep(seen, Whole)
    BY ONLY <2>0, KeepAppend
  <2> QED BY <1>10, <1>11, <1>12, <2>1, <2>2
<1>14. /\ scheduled.context_chunking = Keep(seen, Partial)
       /\ scheduled.context_last_chunk = Keep(seen, Whole)
  BY <1>3 DEF SharedOut, seen
<1>15. scheduled \in [context_chunking : Seq(Requests), context_last_chunk : Seq(Requests),
                      generation : Seq(Requests)]
       /\ scheduled.generation = call.active_gen
       /\ _scheduled_context_tokens \in [Requests -> Nat] /\ IsInjective(admitted)
  BY <1>1 DEF PlanInv, CallOK
<1>16. /\ budget' = BudgetAfter(n)
       /\ scheduled'.context_chunking = Keep(seen2, Partial)
       /\ scheduled'.context_last_chunk = Keep(seen2, Whole)
       /\ scheduled'.generation = call.active_gen
       /\ scheduled' \in [context_chunking : Seq(Requests), context_last_chunk : Seq(Requests),
                          generation : Seq(Requests)]
       /\ _scheduled_context_tokens' =
              IF size > 0 THEN [_scheduled_context_tokens EXCEPT ![r] = size]
                          ELSE _scheduled_context_tokens
  <2>1. CASE size <= 0
    <3>1. /\ budget' = budget /\ scheduled' = scheduled
          /\ _scheduled_context_tokens' = _scheduled_context_tokens
      BY <1>4, <1>6, <2>1 DEF ChunkNext
    <3>2. ~(size > 0) /\ budget - size = budget BY <1>6, <2>1
    <3> QED BY <1>6, <1>13, <1>14, <1>15, <3>1, <3>2
  <2>2. CASE size > 0
    <3>1. /\ budget' = IF policy.chunking = "FCFS" THEN budget - size ELSE budget
          /\ _scheduled_context_tokens' = [_scheduled_context_tokens EXCEPT ![r] = size]
          /\ scheduled' = IF full
                          THEN [scheduled EXCEPT !.context_last_chunk = Append(@, r)]
                          ELSE [scheduled EXCEPT !.context_chunking = Append(@, r)]
      <4>1. ~(ChunkSize(r) <= 0) BY <1>6, <2>2
      <4> QED BY <1>4, <1>6, <1>9, <4>1 DEF ChunkNext, Spend
    <3> DEFINE last == Append(scheduled.context_last_chunk, r)
               part == Append(scheduled.context_chunking, r)
    <3>2. last \in Seq(Requests) /\ part \in Seq(Requests)
      BY <1>6, <1>15, AppendProperties
    <3>3. CASE full
      <4>1. scheduled' = [scheduled EXCEPT !.context_last_chunk = last] BY <3>1, <3>3
      <4>2. last = Keep(seen2, Whole) /\ scheduled.context_chunking = Keep(seen2, Partial)
        BY <1>13, <1>14, <2>2, <3>3
      <4> HIDE DEF last, part
      <4>3. /\ scheduled'.context_last_chunk = last
            /\ scheduled'.context_chunking = scheduled.context_chunking
            /\ scheduled'.generation = scheduled.generation
            /\ scheduled' \in [context_chunking : Seq(Requests),
                               context_last_chunk : Seq(Requests), generation : Seq(Requests)]
        BY <1>15, <3>2, <4>1
      <4> QED BY <1>6, <1>15, <2>2, <3>1, <4>2, <4>3
    <3>4. CASE ~full
      <4>1. scheduled' = [scheduled EXCEPT !.context_chunking = part] BY <3>1, <3>4
      <4>2. part = Keep(seen2, Partial) /\ scheduled.context_last_chunk = Keep(seen2, Whole)
        BY <1>13, <1>14, <2>2, <3>4
      <4> HIDE DEF last, part
      <4>3. /\ scheduled'.context_chunking = part
            /\ scheduled'.context_last_chunk = scheduled.context_last_chunk
            /\ scheduled'.generation = scheduled.generation
            /\ scheduled' \in [context_chunking : Seq(Requests),
                               context_last_chunk : Seq(Requests), generation : Seq(Requests)]
        BY <1>15, <3>2, <4>1
      <4> QED BY <1>6, <1>15, <2>2, <3>1, <4>2, <4>3
    <3> QED BY <3>3, <3>4
  <2> QED BY <1>6, <2>1, <2>2
<1>17. ASSUME NEW i \in 1 .. n, TokensOf(admitted[i]) > 0
       PROVE  _scheduled_context_tokens'[admitted[i]] = TokensOf(admitted[i])
  <2>1. i \in 1 .. Len(admitted) /\ admitted[i] \in Requests BY <1>6, <1>7, LenProperties
  <2>2. CASE i = n
    BY <1>6, <1>15, <1>16, <1>17, <2>2 DEF size
  <2>3. CASE i # n
    <3>1. i \in 1 .. k BY <1>8, <2>3
    <3>2. admitted[i] # r BY <1>6, <1>7, <1>15, <2>1, <2>3 DEF IsInjective
    <3>3. _scheduled_context_tokens[admitted[i]] = TokensOf(admitted[i])
      BY <1>3, <1>17, <3>1 DEF SharedOut
    <3> QED BY <1>15, <1>16, <2>1, <3>2, <3>3
  <2> QED BY <2>2, <2>3
<1>18. /\ \A q : TokensOf(q)' = TokensOf(q)
       /\ Partial' = Partial /\ Whole' = Whole
       /\ \A j : BudgetAfter(j)' = BudgetAfter(j)
  BY <1>1, <1>2, SharesKept
<1>19. SharedOut(n)'
  BY <1>1, <1>6, <1>16, <1>17, <1>18 DEF SharedOut, seen2
<1>20. ChunkingOK'
  BY <1>1, <1>2, <1>19 DEF PlanInv, ChunkingOK
<1>21. CallOK'
  <2>1. _scheduled_context_tokens' \in [Requests -> Nat] BY <1>6, <1>15, <1>16
  <2> QED BY <1>1, <1>2, <1>16, <2>1 DEF PlanInv, CallOK
<1> QED BY <1>1, <1>20, <1>21 DEF PlanInv, AdmittingOK, ReturnedOK

LEMMA StutterPlan == IInv /\ PlanInv /\ UNCHANGED calls_vars => PlanInv'
<1> SUFFICES ASSUME IInv, PlanInv, UNCHANGED calls_vars PROVE PlanInv'
  OBVIOUS
<1>1. /\ call' = call /\ UNCHANGED request_vars /\ policy' = policy /\ tier' = tier
      /\ todo' = todo /\ admitted' = admitted /\ blocks_used' = blocks_used
      /\ budget' = budget /\ scheduled' = scheduled
      /\ _scheduled_context_tokens' = _scheduled_context_tokens
  BY DEF calls_vars, scheduler_vars
<1>2. blocks' = blocks /\ left' = left /\ Listed' = Listed /\ Room' = Room
  BY <1>1, ArgumentsKept
<1>3. /\ \A q : TokensOf(q)' = TokensOf(q)
      /\ Partial' = Partial /\ Whole' = Whole
      /\ \A j : BudgetAfter(j)' = BudgetAfter(j)
  BY <1>1, <1>2, SharesKept
<1>4. CallOK' BY <1>1, <1>2 DEF PlanInv, CallOK
<1>5. \A I, k : LookedAt(I, k) => LookedAt(I, k)' BY <1>1, <1>2 DEF LookedAt
<1>6. \A k : SharedOut(k) => SharedOut(k)' BY <1>1, <1>3 DEF SharedOut
<1>7. AdmittingOK' BY <1>1, <1>5 DEF PlanInv, AdmittingOK
<1>8. ChunkingOK' BY <1>1, <1>2, <1>6 DEF PlanInv, ChunkingOK
<1>9. ReturnedOK' BY <1>1, <1>2, <1>3 DEF PlanInv, ReturnedOK
<1> QED BY <1>4, <1>7, <1>8, <1>9 DEF PlanInv

LEMMA StepKeepsPlan == IInv /\ PlanInv /\ [Next]_calls_vars => PlanInv'
  BY StartPlan, AdmitPlan, StartMicrobatchPlan, ChunkPlan, EndMicrobatchPlan, StutterPlan
     DEF Next, Turn, ScheduleStep

(* A call returns what the policies promise, in closed form: whom tier 1    *)
(* admits, the chunk that tier 2 gives each of them, in which list it goes  *)
(* out (TwoTierScheduler.schedule, tests/test_scheduler.py).                *)
THEOREM CallsReturnPlan == Spec => []ReturnsPlan
<1>1. IInv /\ PlanInv => ReturnsPlan
  <2> SUFFICES ASSUME IInv, PlanInv, tier = "done" PROVE ReturnsPlan
    BY DEF ReturnsPlan
  <2> DEFINE plan == Plan!schedule_microbatch(policy.chunking, Listed, call.active_gen, left)
  <2>1. /\ admitted = Listed
        /\ scheduled.context_chunking = Keep(admitted, Partial)
        /\ scheduled.context_last_chunk = Keep(admitted, Whole)
        /\ \A r \in Range(admitted) :
               TokensOf(r) > 0 => _scheduled_context_tokens[r] = TokensOf(r)
    BY DEF PlanInv, ReturnedOK
  <2>2. plan = [context_chunking   |-> Keep(admitted, Partial),
                context_last_chunk |-> Keep(admitted, Whole),
                generation         |-> call.active_gen,
                tokens             |-> [r \in Range(admitted) |-> TokensOf(r)]]
    BY <2>1 DEF Plan!schedule_microbatch, Partial, Whole, TokensOf, Room,
                Plan!Keep, Keep, Plan!Range, Range
  <2>3. scheduled.generation = call.active_gen BY DEF PlanInv, CallOK
  <2>4. ASSUME NEW r \in ContextScheduled PROVE _scheduled_context_tokens[r] = plan.tokens[r]
    <3>1. admitted \in Seq(Requests) BY ArgumentsFit DEF PlanInv
    <3>2. r \in Range(Keep(admitted, Partial)) \cup Range(Keep(admitted, Whole))
      BY <2>1 DEF ContextScheduled, Members, Range
    <3>3. r \in Range(admitted) /\ (r \in Partial \/ r \in Whole) BY <3>1, <3>2, KeepElements
    <3>4. TokensOf(r) > 0 BY <3>3 DEF Partial, Whole
    <3> QED BY <2>1, <2>2, <3>3, <3>4
  <2>5. ReturnsPlan
    <3> HIDE DEF plan
    <3>1. /\ scheduled.context_chunking = plan.context_chunking
          /\ scheduled.context_last_chunk = plan.context_last_chunk
          /\ scheduled.generation = plan.generation
      BY <2>1, <2>2, <2>3
    <3> QED BY <2>4, <3>1 DEF ReturnsPlan, plan, Listed, blocks, left
  <2> QED BY <2>5
<1>2. Spec => []PlanInv
  <2>1. Init => IInv /\ PlanInv BY InitIInv, InitPlanInv
  <2>2. (IInv /\ PlanInv) /\ [Next]_calls_vars => (IInv /\ PlanInv)'
    BY StepKeeps, StepKeepsPlan
  <2> QED BY <2>1, <2>2, PTL DEF Spec
<1> QED BY <1>1, <1>2, AlwaysIInv, PTL

-----------------------------------------------------------------------------
(* The token budget.  FCFS never hands out more than it has; EQUAL_PROGRESS *)
(* gives each request it has passed at most its share.                      *)

Chunked == Total(ContextScheduled, _scheduled_context_tokens)

Spending ==
    tier = "microbatch" =>
        /\ IsInjective(todo) /\ Range(todo) \cap ContextScheduled = {}
        /\ IsFiniteSet(Cells(ContextScheduled, _scheduled_context_tokens))
        /\ budget \in Nat /\ RemainingBudget > 0 /\ admitted # <<>>
        /\ policy.chunking = "FCFS" => Chunked + budget <= RemainingBudget
        /\ policy.chunking = "EQUAL_PROGRESS" =>
               /\ budget = PerRequest
               /\ Chunked + Len(todo) * budget <= Len(admitted) * budget
               /\ \A r \in ContextScheduled : _scheduled_context_tokens[r] \in 1 .. budget

BudgetInv ==
    /\ tier = "capacity" => ContextScheduled = {}
    /\ Spending
    /\ BudgetKept

LEMMA NoneScheduled ==
    ASSUME scheduled.context_chunking = <<>>, scheduled.context_last_chunk = <<>>
    PROVE  ContextScheduled = {}
  BY EmptyRange DEF ContextScheduled, Members, Range

LEMMA StartMicrobatchBudget ==
    ASSUME IInv, PlanInv, BudgetInv, StartMicrobatch
    PROVE  BudgetInv'
<1>1. /\ tier = "capacity" /\ ContextScheduled = {}
      /\ UNCHANGED <<policy, admitted, scheduled, _scheduled_context_tokens>>
  BY DEF StartMicrobatch, BudgetInv
<1>2. /\ ContextScheduled' = {} /\ RemainingBudget' = RemainingBudget
      /\ PerRequest' = PerRequest
  BY <1>1 DEF ContextScheduled, RemainingBudget, PerRequest
<1>3. CASE tier' = "done"
  BY <1>2, <1>3 DEF BudgetInv, Spending, BudgetKept
<1>4. CASE tier' # "done"
  <2>1. /\ tier' = "microbatch" /\ todo' = admitted
        /\ admitted # <<>> /\ ~(RemainingBudget <= 0)
        /\ budget' = IF policy.chunking = "FCFS" THEN RemainingBudget ELSE PerRequest
    BY <1>4 DEF StartMicrobatch
  <2>2. IsInjective(admitted) /\ admitted \in Seq(Requests) /\ Len(admitted) \in Nat
    BY LenProperties DEF PlanInv, CallOK, IInv, ListsOK
  <2>3. RemainingBudget \in Int
    <3>1. scheduled.generation \in Seq(Requests)
      BY DEF PlanInv, CallOK
    <3> QED BY <3>1, LenProperties, SchedulerAssumption DEF RemainingBudget
  <2>4. Len(admitted) \in Nat \ {0}
    BY <2>1, <2>2, EmptySeq
  <2>5. RemainingBudget > 0 /\ RemainingBudget \div Len(admitted) \in Nat
    BY <2>1, <2>3, <2>4
  <2>6. PerRequest \in Nat
    BY <2>5 DEF PerRequest, AtLeast
  <2>7. budget' \in Nat
    BY <2>1, <2>3, <2>5, <2>6
  <2>8. /\ IsFiniteSet(Cells({}, _scheduled_context_tokens'))
        /\ Total({}, _scheduled_context_tokens') = 0
    BY TotalOfNone
  <2>9. Chunked' = 0
    BY <1>2, <2>8 DEF Chunked
  <2>10. Spending'
    <3>1. policy'.chunking = "FCFS" => 0 + budget' <= RemainingBudget'
      BY <1>1, <1>2, <2>1, <2>3
    <3>2. policy'.chunking = "EQUAL_PROGRESS" => budget' = PerRequest'
      BY <1>1, <1>2, <2>1
    <3>3. 0 + Len(todo') * budget' <= Len(admitted') * budget'
      <4>1. Len(todo') * budget' \in Int /\ Len(todo') = Len(admitted')
        BY <1>1, <2>1, <2>2, <2>7
      <4> QED BY <4>1
    <3> QED BY <1>1, <1>2, <2>1, <2>2, <2>5, <2>7, <2>8, <2>9, <3>1, <3>2, <3>3 DEF Spending
  <2> QED BY <2>1, <2>10 DEF BudgetInv, BudgetKept
<1> QED BY <1>3, <1>4

(* A turn of a loop adds the chunk of one more request.                     *)
LEMMA ChunkBudget ==
    ASSUME IInv, PlanInv, BudgetInv, ChunkNext, UNCHANGED request_vars
    PROVE  BudgetInv'
<1>1. /\ tier = "microbatch" /\ todo # <<>> /\ ~Spent /\ Spending
      /\ todo' = Tail(todo) /\ UNCHANGED <<tier, policy, admitted>>
      /\ todo \in Seq(Requests) /\ admitted \in Seq(Requests)
      /\ _scheduled_context_tokens \in [Requests -> Nat]
      /\ scheduled \in [context_chunking : Seq(Requests), context_last_chunk : Seq(Requests),
                        generation : Seq(Requests)]
      /\ left \in [Requests -> Nat]
  BY DEF ChunkNext, BudgetInv, PlanInv, CallOK, IInv, ListsOK
<1>2. PICK r \in Requests : r = Head(todo)
  BY <1>1, HeadTailProperties
<1>3. /\ IsInjective(todo) /\ Range(todo) \cap ContextScheduled = {}
      /\ IsFiniteSet(Cells(ContextScheduled, _scheduled_context_tokens))
      /\ budget \in Nat /\ RemainingBudget > 0 /\ admitted # <<>>
  BY <1>1 DEF Spending
<1>4. /\ Range(todo) = Range(todo') \cup {r} /\ IsInjective(todo')
      /\ r \notin Range(todo')
      /\ Len(todo') = Len(todo) - 1 /\ Len(todo) \in Nat /\ Len(admitted) \in Nat
  BY <1>1, <1>2, <1>3, TailElements, HeadTailProperties, LenProperties
<1>5. RemainingContext(r) \in Nat /\ ChunkSize(r) \in Nat /\ ChunkSize(r) <= budget
  <2>1. RemainingContext(r) = left[r] /\ left[r] \in Nat
    BY <1>1, <1>2 DEF left
  <2> QED BY <1>3, <2>1 DEF ChunkSize
<1>6. RemainingBudget \in Int /\ Chunked \in Nat
  <2>1. Len(scheduled.generation) \in Nat
    BY <1>1, LenProperties
  <2>2. Chunked \in Nat
    <3>1. Cardinality(Cells(ContextScheduled, _scheduled_context_tokens)) \in Nat
      BY <1>3, FS_CardinalityType
    <3> QED BY <3>1, TotalIsCount DEF Chunked, CellCount
  <2> QED BY <2>1, <2>2, SchedulerAssumption DEF RemainingBudget
<1>7. CASE ChunkSize(r) <= 0
  <2>1. UNCHANGED <<budget, scheduled, _scheduled_context_tokens>>
    BY <1>2, <1>7 DEF ChunkNext
  <2>2. /\ ContextScheduled' = ContextScheduled /\ RemainingBudget' = RemainingBudget
        /\ PerRequest' = PerRequest /\ Chunked' = Chunked
    BY <1>1, <2>1 DEF ContextScheduled, RemainingBudget, PerRequest, Chunked
  <2>3. Chunked + Len(todo) * budget <= Len(admitted) * budget
            => Chunked + Len(todo') * budget <= Len(admitted) * budget
    <3> DEFINE n == Len(todo)
               b == budget
               c == Chunked
               m == Len(admitted) * budget
    <3>1. n \in Nat /\ b \in Nat /\ c \in Nat /\ m \in Int /\ Len(todo') = n - 1
      BY <1>3, <1>4, <1>6
    <3> HIDE DEF n, b, c, m
    <3>2. (n - 1) * b = n * b - b /\ n * b \in Int
      BY <3>1
    <3>3. c + n * b <= m => c + (n - 1) * b <= m
      BY <3>1, <3>2
    <3> QED BY <3>1, <3>3 DEF n, b, c, m
  <2> QED BY <1>1, <1>3, <1>4, <2>1, <2>2, <2>3 DEF BudgetInv, Spending, BudgetKept
<1>8. CASE ~(ChunkSize(r) <= 0)
  <2>1. /\ _scheduled_context_tokens' =
               [_scheduled_context_tokens EXCEPT ![r] = ChunkSize(r)]
        /\ budget' = IF policy.chunking = "FCFS" THEN budget - ChunkSize(r) ELSE budget
        /\ \/ scheduled' = [scheduled EXCEPT !.context_last_chunk = Append(@, r)]
           \/ scheduled' = [scheduled EXCEPT !.context_chunking = Append(@, r)]
    BY <1>2, <1>8 DEF ChunkNext, Spend
  <2>2. /\ ContextScheduled' = ContextScheduled \cup {r}
        /\ scheduled'.generation = scheduled.generation
    <3>1. /\ scheduled.context_chunking \in Seq(Requests)
          /\ scheduled.context_last_chunk \in Seq(Requests)
      BY <1>1
    <3>2. /\ Range(Append(scheduled.context_chunking, r)) = Range(scheduled.context_chunking) \cup {r}
          /\ Range(Append(scheduled.context_last_chunk, r)) = Range(scheduled.context_last_chunk) \cup {r}
      BY <1>2, <3>1, AppendElements
    <3>3. CASE scheduled' = [scheduled EXCEPT !.context_last_chunk = Append(@, r)]
      <4>1. /\ scheduled'.context_chunking = scheduled.context_chunking
            /\ scheduled'.context_last_chunk = Append(scheduled.context_last_chunk, r)
            /\ scheduled'.generation = scheduled.generation
        BY <1>1, <3>3
      <4> QED BY <3>2, <4>1 DEF ContextScheduled, Members, Range
    <3>4. CASE scheduled' = [scheduled EXCEPT !.context_chunking = Append(@, r)]
      <4>1. /\ scheduled'.context_last_chunk = scheduled.context_last_chunk
            /\ scheduled'.context_chunking = Append(scheduled.context_chunking, r)
            /\ scheduled'.generation = scheduled.generation
        BY <1>1, <3>4
      <4> QED BY <3>2, <4>1 DEF ContextScheduled, Members, Range
    <3> QED BY <2>1, <3>3, <3>4
  <2>3. RemainingBudget' = RemainingBudget /\ PerRequest' = PerRequest
    BY <1>1, <2>2 DEF RemainingBudget, PerRequest
  <2>4. r \notin ContextScheduled
    BY <1>3, <1>4
  <2>5. ContextScheduled \subseteq Requests
    <3>1. /\ scheduled.context_chunking \in Seq(Requests)
          /\ scheduled.context_last_chunk \in Seq(Requests)
      BY <1>1
    <3> QED BY <3>1, ElementsOfSeq DEF ContextScheduled, Members, Range
  <2>6. /\ _scheduled_context_tokens'[r] = ChunkSize(r)
        /\ \A q \in ContextScheduled :
              _scheduled_context_tokens'[q] = _scheduled_context_tokens[q]
    BY <1>1, <2>1, <2>4, <2>5
  <2>7. Cells(ContextScheduled, _scheduled_context_tokens')
            = Cells(ContextScheduled, _scheduled_context_tokens)
    BY <2>6 DEF Cells
  <2>8. /\ IsFiniteSet(Cells(ContextScheduled', _scheduled_context_tokens'))
        /\ Chunked' = Chunked + ChunkSize(r)
    <3> DEFINE S == ContextScheduled
               f == _scheduled_context_tokens'
    <3>1. IsFiniteSet(Cells(S, f)) /\ r \notin S /\ f[r] \in Nat
      BY <1>3, <1>5, <2>4, <2>6, <2>7
    <3>2. Total(S, f) = Chunked
      BY <2>7, TotalIsCount DEF Chunked, CellCount
    <3> HIDE DEF S, f
    <3>3. IsFiniteSet(Cells(S \cup {r}, f)) /\ Total(S \cup {r}, f) = Total(S, f) + f[r]
      BY <3>1, TotalAdd
    <3> QED BY <2>2, <2>6, <3>2, <3>3 DEF S, f, Chunked
  <2>9. budget' \in Nat
    BY <1>3, <1>5, <2>1
  <2>10. policy'.chunking = "FCFS" => Chunked' + budget' <= RemainingBudget'
    <3> SUFFICES ASSUME policy.chunking = "FCFS" PROVE Chunked' + budget' <= RemainingBudget'
      BY <1>1
    <3>1. Chunked + budget <= RemainingBudget
      BY <1>1 DEF Spending
    <3>2. (Chunked + ChunkSize(r)) + (budget - ChunkSize(r)) = Chunked + budget
      BY <1>3, <1>5, <1>6
    <3> QED BY <2>1, <2>3, <2>8, <3>1, <3>2
  <2>11. policy'.chunking = "EQUAL_PROGRESS" =>
             /\ budget' = PerRequest'
             /\ Chunked' + Len(todo') * budget' <= Len(admitted') * budget'
             /\ \A q \in ContextScheduled' : _scheduled_context_tokens'[q] \in 1 .. budget'
    <3> SUFFICES ASSUME policy.chunking = "EQUAL_PROGRESS"
                 PROVE  /\ budget' = PerRequest'
                        /\ Chunked' + Len(todo') * budget' <= Len(admitted') * budget'
                        /\ \A q \in ContextScheduled' :
                               _scheduled_context_tokens'[q] \in 1 .. budget'
      BY <1>1
    <3>1. /\ budget = PerRequest /\ budget' = budget
          /\ Chunked + Len(todo) * budget <= Len(admitted) * budget
          /\ \A q \in ContextScheduled : _scheduled_context_tokens[q] \in 1 .. budget
      BY <1>1, <2>1 DEF Spending
    <3>2. (Chunked + ChunkSize(r)) + Len(todo') * budget <= Len(admitted) * budget
      <4> DEFINE n == Len(todo)
                 b == budget
                 c == Chunked
                 s == ChunkSize(r)
                 m == Len(admitted) * budget
      <4>1. /\ n \in Nat /\ b \in Nat /\ c \in Nat /\ s \in Nat /\ m \in Int
            /\ Len(todo') = n - 1 /\ s <= b /\ c + n * b <= m
        BY <1>3, <1>4, <1>5, <1>6, <3>1
      <4> HIDE DEF n, b, c, s, m
      <4>2. (n - 1) * b = n * b - b /\ n * b \in Int
        BY <4>1
      <4>3. (c + s) + (n - 1) * b <= m
        BY <4>1, <4>2
      <4> QED BY <4>1, <4>3 DEF n, b, c, s, m
    <3>3. ChunkSize(r) \in 1 .. budget
      BY <1>3, <1>5, <1>8
    <3>4. \A q \in ContextScheduled' : _scheduled_context_tokens'[q] \in 1 .. budget
      BY <2>2, <2>6, <3>1, <3>3
    <3>5. Chunked' + Len(todo') * budget' <= Len(admitted') * budget'
      BY <1>1, <2>8, <3>1, <3>2
    <3> QED BY <2>3, <3>1, <3>4, <3>5
  <2>12. Range(todo') \cap ContextScheduled' = {}
    BY <1>3, <1>4, <2>2
  <2>13. Spending'
    BY <1>1, <1>3, <1>4, <2>3, <2>8, <2>9, <2>10, <2>11, <2>12 DEF Spending
  <2> QED BY <1>1, <2>13 DEF BudgetInv, BudgetKept
<1> QED BY <1>7, <1>8

LEMMA EndMicrobatchBudget ==
    ASSUME IInv, PlanInv, BudgetInv, EndMicrobatch
    PROVE  BudgetInv'
<1>1. /\ tier = "microbatch" /\ tier' = "done" /\ Spending
      /\ UNCHANGED <<policy, admitted, scheduled, _scheduled_context_tokens>>
      /\ todo \in Seq(Requests) /\ admitted \in Seq(Requests)
      /\ scheduled.generation \in Seq(Requests)
  BY DEF EndMicrobatch, BudgetInv, IInv, ListsOK, PlanInv, CallOK
<1>2. /\ ContextScheduled' = ContextScheduled /\ RemainingBudget' = RemainingBudget
      /\ ScheduledTokens' = ScheduledTokens
  BY <1>1 DEF ContextScheduled, RemainingBudget, ScheduledTokens
<1>3. /\ IsFiniteSet(Cells(ContextScheduled, _scheduled_context_tokens))
      /\ budget \in Nat /\ RemainingBudget > 0 /\ admitted # <<>>
  BY <1>1 DEF Spending
<1>4. Chunked \in Nat
  <2>1. Cardinality(Cells(ContextScheduled, _scheduled_context_tokens)) \in Nat
    BY <1>3, FS_CardinalityType
  <2> QED BY <2>1, TotalIsCount DEF Chunked, CellCount
<1>5. /\ Len(scheduled.generation) \in Nat /\ max_num_tokens \in Nat
      /\ Len(todo) \in Nat /\ Len(admitted) \in Nat \ {0}
  BY <1>1, <1>3, LenProperties, EmptySeq, SchedulerAssumption
<1>6. ScheduledTokens <= max_num_tokens <=> Chunked <= RemainingBudget
  BY <1>4, <1>5 DEF ScheduledTokens, Chunked, RemainingBudget
<1>7. RemainingBudget \in Nat \ {0}
  BY <1>3, <1>5 DEF RemainingBudget
<1>8. CASE Chunked <= RemainingBudget
  <2>1. ~(ScheduledTokens > max_num_tokens)
    BY <1>4, <1>5, <1>6, <1>8 DEF ScheduledTokens, Chunked
  <2> QED BY <1>1, <1>2, <2>1 DEF BudgetInv, Spending, BudgetKept
<1>9. CASE ~(Chunked <= RemainingBudget)
  <2>1. policy.chunking = "EQUAL_PROGRESS"
    <3> SUFFICES ASSUME policy.chunking = "FCFS" PROVE FALSE
      BY ChunkingIs
    <3>1. Chunked + budget <= RemainingBudget
      BY <1>1 DEF Spending
    <3> QED BY <1>3, <1>4, <1>7, <1>9, <3>1
  <2>2. /\ budget = PerRequest
        /\ Chunked + Len(todo) * budget <= Len(admitted) * budget
        /\ \A r \in ContextScheduled : _scheduled_context_tokens[r] \in 1 .. budget
    BY <1>1, <2>1 DEF Spending
  <2>3. Chunked <= Len(admitted) * budget
    <3>1. Len(todo) * budget \in Nat /\ Len(admitted) * budget \in Nat
      BY <1>3, <1>5
    <3> QED BY <1>4, <2>2, <3>1
  <2>4. budget = AtLeast(1, RemainingBudget \div Len(admitted))
    BY <2>2 DEF PerRequest
  <2>5. Len(admitted) > RemainingBudget /\ budget = 1
    <3> DEFINE n == Len(admitted)
               b == RemainingBudget
               q == RemainingBudget \div Len(admitted)
    <3>1. n \in Nat \ {0} /\ b \in Nat \ {0}
      BY <1>5, <1>7
    <3>2. q \in Nat /\ q * n <= b
      <4>1. q = b \div n
        OBVIOUS
      <4> HIDE DEF n, b, q
      <4> QED BY <3>1, <4>1
    <3>3. n * q = q * n
      BY <3>1, <3>2
    <3>4. ~(n * budget <= b)
      <4>1. n * budget \in Nat
        BY <1>3, <1>5
      <4> QED BY <1>4, <1>7, <1>9, <2>3, <4>1
    <3>5. budget # q
      BY <3>1, <3>2, <3>3, <3>4
    <3>6. budget = 1
      BY <2>4, <3>5 DEF AtLeast
    <3>7. n > b
      BY <3>1, <3>4, <3>6
    <3> QED BY <3>6, <3>7
  <2>6. \A r \in ContextScheduled : _scheduled_context_tokens[r] = 1
    BY <2>2, <2>5
  <2> QED BY <1>1, <1>2, <2>1, <2>5, <2>6 DEF BudgetInv, Spending, BudgetKept
<1> QED BY <1>8, <1>9

LEMMA StepKeepsBudget ==
    IInv /\ PlanInv /\ BudgetInv /\ [Next]_calls_vars => BudgetInv'
<1> SUFFICES ASSUME IInv, PlanInv, BudgetInv, [Next]_calls_vars PROVE BudgetInv'
  OBVIOUS
<1>1. CASE Start
  <2>1. /\ tier' = "capacity"
        /\ scheduled'.context_chunking = <<>> /\ scheduled'.context_last_chunk = <<>>
    BY <1>1 DEF Start, ScheduleCall, NothingScheduled
  <2>2. ContextScheduled' = {}
    BY <2>1, EmptyRange DEF ContextScheduled, Members, Range
  <2> QED BY <2>1, <2>2 DEF BudgetInv, Spending, BudgetKept
<1>2. CASE AdmitNext
  <2>1. tier = "capacity" /\ tier' = tier /\ scheduled' = scheduled
    BY <1>2 DEF AdmitNext
  <2> QED BY <2>1 DEF BudgetInv, Spending, BudgetKept, ContextScheduled
<1>3. CASE StartMicrobatch
  BY <1>3, StartMicrobatchBudget
<1>4. CASE ChunkNext /\ UNCHANGED request_vars
  BY <1>4, ChunkBudget
<1>5. CASE EndMicrobatch
  BY <1>5, EndMicrobatchBudget
<1>6. CASE UNCHANGED calls_vars
  BY <1>6
     DEF calls_vars, scheduler_vars, BudgetInv, Spending, BudgetKept, ContextScheduled,
         Chunked, PerRequest, RemainingBudget, ScheduledTokens
<1> QED BY <1>1, <1>2, <1>3, <1>4, <1>5, <1>6 DEF Next, Turn, ScheduleStep

(* The token budget of an iteration is exceeded in two ways and no other:   *)
(* by generation requests, which always go through, and under               *)
(* EQUAL_PROGRESS by the one token that each of more prompts than there are *)
(* tokens left gets (max(1, budget // n), _schedule_equal_progress).        *)
THEOREM BudgetExceededOnlySo == Spec => []BudgetKept
<1>1. Init => IInv /\ PlanInv /\ BudgetInv
  <2>1. Init => tier = "idle"
    BY DEF Init, SchedulerInit
  <2> QED BY <2>1, InitIInv, InitPlanInv DEF BudgetInv, Spending, BudgetKept
<1>2. (IInv /\ PlanInv /\ BudgetInv) /\ [Next]_calls_vars => (IInv /\ PlanInv /\ BudgetInv)'
  BY StepKeeps, StepKeepsPlan, StepKeepsBudget
<1>3. BudgetInv => BudgetKept
  BY DEF BudgetInv
<1> QED BY <1>1, <1>2, <1>3, PTL DEF Spec

=============================================================================
