---------------------------- MODULE BlockManager ----------------------------
(***************************************************************************)
(* The paged KV cache block manager, engine/block_manager.py, with its     *)
(* prefix cache.  Blocks are identified by integers; free ones wait in a   *)
(* FIFO deque, allocated ones are in a set, and the full blocks of a       *)
(* prompt are content addressed and reference counted.                     *)
(*                                                                         *)
(* A holder is one block list of a caller: the list a call of allocate or  *)
(* of allocate_with_prefix_cache builds and returns, and the caller later  *)
(* gives back.  The manager takes no lock and is called from one thread,   *)
(* so one call runs at a time, op.  A call that loops is one step for each *)
(* turn of the loop, because an exception may leave it between two turns.  *)
(*                                                                         *)
(* The chained hash of a chunk (compute_block_hash) is the token prefix    *)
(* that ends with the chunk: equal exactly when the two prefixes are.      *)
(***************************************************************************)
EXTENDS Naturals, Sequences, FiniteSets, Functions

CONSTANTS
    NumBlocks,             \* num_blocks
    BlockSize,             \* block_size, in tokens
    PrefixCacheEnabled,    \* enable_prefix_cache
    Holders,               \* block lists of callers
    Prompts,               \* token sequences given to the prefix cache calls
    AllocateSizes,         \* bound: the n of the calls allocate(n)
    MaxLeaks,              \* bound: dropped references to one block
    NoHolder               \* the holder of an idle manager

ASSUME BlockManagerAssumption ==
    /\ NumBlocks \in Nat
    /\ BlockSize \in Nat \ {0}
    /\ PrefixCacheEnabled \in BOOLEAN
    /\ IsFiniteSet(Holders)
    /\ \A p \in Prompts : p \in Seq(Nat) /\ p # <<>>
    /\ AllocateSizes \subseteq Nat \ {0}
    /\ MaxLeaks \in Nat
    /\ NoHolder \notin Holders

Blocks == 0 .. NumBlocks - 1

VARIABLES
    free_block_ids,   \* _free_block_ids, the FIFO of free blocks
    allocated,        \* _allocated
    hash_to_block,    \* _hash_to_block
    ref_counts,       \* _ref_counts
    ref_order,        \* the keys of _ref_counts in insertion order
    held,             \* the blocks of each holder, also while its call runs
    prompt,           \* the token_ids of each holder that uses the cache
    leaked,           \* how often a raising call dropped each block (history)
    op                \* the call that runs

vars == <<free_block_ids, allocated, hash_to_block, ref_counts, ref_order,
          held, prompt, leaked, op>>

cache == <<hash_to_block, ref_counts, ref_order>>

-----------------------------------------------------------------------------
(* Chunks and hashes.                                                      *)

Hash(p, i) == SubSeq(p, 1, i * BlockSize)

IsFull(p, i) == i * BlockSize <= Len(p)

NumChunks(p) == (Len(p) + BlockSize - 1) \div BlockSize

FullChunks(p) == {i \in 1 .. Len(p) : IsFull(p, i)}

Hashes == UNION {{Hash(p, i) : i \in FullChunks(p)} : p \in Prompts}

Calls == {"idle", "allocate", "prefix", "free_prefix"}

Idle == [call |-> "idle", holder |-> NoHolder, arg |-> 0]

Call(c, h, n) == [call |-> c, holder |-> h, arg |-> n]

-----------------------------------------------------------------------------
AllFreeFromOne == [i \in 1 .. NumBlocks |-> i]   \* mutant: range(1, n + 1)
AllFree == [i \in 1 .. NumBlocks |-> i - 1]

Init ==
    /\ free_block_ids = AllFree
    /\ allocated = {}
    /\ hash_to_block = <<>>
    /\ ref_counts = <<>>
    /\ ref_order = <<>>
    /\ held = [h \in Holders |-> <<>>]
    /\ prompt = [h \in Holders |-> <<>>]
    /\ leaked = [b \in Blocks |-> 0]
    /\ op = Idle

-----------------------------------------------------------------------------
(* What allocate_with_prefix_cache finds at its next chunk, i = op.arg + 1. *)

Next1 == op.arg + 1

AtChunk ==
    /\ op.call = "prefix"
    /\ op.arg < NumChunks(prompt[op.holder])

AtHit ==
    /\ AtChunk
    /\ IsFull(prompt[op.holder], Next1)
    /\ Hash(prompt[op.holder], Next1) \in DOMAIN hash_to_block

(* The argument of the allocate() that runs now.                           *)
Wanted == IF op.call = "allocate" THEN op.arg
          ELSE IF AtChunk /\ ~AtHit THEN 1 ELSE 0

can_allocate(n) == Len(free_block_ids) >= n

EvictableCached == DOMAIN ref_counts             \* mutant: any cached block
Evictable == {b \in DOMAIN ref_counts : ref_counts[b] = 0}

WithHashOf(b) == hash_to_block                  \* mutant: the hash stays
WithoutHashOf(b) ==
    Restrict(hash_to_block, {x \in DOMAIN hash_to_block : hash_to_block[x] # b})

(* One turn of _evict_cached_blocks: the oldest cached block that nobody    *)
(* refers to leaves the cache and joins the free pool.                     *)
EvictCachedBlock ==
    /\ PrefixCacheEnabled
    /\ ~can_allocate(Wanted)
    /\ \E i \in 1 .. Len(ref_order) :
          LET b == ref_order[i] IN
          /\ b \in Evictable
          /\ \A j \in 1 .. i - 1 : ref_order[j] \notin Evictable
          /\ hash_to_block' = WithoutHashOf(b)
          /\ ref_counts' = Restrict(ref_counts, DOMAIN ref_counts \ {b})
          /\ ref_order' = [j \in 1 .. Len(ref_order) - 1 |->
                              IF j < i THEN ref_order[j] ELSE ref_order[j + 1]]
          /\ allocated' = allocated \ {b}
          /\ free_block_ids' = Append(free_block_ids, b)
    /\ UNCHANGED <<held, prompt, leaked, op>>

ExhaustedFree == ~can_allocate(Wanted)           \* mutant: raises at once
ExhaustedNever == FALSE                          \* mutant: waits for a block
(* allocate() finds too few free blocks and nothing (more) to evict.        *)
Exhausted ==
    /\ ~can_allocate(Wanted)
    /\ PrefixCacheEnabled => Evictable = {}

(* One popleft of allocate(): the block goes to the list being built.       *)
Pop(h) ==
    /\ free_block_ids' = Tail(free_block_ids)
    /\ allocated' = allocated \cup {Head(free_block_ids)}
    /\ held' = [held EXCEPT ![h] = Append(@, Head(free_block_ids))]

-----------------------------------------------------------------------------
(* allocate(n), for a new list or to extend the list of a caller            *)
(* (KVCacheResourceManager.prepare_resources and update_resources).        *)
AllocateCall(h, n) ==
    /\ op = Idle
    /\ op' = Call("allocate", h, n)
    /\ UNCHANGED <<free_block_ids, allocated, cache, held, prompt, leaked>>

AllocatePop ==
    /\ op.call = "allocate"
    /\ can_allocate(op.arg)
    /\ Pop(op.holder)
    /\ op' = IF op.arg = 1 THEN Idle ELSE [op EXCEPT !.arg = @ - 1]
    /\ UNCHANGED <<cache, prompt, leaked>>

AllocateRaise ==
    /\ op.call = "allocate"
    /\ Exhausted
    /\ op' = Idle
    /\ UNCHANGED <<free_block_ids, allocated, cache, held, prompt, leaked>>

(* free(): every block is allocated, as it must be, or nothing is freed.    *)
Free(h) ==
    /\ op = Idle
    /\ prompt[h] = <<>>
    /\ held[h] # <<>>
    /\ Range(held[h]) \subseteq allocated
    /\ allocated' = allocated \ Range(held[h])
    /\ free_block_ids' = free_block_ids \o held[h]
    /\ held' = [held EXCEPT ![h] = <<>>]
    /\ UNCHANGED <<cache, prompt, leaked, op>>

-----------------------------------------------------------------------------
(* allocate_with_prefix_cache(token_ids): one step for each chunk.          *)
PrefixCall(h, p) ==
    /\ op = Idle
    /\ prompt[h] = <<>>
    /\ held[h] = <<>>
    /\ \A b \in Blocks : leaked[b] < MaxLeaks
    /\ prompt' = [prompt EXCEPT ![h] = p]
    /\ op' = Call("prefix", h, 0)
    /\ UNCHANGED <<free_block_ids, allocated, cache, held, leaked>>

PrefixHit ==
    /\ AtHit
    /\ LET h == op.holder
           b == hash_to_block[Hash(prompt[h], Next1)]
       IN  /\ ref_counts' = [ref_counts EXCEPT ![b] = @ + 1]
           /\ held' = [held EXCEPT ![h] = Append(@, b)]
    /\ op' = [op EXCEPT !.arg = @ + 1]
    /\ UNCHANGED <<free_block_ids, allocated, hash_to_block, ref_order, prompt, leaked>>

Register(x, b) ==
    /\ hash_to_block' = [y \in DOMAIN hash_to_block \cup {x} |->
                            IF y = x THEN b ELSE hash_to_block[y]]
    /\ ref_counts' = [c \in DOMAIN ref_counts \cup {b} |->
                            IF c = b THEN 1 ELSE ref_counts[c]]
    /\ ref_order' = IF b \in DOMAIN ref_counts THEN ref_order
                    ELSE Append(ref_order, b)

PrefixMiss ==
    /\ AtChunk
    /\ ~AtHit
    /\ IsFull(prompt[op.holder], Next1)
    /\ can_allocate(1)
    /\ Register(Hash(prompt[op.holder], Next1), Head(free_block_ids))
    /\ Pop(op.holder)
    /\ op' = [op EXCEPT !.arg = @ + 1]
    /\ UNCHANGED <<prompt, leaked>>

PrefixPartial ==
    /\ AtChunk
    /\ ~IsFull(prompt[op.holder], Next1)
    /\ can_allocate(1)
    /\ Pop(op.holder)
    /\ op' = [op EXCEPT !.arg = @ + 1]
    /\ UNCHANGED <<cache, prompt, leaked>>

PrefixReturn ==
    /\ op.call = "prefix"
    /\ op.arg = NumChunks(prompt[op.holder])
    /\ op' = Idle
    /\ UNCHANGED <<free_block_ids, allocated, cache, held, prompt, leaked>>

(* allocate(1) raises out of the call.  The local list goes with the         *)
(* exception, its references stay: nobody can release them any more.         *)
PrefixRaise ==
    /\ AtChunk
    /\ Exhausted
    /\ LET dropped == Range(held[op.holder]) IN
       leaked' = [b \in Blocks |-> leaked[b] + (IF b \in dropped THEN 1 ELSE 0)]
    /\ held' = [held EXCEPT ![op.holder] = <<>>]
    /\ prompt' = [prompt EXCEPT ![op.holder] = <<>>]
    /\ op' = Idle
    /\ UNCHANGED <<free_block_ids, allocated, cache>>

-----------------------------------------------------------------------------
(* free_with_prefix_cache(block_ids, token_ids), the token_ids of the       *)
(* allocation: one step for each block, i = op.arg + 1.                     *)
FreePrefixCall(h) ==
    /\ op = Idle
    /\ prompt[h] # <<>>
    /\ op' = Call("free_prefix", h, 0)
    /\ UNCHANGED <<free_block_ids, allocated, cache, held, prompt, leaked>>

(* Mutant: the block joins the free list and stays in the allocated set.     *)
FreeBlockTwice(b) ==
    /\ free_block_ids' = Append(free_block_ids, b)
    /\ UNCHANGED <<allocated, cache>>
FreeBlockNow(b) ==
    /\ IF b \in allocated
       THEN /\ allocated' = allocated \ {b}
            /\ free_block_ids' = Append(free_block_ids, b)
       ELSE UNCHANGED <<allocated, free_block_ids>>
    /\ UNCHANGED cache

(* Mutant: the count is not decremented.                                     *)
ReleaseNothing(b) ==
    UNCHANGED <<ref_counts, allocated, free_block_ids, hash_to_block, ref_order>>
(* A full chunk stays cached, also when its count drops to zero.            *)
ReleaseCached(b) ==
    /\ ref_counts' = IF b \in DOMAIN ref_counts /\ ref_counts[b] > 0
                     THEN [ref_counts EXCEPT ![b] = @ - 1]
                     ELSE ref_counts
    /\ UNCHANGED <<allocated, free_block_ids, hash_to_block, ref_order>>

FreePrefixNext ==
    /\ op.call = "free_prefix"
    /\ LET h == op.holder IN
       /\ held[h] # <<>>
       /\ IF IsFull(prompt[h], Next1)
          THEN ReleaseCached(Head(held[h]))
          ELSE FreeBlockNow(Head(held[h]))
       /\ held' = [held EXCEPT ![h] = Tail(@)]
    /\ op' = [op EXCEPT !.arg = @ + 1]
    /\ UNCHANGED <<prompt, leaked>>

FreePrefixReturn ==
    /\ op.call = "free_prefix"
    /\ held[op.holder] = <<>>
    /\ prompt' = [prompt EXCEPT ![op.holder] = <<>>]
    /\ op' = Idle
    /\ UNCHANGED <<free_block_ids, allocated, cache, held, leaked>>

-----------------------------------------------------------------------------
Next ==
    \/ \E h \in Holders, n \in AllocateSizes : AllocateCall(h, n)
    \/ EvictCachedBlock
    \/ AllocatePop
    \/ AllocateRaise
    \/ \E h \in Holders : Free(h)
    \/ \E h \in Holders, p \in Prompts : PrefixCall(h, p)
    \/ PrefixHit
    \/ PrefixMiss
    \/ PrefixPartial
    \/ PrefixReturn
    \/ PrefixRaise
    \/ \E h \in Holders : FreePrefixCall(h)
    \/ FreePrefixNext
    \/ FreePrefixReturn

Spec == Init /\ [][Next]_vars

(* The calls of a thread that is running return: no call waits for another.  *)
CallStep ==
    \/ EvictCachedBlock
    \/ AllocatePop
    \/ AllocateRaise
    \/ PrefixHit
    \/ PrefixMiss
    \/ PrefixPartial
    \/ PrefixReturn
    \/ PrefixRaise
    \/ FreePrefixNext
    \/ FreePrefixReturn

FairSpec == Spec /\ WF_vars(CallStep)

-----------------------------------------------------------------------------
(* Properties.                                                             *)

(* Type invariant of the manager (BlockManager.__init__ and its calls).     *)
TypeOK ==
    /\ free_block_ids \in Seq(Blocks)
    /\ allocated \in SUBSET Blocks
    /\ DOMAIN hash_to_block \subseteq Hashes
    /\ hash_to_block \in [DOMAIN hash_to_block -> Blocks]
    /\ DOMAIN ref_counts \subseteq Blocks
    /\ ref_counts \in [DOMAIN ref_counts -> Nat]
    /\ ref_order \in Seq(Blocks)
    /\ held \in [Holders -> Seq(Blocks)]
    /\ prompt \in [Holders -> Prompts \cup {<<>>}]
    /\ leaked \in [Blocks -> Nat]
    /\ op \in [call : Calls, holder : Holders \cup {NoHolder}, arg : Nat]

(* The free list and the allocated set split the pool: no block is in both, *)
(* none twice in the free list, and none is missing (allocate, free and     *)
(* the two ways a block leaves the cache).                                  *)
FreeListExact ==
    /\ IsInjective(free_block_ids)
    /\ Range(free_block_ids) = Blocks \ allocated

HeldBlocks == UNION {Range(held[h]) : h \in Holders}

(* A block is allocated exactly when somebody holds it or the cache keeps   *)
(* it: eviction never takes a held block, and no block goes astray.         *)
NothingStranded == allocated = HeldBlocks \cup DOMAIN ref_counts

Sharers(b) == {h \in Holders : b \in Range(held[h])}

(* The reference count of a cached block is the number of lists callers have *)
(* it in and, beyond those, exactly one for every raising call that dropped  *)
(* it: across hits, releases and evictions nothing else pins a block.        *)
RefCountExact ==
    \A b \in DOMAIN ref_counts : ref_counts[b] = Cardinality(Sharers(b)) + leaked[b]

(* The hash map and the counts describe the same blocks, one hash for each. *)
CacheExact ==
    /\ IsInjective(hash_to_block)
    /\ Range(hash_to_block) = DOMAIN ref_counts
    /\ IsInjective(ref_order)
    /\ Range(ref_order) = DOMAIN ref_counts

(* The chunk a position of a held list stands for: lists are given back     *)
(* from the front.                                                          *)
Position(h, j) ==
    IF op.call = "free_prefix" /\ op.holder = h THEN op.arg + j ELSE j

(* While a list is held, the cache maps each of its full chunks to the very *)
(* block of the list: a prefix is never re-pointed to another block, or     *)
(* computed twice, while somebody uses it.                                  *)
CachePinned ==
    \A h \in Holders : \A j \in 1 .. Len(held[h]) :
        IsFull(prompt[h], Position(h, j)) =>
            LET x == Hash(prompt[h], Position(h, j)) IN
            /\ x \in DOMAIN hash_to_block
            /\ hash_to_block[x] = held[h][j]

Leaked == {b \in Blocks : leaked[b] > 0}

(* allocate() gives up only when the blocks in callers' lists, and those     *)
(* that earlier raising calls pinned for good, leave too few: never because  *)
(* of blocks that are merely cached.                                        *)
FailsOnlyWhenFull ==
    Wanted > 0 /\ PrefixCacheEnabled /\ Exhausted
        => Cardinality(HeldBlocks \cup Leaked) + Wanted > NumBlocks

(* A call that evicts, allocates or releases block by block does return.    *)
CallsReturn == op # Idle ~> op = Idle

=============================================================================
