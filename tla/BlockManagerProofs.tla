------------------------- MODULE BlockManagerProofs -------------------------
(***************************************************************************)
(* The block manager is correct for every pool, block size, set of block   *)
(* lists and set of prompts: TypeOK, FreeListExact, NothingStranded,       *)
(* CacheExact, RefCountExact and CachePinned are invariants of Spec.       *)
(*                                                                         *)
(* None of them is inductive alone.  Eviction takes a block with count 0;  *)
(* that this block is in nobody's list needs RefCountExact.  That counts   *)
(* are exact needs every list to hold a block once, which follows from     *)
(* CachePinned for full chunks and from Exclusive for the others.          *)
(*                                                                         *)
(* From the same invariant the manager implements the pool it promises,    *)
(* BlockPool: ImplementsPool, at the end.                                  *)
(***************************************************************************)
EXTENDS BlockManagerRefinement, DataLemmas

Slots(h) == 1 .. Len(held[h])

FullSlot(h, j) == IsFull(prompt[h], Position(h, j))

(* The call that runs is on a list, and a prefix call   *)
(* has gathered one block for each chunk it has seen.                       *)
CallOK ==
    /\ op.call = "idle" => op = Idle
    /\ op.call # "idle" => op.holder \in Holders
    /\ op.call = "allocate" => op.arg > 0
    /\ op.call \in {"prefix", "free_prefix"} => prompt[op.holder] # <<>>
    /\ op.call = "prefix" => op.arg = Len(held[op.holder])

(* A block that stands for no full chunk has one place in one list.         *)
Exclusive ==
    \A h \in Holders : \A j \in Slots(h) :
        ~FullSlot(h, j) =>
            /\ held[h][j] \notin DOMAIN ref_counts
            /\ \A k \in Holders : \A i \in Slots(k) :
                  held[k][i] = held[h][j] => k = h /\ i = j

(* A list that its caller has back holds all the full chunks of its prompt. *)
ChunksHeld ==
    \A h \in Holders :
        ~(op.holder = h /\ op.call \in {"prefix", "free_prefix"}) =>
            \A i \in Nat \ {0} : IsFull(prompt[h], i) => i <= Len(held[h])

(* What a raising call dropped is cached: only full chunks precede a chunk. *)
LeaksCached == \A b \in Blocks : leaked[b] > 0 => b \in DOMAIN ref_counts

IInv ==
    /\ TypeOK
    /\ CallOK
    /\ FreeListExact
    /\ CacheExact
    /\ NothingStranded
    /\ Exclusive
    /\ CachePinned
    /\ RefCountExact
    /\ ChunksHeld
    /\ LeaksCached

-----------------------------------------------------------------------------
(* Chunks.                                                                 *)

LEMMA ChunkArithmetic ==
    ASSUME NEW n \in Nat
    PROVE  /\ \A i \in Nat \ {0} : i * BlockSize <= n => i \in 1 .. n
           /\ \A i, k \in Nat : i * BlockSize = k * BlockSize => i = k
           /\ \A i \in Nat : i * BlockSize <= n => i <= (n + BlockSize - 1) \div BlockSize
           /\ \A i \in Nat : i < (n + BlockSize - 1) \div BlockSize => i * BlockSize <= n
           /\ \A i, k \in Nat : i <= k => i * BlockSize <= k * BlockSize
BY BlockManagerAssumption

LEMMA PromptLength ==
    ASSUME NEW p \in Prompts \cup {<<>>}
    PROVE  p \in Seq(Nat) /\ Len(p) \in Nat
<1>1. p \in Seq(Nat)
  <2>1. CASE p \in Prompts BY <2>1, BlockManagerAssumption
  <2>2. CASE p = <<>> BY <2>2, EmptySeq
  <2> QED BY <2>1, <2>2
<1> QED BY <1>1, LenProperties

LEMMA NoFullChunk == \A i \in Nat \ {0} : ~IsFull(<<>>, i)
BY BlockManagerAssumption DEF IsFull

LEMMA FullChunk ==
    ASSUME NEW p \in Prompts, NEW i \in Nat \ {0}, IsFull(p, i)
    PROVE  i \in FullChunks(p) /\ Hash(p, i) \in Hashes /\ i <= NumChunks(p)
<1>1. Len(p) \in Nat BY PromptLength
<1>2. i \in 1 .. Len(p) /\ i <= NumChunks(p)
  BY <1>1, ChunkArithmetic DEF IsFull, NumChunks
<1>3. i \in FullChunks(p) BY <1>2 DEF FullChunks
<1> QED BY <1>2, <1>3 DEF Hashes

LEMMA HashLength ==
    ASSUME NEW p \in Prompts, NEW m \in Nat \ {0}, IsFull(p, m)
    PROVE  Len(Hash(p, m)) = m * BlockSize /\ Hash(p, m) # <<>>
<1>1. p \in Seq(Nat) /\ Len(p) \in Nat BY PromptLength
<1>2. m * BlockSize \in Nat /\ m * BlockSize >= 1 /\ m * BlockSize <= Len(p)
  BY <1>1, BlockManagerAssumption, SMTT(30) DEF IsFull
<1>3. \A j \in 1 .. m * BlockSize : p[j] \in Nat
  <2> SUFFICES ASSUME NEW j \in 1 .. m * BlockSize PROVE p[j] \in Nat
    OBVIOUS
  <2>1. j \in 1 .. Len(p) BY <1>1, <1>2
  <2> QED BY <1>1, <2>1, ElementOfSeq
<1>4. Len(SubSeq(p, 1, m * BlockSize)) = m * BlockSize
  BY <1>2, <1>3, SubSeqProperties
<1>5. Hash(p, m) # <<>> BY <1>2, <1>4, EmptySeq DEF Hash
<1> QED BY <1>4, <1>5 DEF Hash

(* The hashes of the chunks of a prompt are all different.                  *)
LEMMA HashInjective ==
    ASSUME NEW p \in Prompts, NEW i \in Nat \ {0}, NEW k \in Nat \ {0},
           IsFull(p, i), IsFull(p, k), Hash(p, i) = Hash(p, k)
    PROVE  i = k
<1>1. i * BlockSize = k * BlockSize BY HashLength
<1> QED BY <1>1, ChunkArithmetic

-----------------------------------------------------------------------------
(* Held lists.                                                             *)

LEMMA Places ==
    ASSUME TypeOK, NEW h \in Holders
    PROVE  /\ held[h] \in Seq(Blocks) /\ Len(held[h]) \in Nat
           /\ prompt[h] \in Prompts \cup {<<>>}
           /\ \A b : b \in Range(held[h]) <=> \E j \in Slots(h) : b = held[h][j]
           /\ \A j \in Slots(h) : held[h][j] \in Blocks
           /\ \A j \in Slots(h) : Position(h, j) \in Nat \ {0}
<1>1. held[h] \in Seq(Blocks) /\ prompt[h] \in Prompts \cup {<<>>} BY DEF TypeOK
<1>2. Len(held[h]) \in Nat BY <1>1
<1>3. \A b : b \in Range(held[h]) <=> \E j \in Slots(h) : b = held[h][j]
  BY <1>1, ElementsOfSeq DEF Slots
<1>4. \A j \in Slots(h) : held[h][j] \in Blocks BY <1>1, ElementOfSeq DEF Slots
<1>5. \A j \in Slots(h) : Position(h, j) \in Nat \ {0}
  BY <1>2 DEF Slots, Position, TypeOK
<1> QED BY <1>1, <1>2, <1>3, <1>4, <1>5

(* A list never holds a block twice.                                        *)
LEMMA HeldOnce ==
    ASSUME IInv, NEW h \in Holders, NEW i \in Slots(h), NEW j \in Slots(h),
           held[h][i] = held[h][j]
    PROVE  i = j
<1>1. TypeOK BY DEF IInv
<1>2. CASE ~FullSlot(h, i) \/ ~FullSlot(h, j)
  BY <1>2 DEF IInv, Exclusive
<1>3. CASE FullSlot(h, i) /\ FullSlot(h, j)
  <2> DEFINE p == prompt[h]
             m == Position(h, i)
             n == Position(h, j)
  <2>1. p \in Prompts /\ m \in Nat \ {0} /\ n \in Nat \ {0}
    BY <1>1, <1>3, Places, NoFullChunk DEF FullSlot
  <2>2. /\ Hash(p, m) \in DOMAIN hash_to_block /\ hash_to_block[Hash(p, m)] = held[h][i]
        /\ Hash(p, n) \in DOMAIN hash_to_block /\ hash_to_block[Hash(p, n)] = held[h][j]
    BY <1>3 DEF IInv, CachePinned, FullSlot, Slots
  <2>3. Hash(p, m) = Hash(p, n) BY <2>2 DEF IInv, CacheExact, IsInjective
  <2>4. m = n BY <1>3, <2>1, <2>3, HashInjective DEF FullSlot
  <2> QED BY <1>1, <2>1, <2>4, Places DEF Position, Slots, TypeOK
<1> QED BY <1>2, <1>3

(* Held blocks and cached blocks are allocated, free ones are neither.      *)
LEMMA Allocation ==
    ASSUME IInv
    PROVE  /\ \A h \in Holders : \A j \in Slots(h) : held[h][j] \in allocated
           /\ DOMAIN ref_counts \subseteq allocated
           /\ \A h \in Holders : \A j \in Slots(h) :
                  FullSlot(h, j) => held[h][j] \in DOMAIN ref_counts
<1>1. TypeOK BY DEF IInv
<1>2. \A h \in Holders : \A j \in Slots(h) : held[h][j] \in HeldBlocks
  BY <1>1, Places DEF HeldBlocks
<1>3. \A h \in Holders : \A j \in Slots(h) :
          FullSlot(h, j) => held[h][j] \in DOMAIN ref_counts
  BY DEF IInv, CachePinned, CacheExact, FullSlot, Slots, Range
<1> QED BY <1>2, <1>3 DEF IInv, NothingStranded

-----------------------------------------------------------------------------
LEMMA InitIInv == Init => IInv
<1> SUFFICES ASSUME Init PROVE IInv
  OBVIOUS
<1> USE BlockManagerAssumption
<1>1. AllFree \in Seq(Blocks) /\ IsInjective(AllFree) /\ Range(AllFree) = Blocks
  <2>1. AllFree \in [1 .. NumBlocks -> Blocks] BY DEF AllFree, Blocks
  <2>2. AllFree \in Seq(Blocks) BY <2>1, SeqDef
  <2>3. IsInjective(AllFree) BY DEF AllFree, IsInjective
  <2>4. ASSUME NEW b \in Blocks PROVE b \in Range(AllFree)
    <3>1. b + 1 \in 1 .. NumBlocks /\ (b + 1) - 1 = b BY DEF Blocks
    <3>2. b + 1 \in DOMAIN AllFree /\ AllFree[b + 1] = b BY <3>1 DEF AllFree
    <3> QED BY <3>2 DEF Range
  <2>5. Range(AllFree) \subseteq Blocks BY <2>1 DEF Range
  <2> QED BY <2>2, <2>3, <2>4, <2>5
<1>2. DOMAIN <<>> = {} /\ Range(<<>>) = {} /\ IsInjective(<<>>)
  BY EmptyRange
<1>3. held \in [Holders -> Seq(Blocks)] /\ \A h \in Holders : held[h] = <<>> /\ Slots(h) = {}
  BY DEF Init, Slots
<1>4. TypeOK
  <2>1. op \in [call : Calls, holder : Holders \cup {NoHolder}, arg : Nat]
    BY DEF Init, Idle, Calls
  <2>2. <<>> \in [DOMAIN <<>> -> Blocks] /\ <<>> \in [DOMAIN <<>> -> Nat]
    BY <1>2
  <2>3. ref_order \in Seq(Blocks) BY DEF Init
  <2> QED BY <1>1, <1>2, <1>3, <2>1, <2>2, <2>3 DEF Init, TypeOK
<1>5. CallOK BY DEF Init, CallOK, Idle
<1>6. FreeListExact BY <1>1 DEF Init, FreeListExact
<1>7. CacheExact BY <1>2 DEF Init, CacheExact
<1>8. NothingStranded
  <2>1. \A h \in Holders : Range(held[h]) = {} BY <1>2, <1>3
  <2>2. HeldBlocks = {} BY <2>1 DEF HeldBlocks
  <2> QED BY <1>2, <2>2 DEF Init, NothingStranded
<1>9. Exclusive /\ CachePinned BY <1>3 DEF Exclusive, CachePinned, Slots
<1>10. RefCountExact BY <1>2 DEF Init, RefCountExact
<1>11. ChunksHeld
  <2>1. \A h \in Holders : prompt[h] = <<>> BY DEF Init
  <2> QED BY <2>1, NoFullChunk DEF ChunksHeld
<1>12. LeaksCached BY DEF Init, LeaksCached
<1> QED BY <1>4, <1>5, <1>6, <1>7, <1>8, <1>9, <1>10, <1>11, <1>12 DEF IInv

-----------------------------------------------------------------------------
(* Steps that change the running call and the prompt of an empty list only. *)

LEMMA CallChangePreserves ==
    ASSUME IInv,
           UNCHANGED <<free_block_ids, allocated, hash_to_block, ref_counts, ref_order, held,
                       leaked>>,
           \A h \in Holders : \A j \in Slots(h) :
               prompt'[h] = prompt[h] /\ Position(h, j)' = Position(h, j),
           TypeOK', CallOK', ChunksHeld'
    PROVE  IInv'
<1>1. FreeListExact' /\ CacheExact' BY DEF IInv, FreeListExact, CacheExact
<1>2. NothingStranded' BY DEF IInv, NothingStranded, HeldBlocks
<1>3. RefCountExact' /\ LeaksCached' BY DEF IInv, RefCountExact, Sharers, LeaksCached
<1>4. \A h \in Holders : Slots(h)' = Slots(h) BY DEF Slots
<1>5. \A h \in Holders : \A j \in Slots(h) : FullSlot(h, j)' = FullSlot(h, j)
  BY DEF FullSlot
<1>6. Exclusive' BY <1>4, <1>5 DEF IInv, Exclusive
<1>7. CachePinned' BY DEF IInv, CachePinned, Slots
<1> QED BY <1>1, <1>2, <1>3, <1>6, <1>7 DEF IInv

LEMMA SamePosition ==
    ASSUME op.call # "free_prefix", op'.call # "free_prefix",
           NEW h \in Holders, NEW j \in Slots(h)
    PROVE  Position(h, j)' = Position(h, j)
BY DEF Position

LEMMA AllocateCallPreserves ==
    ASSUME IInv, NEW h \in Holders, NEW n \in AllocateSizes, AllocateCall(h, n)
    PROVE  IInv'
<1> USE BlockManagerAssumption
<1>1. op.call = "idle" /\ op'.call = "allocate" /\ op'.holder = h /\ op'.arg = n
  BY DEF AllocateCall, Idle, Call
<1>2. TypeOK' BY DEF AllocateCall, Call, Calls, IInv, TypeOK, cache
<1>3. CallOK' BY <1>1 DEF AllocateCall, CallOK
<1>4. ChunksHeld' BY <1>1 DEF AllocateCall, IInv, ChunksHeld
<1> QED BY <1>1, <1>2, <1>3, <1>4, SamePosition, CallChangePreserves DEF AllocateCall, cache

LEMMA AllocateRaisePreserves ==
    ASSUME IInv, AllocateRaise
    PROVE  IInv'
<1> USE BlockManagerAssumption
<1>1. op.call = "allocate" /\ op'.call = "idle" /\ op' = Idle
  BY DEF AllocateRaise, Idle
<1>2. TypeOK' BY DEF AllocateRaise, Idle, Calls, IInv, TypeOK, cache
<1>3. CallOK' BY <1>1 DEF CallOK, Idle
<1>4. ChunksHeld' BY <1>1 DEF AllocateRaise, IInv, ChunksHeld
<1> QED BY <1>1, <1>2, <1>3, <1>4, SamePosition, CallChangePreserves DEF AllocateRaise, cache

LEMMA PrefixCallPreserves ==
    ASSUME IInv, NEW h \in Holders, NEW p \in Prompts, PrefixCall(h, p)
    PROVE  IInv'
<1> USE BlockManagerAssumption
<1>1. /\ op.call = "idle"
      /\ op'.call = "prefix" /\ op'.holder = h /\ op'.arg = 0
  BY DEF PrefixCall, Idle, Call
<1>2. prompt' \in [Holders -> Prompts \cup {<<>>}] /\ prompt'[h] = p
      /\ \A k \in Holders \ {h} : prompt'[k] = prompt[k]
  BY DEF PrefixCall, IInv, TypeOK
<1>3. TypeOK' BY <1>2 DEF PrefixCall, Call, Calls, IInv, TypeOK, cache
<1>4. CallOK' BY <1>1, <1>2 DEF PrefixCall, CallOK
<1>5. ChunksHeld' BY <1>1, <1>2 DEF PrefixCall, IInv, ChunksHeld
<1>6. \A k \in Holders : \A j \in Slots(k) : prompt'[k] = prompt[k]
  BY <1>2 DEF PrefixCall, Slots
<1> QED BY <1>1, <1>3, <1>4, <1>5, <1>6, SamePosition, CallChangePreserves DEF PrefixCall, cache

LEMMA PrefixReturnPreserves ==
    ASSUME IInv, PrefixReturn
    PROVE  IInv'
<1> USE BlockManagerAssumption
<1> DEFINE h == op.holder
<1>1. op.call = "prefix" /\ op'.call = "idle" /\ op' = Idle
  BY DEF PrefixReturn, Idle
<1>2. /\ h \in Holders /\ prompt[h] \in Prompts
      /\ Len(held[h]) = NumChunks(prompt[h])
  BY <1>1 DEF PrefixReturn, IInv, CallOK, TypeOK
<1>3. TypeOK' BY DEF PrefixReturn, Idle, Calls, IInv, TypeOK, cache
<1>4. CallOK' BY <1>1 DEF CallOK, Idle
<1>5. \A i \in Nat \ {0} : IsFull(prompt[h], i) => i <= Len(held[h])
  BY <1>2, FullChunk
<1>6. ChunksHeld' BY <1>1, <1>5 DEF PrefixReturn, IInv, ChunksHeld
<1> QED BY <1>1, <1>3, <1>4, <1>6, SamePosition, CallChangePreserves DEF PrefixReturn, cache

(* The chunks a prefix call has seen before its next one are full.          *)
LEMMA GatheredFull ==
    ASSUME IInv, AtChunk, NEW h, h = op.holder, NEW j \in Slots(h)
    PROVE  FullSlot(h, j) /\ Position(h, j) = j
<1>0. TypeOK BY DEF IInv
<1>1. /\ op.call = "prefix" /\ h \in Holders /\ op.arg = Len(held[h])
      /\ op.arg < NumChunks(prompt[h])
  BY DEF AtChunk, IInv, CallOK
<1>2. prompt[h] \in Prompts \cup {<<>>} /\ Len(held[h]) \in Nat BY <1>0, <1>1, Places
<1>3. Len(prompt[h]) \in Nat BY <1>2, PromptLength
<1>4. op.arg * BlockSize <= Len(prompt[h])
  BY <1>1, <1>2, <1>3, ChunkArithmetic DEF NumChunks
<1>5. j \in Nat /\ j <= op.arg BY <1>1, <1>2 DEF Slots
<1>6. j * BlockSize <= op.arg * BlockSize BY <1>1, <1>2, <1>3, <1>5, ChunkArithmetic
<1>7. j * BlockSize \in Nat /\ op.arg * BlockSize \in Nat
  BY <1>1, <1>2, <1>5, BlockManagerAssumption
<1>8. j * BlockSize <= Len(prompt[h]) BY <1>3, <1>4, <1>6, <1>7
<1>9. Position(h, j) = j BY <1>1 DEF Position
<1> QED BY <1>8, <1>9 DEF FullSlot, IsFull

LEMMA PrefixRaisePreserves ==
    ASSUME IInv, PrefixRaise
    PROVE  IInv'
<1> USE BlockManagerAssumption
<1>0. TypeOK BY DEF IInv
<1>1. PICK h, dropped : h = op.holder /\ dropped = Range(held[h]) OBVIOUS
<1>2. /\ op.call = "prefix" /\ op'.call = "idle" /\ op' = Idle /\ h \in Holders
      /\ UNCHANGED <<free_block_ids, allocated, hash_to_block, ref_counts, ref_order>>
      /\ held' = [held EXCEPT ![h] = <<>>]
      /\ prompt' = [prompt EXCEPT ![h] = <<>>]
      /\ leaked' = [b \in Blocks |-> leaked[b] + (IF b \in dropped THEN 1 ELSE 0)]
  BY <1>1 DEF PrefixRaise, AtChunk, Idle, IInv, CallOK, cache
<1>3. /\ held' \in [Holders -> Seq(Blocks)] /\ held'[h] = <<>>
      /\ \A k \in Holders \ {h} : held'[k] = held[k] /\ Slots(k)' = Slots(k)
      /\ Slots(h)' = {} /\ Range(held'[h]) = {}
  BY <1>0, <1>2, EmptyRange DEF TypeOK, Slots
<1>4. prompt' \in [Holders -> Prompts \cup {<<>>}] /\ prompt'[h] = <<>>
      /\ \A k \in Holders \ {h} : prompt'[k] = prompt[k]
  BY <1>0, <1>2 DEF TypeOK
<1>5. /\ leaked' \in [Blocks -> Nat]
      /\ \A b \in Blocks : leaked[b] \in Nat
      /\ \A b \in Blocks : b \in dropped => leaked'[b] = leaked[b] + 1
      /\ \A b \in Blocks : b \notin dropped => leaked'[b] = leaked[b]
  BY <1>0, <1>2 DEF TypeOK
<1>6. dropped \subseteq DOMAIN ref_counts
  <2> SUFFICES ASSUME NEW b \in dropped PROVE b \in DOMAIN ref_counts
    OBVIOUS
  <2>0. \A c : c \in Range(held[h]) <=> \E j \in Slots(h) : c = held[h][j]
    BY <1>0, <1>2, Places
  <2>1. PICK j \in Slots(h) : b = held[h][j] BY <1>1, <2>0
  <2>2. AtChunk BY DEF PrefixRaise
  <2>3. FullSlot(h, j) BY <1>1, <2>2, GatheredFull
  <2> QED BY <1>2, <2>1, <2>3, Allocation
<1>7. TypeOK' BY <1>0, <1>2, <1>3, <1>4, <1>5 DEF TypeOK, Idle, Calls
<1>8. CallOK' BY <1>2 DEF CallOK, Idle
<1>9. FreeListExact' /\ CacheExact' BY <1>2 DEF IInv, FreeListExact, CacheExact
<1>10. NothingStranded'
  <2>1. \A c : c \in HeldBlocks' <=> \E k \in Holders \ {h} : c \in Range(held[k])
    BY <1>3 DEF HeldBlocks
  <2>2. \A c : c \in HeldBlocks <=> c \in HeldBlocks' \/ c \in dropped
    BY <1>1, <1>2, <2>1 DEF HeldBlocks
  <2> QED BY <1>2, <1>6, <2>2 DEF IInv, NothingStranded
<1>11. \A k \in Holders : \A j : Position(k, j) = j /\ Position(k, j)' = j
  BY <1>2 DEF Position
<1>12. \A k \in Holders : \A j \in Slots(k)' :
          /\ k # h /\ j \in Slots(k) /\ held'[k][j] = held[k][j]
          /\ prompt'[k] = prompt[k] /\ FullSlot(k, j)' = FullSlot(k, j)
  BY <1>3, <1>4, <1>11 DEF FullSlot
<1>13. Exclusive' BY <1>2, <1>12 DEF IInv, Exclusive
<1>14. CachePinned' BY <1>2, <1>11, <1>12 DEF IInv, CachePinned, Slots
<1>15. RefCountExact'
  <2> SUFFICES ASSUME NEW b \in DOMAIN ref_counts
               PROVE  ref_counts[b] = Cardinality(Sharers(b)') + leaked'[b]
    BY <1>2 DEF RefCountExact
  <2>1. b \in Blocks /\ ref_counts[b] = Cardinality(Sharers(b)) + leaked[b]
    BY <1>0 DEF TypeOK, IInv, RefCountExact
  <2>2. Sharers(b)' = Sharers(b) \ {h}
    BY <1>3 DEF Sharers
  <2>3. IsFiniteSet(Sharers(b)) /\ Cardinality(Sharers(b)) \in Nat
    BY FS_Subset, FS_CardinalityType DEF Sharers
  <2>4. CASE b \in dropped
    <3>1. h \in Sharers(b) BY <1>1, <1>2, <2>4 DEF Sharers
    <3>2. Cardinality(Sharers(b)') = Cardinality(Sharers(b)) - 1
      BY <2>2, <2>3, <3>1, FS_RemoveElement
    <3>3. leaked'[b] = leaked[b] + 1 /\ leaked[b] \in Nat BY <1>5, <2>1, <2>4
    <3> QED BY <2>1, <2>3, <3>2, <3>3
  <2>5. CASE b \notin dropped
    <3>1. h \notin Sharers(b) BY <1>1, <2>5 DEF Sharers
    <3>2. Sharers(b)' = Sharers(b) BY <2>2, <3>1
    <3> QED BY <1>5, <2>1, <2>5, <3>2
  <2> QED BY <2>4, <2>5
<1>16. ChunksHeld'
  <2> SUFFICES ASSUME NEW k \in Holders, NEW i \in Nat \ {0}, IsFull(prompt'[k], i)
               PROVE  i <= Len(held'[k])
    BY DEF ChunksHeld, IsFull
  <2>1. k # h BY <1>4, NoFullChunk
  <2>2. held'[k] = held[k] /\ prompt'[k] = prompt[k] BY <1>3, <1>4, <2>1
  <2> QED BY <1>1, <2>1, <2>2 DEF IInv, ChunksHeld
<1>17. LeaksCached' BY <1>2, <1>5, <1>6 DEF IInv, LeaksCached
<1> QED BY <1>7, <1>8, <1>9, <1>10, <1>13, <1>14, <1>15, <1>16, <1>17 DEF IInv

LEMMA FreePrefixCallPreserves ==
    ASSUME IInv, NEW h \in Holders, FreePrefixCall(h)
    PROVE  IInv'
<1> USE BlockManagerAssumption
<1>1. /\ op.call = "idle"
      /\ op'.call = "free_prefix" /\ op'.holder = h /\ op'.arg = 0
  BY DEF FreePrefixCall, Idle, Call
<1>2. TypeOK' BY DEF FreePrefixCall, Call, Calls, IInv, TypeOK, cache
<1>3. CallOK' BY <1>1 DEF FreePrefixCall, CallOK
<1>4. ChunksHeld' BY <1>1 DEF FreePrefixCall, IInv, ChunksHeld
<1>5. \A k \in Holders : \A j \in Slots(k) : Position(k, j)' = Position(k, j)
  BY <1>1 DEF Position, Slots
<1> QED BY <1>1, <1>2, <1>3, <1>4, <1>5, CallChangePreserves DEF FreePrefixCall, cache

LEMMA FreePrefixReturnPreserves ==
    ASSUME IInv, FreePrefixReturn
    PROVE  IInv'
<1> USE BlockManagerAssumption
<1> DEFINE h == op.holder
<1>1. op.call = "free_prefix" /\ op' = Idle /\ op'.call = "idle" /\ held[h] = <<>>
  BY DEF FreePrefixReturn, Idle
<1>2. h \in Holders BY <1>1 DEF IInv, CallOK
<1>3. prompt' \in [Holders -> Prompts \cup {<<>>}] /\ prompt'[h] = <<>>
      /\ \A k \in Holders \ {h} : prompt'[k] = prompt[k]
  BY <1>2 DEF FreePrefixReturn, IInv, TypeOK
<1>4. TypeOK' BY <1>1, <1>3 DEF FreePrefixReturn, Idle, Calls, IInv, TypeOK, cache
<1>5. CallOK' BY <1>1 DEF CallOK, Idle
<1>6. ChunksHeld' BY <1>1, <1>3, NoFullChunk DEF FreePrefixReturn, IInv, ChunksHeld
<1>7. \A k \in Holders : \A j \in Slots(k) :
          prompt'[k] = prompt[k] /\ Position(k, j)' = Position(k, j)
  BY <1>1, <1>3 DEF Slots, Position
<1> QED BY <1>1, <1>4, <1>5, <1>6, <1>7, CallChangePreserves DEF FreePrefixReturn, cache

-----------------------------------------------------------------------------
(* Steps that give a list a block at its end.                              *)

Grows(h, b) == held' = [held EXCEPT ![h] = Append(@, b)]

LEMMA Grown ==
    ASSUME TypeOK, NEW h \in Holders, NEW b \in Blocks,
           Grows(h, b)
    PROVE  /\ held' \in [Holders -> Seq(Blocks)]
           /\ Len(held'[h]) = Len(held[h]) + 1
           /\ Slots(h)' = Slots(h) \cup {Len(held[h]) + 1}
           /\ Len(held[h]) + 1 \notin Slots(h)
           /\ held'[h][Len(held[h]) + 1] = b
           /\ \A j \in Slots(h) : held'[h][j] = held[h][j]
           /\ \A k \in Holders \ {h} : held'[k] = held[k] /\ Slots(k)' = Slots(k)
           /\ Range(held'[h]) = Range(held[h]) \cup {b}
<1>1. held \in [Holders -> Seq(Blocks)] /\ held[h] \in Seq(Blocks) BY DEF TypeOK
<1>2. held'[h] = Append(held[h], b) /\ \A k \in Holders \ {h} : held'[k] = held[k]
  BY <1>1 DEF Grows
<1>3. /\ Append(held[h], b) \in Seq(Blocks)
      /\ Len(Append(held[h], b)) = Len(held[h]) + 1
      /\ \A j \in 1 .. Len(held[h]) : Append(held[h], b)[j] = held[h][j]
      /\ Append(held[h], b)[Len(held[h]) + 1] = b
  BY <1>1, AppendProperties
<1>4. held' \in [Holders -> Seq(Blocks)] BY <1>1, <1>3 DEF Grows
<1>5. Range(held'[h]) = Range(held[h]) \cup {b} BY <1>1, <1>2, AppendElements
<1>6. Len(held[h]) \in Nat BY <1>1, LenProperties
<1>7. Slots(h)' = Slots(h) \cup {Len(held[h]) + 1} /\ Len(held[h]) + 1 \notin Slots(h)
  BY <1>2, <1>3, <1>6 DEF Slots
<1> QED BY <1>2, <1>3, <1>4, <1>5, <1>7 DEF Slots

LEMMA GrownSlots ==
    ASSUME TypeOK, NEW h \in Holders, NEW b \in Blocks, NEW n, n = Len(held[h]) + 1,
           Grows(h, b),
           NEW k \in Holders, NEW j, j \in Slots(k)'
    PROVE  \/ j \in Slots(k) /\ held'[k][j] = held[k][j]
           \/ k = h /\ j = n /\ held'[k][j] = b
<1>1. /\ Slots(h)' = Slots(h) \cup {n}
      /\ held'[h][n] = b
      /\ \A i \in Slots(h) : held'[h][i] = held[h][i]
      /\ \A l \in Holders \ {h} : held'[l] = held[l] /\ Slots(l)' = Slots(l)
  BY Grown
<1>2. CASE k = h
  <2>1. CASE j = n BY <1>1, <1>2, <2>1
  <2>2. CASE j # n
    <3>1. j \in Slots(h) BY <1>1, <1>2, <2>2
    <3> QED BY <1>1, <1>2, <3>1
  <2> QED BY <2>1, <2>2
<1>3. CASE k # h BY <1>1, <1>3
<1> QED BY <1>2, <1>3

(* The block of a popleft is nobody's and not cached.                       *)
LEMMA PopFacts ==
    ASSUME IInv, NEW h \in Holders, free_block_ids # <<>>, Pop(h), NEW b,
           b = Head(free_block_ids)
    PROVE  /\ b \in Blocks \ allocated
           /\ b \notin DOMAIN ref_counts
           /\ \A k \in Holders : b \notin Range(held[k])
           /\ \A k \in Holders : \A j \in Slots(k) : held[k][j] # b
           /\ allocated' = allocated \cup {b}
           /\ allocated' \in SUBSET Blocks
           /\ free_block_ids' \in Seq(Blocks)
           /\ FreeListExact'
           /\ Grows(h, b)
<1>1. TypeOK /\ free_block_ids \in Seq(Blocks) BY DEF IInv, TypeOK
<1>2. /\ b \in Range(free_block_ids)
      /\ Range(free_block_ids) = Range(Tail(free_block_ids)) \cup {b}
      /\ IsInjective(Tail(free_block_ids))
      /\ b \notin Range(Tail(free_block_ids))
      /\ Tail(free_block_ids) \in Seq(Blocks)
  BY <1>1, TailElements, HeadTailProperties DEF IInv, FreeListExact
<1>3. b \in Blocks \ allocated BY <1>2 DEF IInv, FreeListExact
<1>4. \A k \in Holders : \A j \in Slots(k) : held[k][j] # b
  BY <1>3, Allocation
<1>5. \A k \in Holders : b \notin Range(held[k])
  <2> SUFFICES ASSUME NEW k \in Holders, b \in Range(held[k]) PROVE FALSE
    OBVIOUS
  <2>1. held[k] \in Seq(Blocks) BY <1>1 DEF TypeOK
  <2>2. \E j \in 1 .. Len(held[k]) : b = held[k][j] BY <2>1, ElementsOfSeq
  <2> QED BY <1>4, <2>2 DEF Slots
<1>6. allocated' = allocated \cup {b} /\ allocated' \in SUBSET Blocks
  BY <1>1, <1>3 DEF Pop, TypeOK
<1>7. Range(free_block_ids') = Blocks \ allocated'
  BY <1>2, <1>6 DEF Pop, IInv, FreeListExact
<1>8. FreeListExact' BY <1>2, <1>7 DEF FreeListExact, Pop
<1> QED BY <1>2, <1>3, <1>4, <1>5, <1>6, <1>8, Allocation DEF Pop, Grows

(* The union of the lists grows with the list.                              *)
LEMMA HeldGrown ==
    ASSUME TypeOK, NEW h \in Holders, NEW b \in Blocks,
           Grows(h, b)
    PROVE  /\ HeldBlocks' = HeldBlocks \cup {b}
           /\ \A c \in Blocks \ {b} : Sharers(c)' = Sharers(c)
           /\ Sharers(b)' = Sharers(b) \cup {h}
<1>1. /\ Range(held'[h]) = Range(held[h]) \cup {b}
      /\ \A k \in Holders \ {h} : held'[k] = held[k]
  BY Grown
<1>2. \A c : \A k \in Holders :
          c \in Range(held'[k]) <=> c \in Range(held[k]) \/ (c = b /\ k = h)
  BY <1>1
<1>3. HeldBlocks' = HeldBlocks \cup {b} BY <1>2 DEF HeldBlocks
<1> QED BY <1>2, <1>3 DEF Sharers

(* A pop of a block for no full chunk.                                      *)
LEMMA PopPreserves ==
    ASSUME IInv, NEW h \in Holders, free_block_ids # <<>>, Pop(h),
           NEW b, b = Head(free_block_ids), NEW n, n = Len(held[h]) + 1,
           UNCHANGED <<hash_to_block, ref_counts, ref_order, prompt, leaked>>,
           op.call # "free_prefix", op'.call # "free_prefix",
           ~IsFull(prompt[h], n),
           op' \in [call : Calls, holder : Holders \cup {NoHolder}, arg : Nat],
           CallOK', ChunksHeld'
    PROVE  IInv'
<1>0. TypeOK BY DEF IInv
<1>1. /\ b \in Blocks \ allocated
      /\ b \notin DOMAIN ref_counts
      /\ \A k \in Holders : b \notin Range(held[k])
      /\ \A k \in Holders : \A j \in Slots(k) : held[k][j] # b
      /\ allocated' = allocated \cup {b}
      /\ allocated' \in SUBSET Blocks
      /\ free_block_ids' \in Seq(Blocks)
      /\ FreeListExact'
      /\ Grows(h, b)
  BY PopFacts
<1>2. /\ held' \in [Holders -> Seq(Blocks)]
      /\ Slots(h)' = Slots(h) \cup {n} /\ n \notin Slots(h)
      /\ held'[h][n] = b
      /\ \A j \in Slots(h) : held'[h][j] = held[h][j]
      /\ \A k \in Holders \ {h} : held'[k] = held[k] /\ Slots(k)' = Slots(k)
  BY <1>0, <1>1, Grown
<1>3. /\ HeldBlocks' = HeldBlocks \cup {b}
      /\ \A c \in Blocks \ {b} : Sharers(c)' = Sharers(c)
  BY <1>0, <1>1, HeldGrown
<1>4. TypeOK' BY <1>1, <1>2 DEF IInv, TypeOK
<1>5. CacheExact' BY DEF IInv, CacheExact
<1>6. NothingStranded' BY <1>1, <1>3 DEF IInv, NothingStranded
<1>7. \A k \in Holders : \A j : Position(k, j) = j /\ Position(k, j)' = j
  BY DEF Position
<1>8. ~FullSlot(h, n)' BY <1>7 DEF FullSlot
<1>9. \A k \in Holders : \A j : FullSlot(k, j)' = FullSlot(k, j)
  BY <1>7 DEF FullSlot
<1>10. \A k \in Holders : \A j \in Slots(k)' :
          \/ j \in Slots(k) /\ held'[k][j] = held[k][j]
          \/ k = h /\ j = n /\ held'[k][j] = b
  <2>1. b \in Blocks /\ Grows(h, b) BY <1>1
  <2> SUFFICES ASSUME NEW k \in Holders, NEW j, j \in Slots(k)'
               PROVE  \/ j \in Slots(k) /\ held'[k][j] = held[k][j]
                      \/ k = h /\ j = n /\ held'[k][j] = b
    OBVIOUS
  <2> QED BY <1>0, <2>1, GrownSlots
<1>11. Exclusive'
  <2> SUFFICES ASSUME NEW k \in Holders, NEW j \in Slots(k)', ~FullSlot(k, j)'
               PROVE  /\ held'[k][j] \notin DOMAIN ref_counts
                      /\ \A l \in Holders : \A i \in Slots(l)' :
                            held'[l][i] = held'[k][j] => l = k /\ i = j
    BY DEF Exclusive
  <2>1. CASE j \in Slots(k) /\ held'[k][j] = held[k][j]
    <3>1. held[k][j] # b BY <1>1, <2>1
    <3> QED BY <1>9, <1>10, <2>1, <3>1 DEF IInv, Exclusive
  <2>2. CASE k = h /\ j = n /\ held'[k][j] = b
    BY <1>1, <1>10, <2>2
  <2> QED BY <1>10, <2>1, <2>2
<1>12. CachePinned'
  <2> SUFFICES ASSUME NEW k \in Holders, NEW j \in Slots(k)', FullSlot(k, j)'
               PROVE  /\ Hash(prompt[k], Position(k, j)') \in DOMAIN hash_to_block
                      /\ hash_to_block[Hash(prompt[k], Position(k, j)')] = held'[k][j]
    BY DEF CachePinned, FullSlot, Slots
  <2>1. j \in Slots(k) /\ held'[k][j] = held[k][j] BY <1>8, <1>10
  <2>2. FullSlot(k, j) BY <1>9
  <2> QED BY <1>7, <2>1, <2>2 DEF IInv, CachePinned, FullSlot, Slots
<1>13. RefCountExact' /\ LeaksCached'
  BY <1>0, <1>1, <1>3 DEF IInv, RefCountExact, LeaksCached, TypeOK
<1> QED BY <1>1, <1>4, <1>5, <1>6, <1>11, <1>12, <1>13 DEF IInv

LEMMA NotEmpty ==
    ASSUME TypeOK, NEW n \in Nat \ {0}, can_allocate(n)
    PROVE  free_block_ids # <<>>
<1>1. Len(free_block_ids) >= n BY DEF can_allocate
<1>2. Len(<<>>) = 0 BY EmptySeq
<1> QED BY <1>1, <1>2

LEMMA AllocatePopPreserves ==
    ASSUME IInv, AllocatePop
    PROVE  IInv'
<1> USE BlockManagerAssumption
<1> DEFINE h == op.holder
<1>0. TypeOK BY DEF IInv
<1>1. /\ op.call = "allocate" /\ op.arg \in Nat \ {0} /\ h \in Holders
      /\ Pop(h) /\ UNCHANGED <<hash_to_block, ref_counts, ref_order, prompt, leaked>>
  BY <1>0 DEF AllocatePop, IInv, CallOK, cache, TypeOK
<1>2. free_block_ids # <<>> BY <1>0, <1>1, NotEmpty DEF AllocatePop
<1>3. PICK b, n : b = Head(free_block_ids) /\ n = Len(held[h]) + 1 OBVIOUS
<1>4. /\ Grows(h, b)
      /\ b \in Blocks
  BY <1>1, <1>2, <1>3, PopFacts
<1>5. Len(held'[h]) = n /\ \A k \in Holders \ {h} : held'[k] = held[k]
  BY <1>0, <1>1, <1>3, <1>4, Grown
<1>6. Len(held[h]) \in Nat BY <1>0, <1>1, Places
<1>7. \A i \in Nat \ {0} : IsFull(prompt[h], i) => i <= Len(held[h])
  BY <1>1 DEF IInv, ChunksHeld
<1>8. ~IsFull(prompt[h], n) BY <1>3, <1>6, <1>7
<1>9. /\ op'.call \in {"idle", "allocate"}
      /\ op' \in [call : Calls, holder : Holders \cup {NoHolder}, arg : Nat]
      /\ CallOK'
  <2>1. CASE op.arg = 1
    <3>1. op' = Idle BY <2>1 DEF AllocatePop
    <3> QED BY <3>1 DEF Idle, Calls, CallOK
  <2>2. CASE op.arg # 1
    <3>1. op' = [op EXCEPT !.arg = @ - 1] BY <2>2 DEF AllocatePop
    <3>2. op'.call = "allocate" /\ op'.holder = h /\ op'.arg = op.arg - 1
          /\ op' \in [call : Calls, holder : Holders \cup {NoHolder}, arg : Nat]
      <4>1. op \in [call : Calls, holder : Holders \cup {NoHolder}, arg : Nat]
        BY <1>0 DEF TypeOK
      <4>2. op.arg - 1 \in Nat BY <1>1, <2>2
      <4> QED BY <1>1, <3>1, <4>1, <4>2
    <3>3. op'.arg > 0 BY <1>1, <2>2, <3>2
    <3> QED BY <1>1, <3>2, <3>3 DEF CallOK
  <2> QED BY <2>1, <2>2
<1>10. ChunksHeld'
  <2> SUFFICES ASSUME NEW k \in Holders, NEW i \in Nat \ {0}, IsFull(prompt[k], i)
               PROVE  i <= Len(held'[k])
    BY <1>1 DEF ChunksHeld
  <2>1. i <= Len(held[k]) BY <1>1 DEF IInv, ChunksHeld
  <2>2. CASE k = h BY <1>3, <1>5, <1>6, <2>1, <2>2
  <2>3. CASE k # h BY <1>5, <2>1, <2>3
  <2> QED BY <2>2, <2>3
<1> HIDE DEF h
<1> QED BY <1>1, <1>2, <1>3, <1>8, <1>9, <1>10, PopPreserves

(* A step of allocate_with_prefix_cache that adds a block for its chunk.     *)
LEMMA PrefixStep ==
    ASSUME IInv, op.call = "prefix", op' = [op EXCEPT !.arg = @ + 1],
           UNCHANGED <<prompt, leaked>>, NEW b \in Blocks,
           Grows(op.holder, b)
    PROVE  /\ op' \in [call : Calls, holder : Holders \cup {NoHolder}, arg : Nat]
           /\ op'.call = "prefix"
           /\ CallOK'
           /\ ChunksHeld'
<1> DEFINE h == op.holder
<1>0. TypeOK BY DEF IInv
<1>1. /\ h \in Holders /\ prompt[h] # <<>>
      /\ op.arg = Len(held[h])
  BY DEF IInv, CallOK
<1>2. Len(held'[h]) = Len(held[h]) + 1 /\ \A k \in Holders \ {h} : held'[k] = held[k]
  BY <1>0, <1>1, Grown
<1>3. op'.call = "prefix" /\ op'.holder = h /\ op'.arg = Len(held[h]) + 1
      /\ op' \in [call : Calls, holder : Holders \cup {NoHolder}, arg : Nat]
  <2>1. op \in [call : Calls, holder : Holders \cup {NoHolder}, arg : Nat]
    BY <1>0 DEF TypeOK
  <2> QED BY <1>1, <2>1
<1>4. CallOK' BY <1>1, <1>2, <1>3 DEF CallOK
<1>5. ChunksHeld'
  <2> SUFFICES ASSUME NEW k \in Holders, k # h,
                      NEW i \in Nat \ {0}, IsFull(prompt[k], i)
               PROVE  i <= Len(held'[k])
    BY <1>3 DEF ChunksHeld
  <2>1. i <= Len(held[k]) BY DEF IInv, ChunksHeld
  <2> QED BY <1>2, <2>1
<1> QED BY <1>3, <1>4, <1>5

LEMMA PrefixPartialPreserves ==
    ASSUME IInv, PrefixPartial
    PROVE  IInv'
<1> USE BlockManagerAssumption
<1> DEFINE h == op.holder
<1>0. TypeOK BY DEF IInv
<1>1. /\ op.call = "prefix" /\ h \in Holders /\ op.arg = Len(held[h])
      /\ op' = [op EXCEPT !.arg = @ + 1]
      /\ Pop(h) /\ UNCHANGED <<hash_to_block, ref_counts, ref_order, prompt, leaked>>
  BY DEF PrefixPartial, AtChunk, IInv, CallOK, cache
<1>2. free_block_ids # <<>> BY <1>0, NotEmpty DEF PrefixPartial
<1>3. PICK b, n : b = Head(free_block_ids) /\ n = Len(held[h]) + 1 OBVIOUS
<1>4. /\ Grows(h, b)
      /\ b \in Blocks
  BY <1>1, <1>2, <1>3, PopFacts
<1>5. ~IsFull(prompt[h], n) BY <1>1, <1>3 DEF PrefixPartial, Next1
<1>6. /\ op' \in [call : Calls, holder : Holders \cup {NoHolder}, arg : Nat]
      /\ op'.call = "prefix" /\ CallOK' /\ ChunksHeld'
  BY <1>1, <1>4, PrefixStep
<1> HIDE DEF h
<1> QED BY <1>1, <1>2, <1>3, <1>5, <1>6, PopPreserves

LEMMA PrefixMissPreserves ==
    ASSUME IInv, PrefixMiss
    PROVE  IInv'
<1> USE BlockManagerAssumption
<1>0. TypeOK BY DEF IInv
<1>1. PICK h, b, n, x : /\ h = op.holder /\ b = Head(free_block_ids)
                        /\ n = Len(held[h]) + 1 /\ x = Hash(prompt[h], n)
  OBVIOUS
<1>2. /\ op.call = "prefix" /\ h \in Holders /\ op.arg + 1 = n
      /\ prompt[h] # <<>> /\ IsFull(prompt[h], n)
      /\ x \notin DOMAIN hash_to_block
      /\ op' = [op EXCEPT !.arg = @ + 1]
      /\ Pop(h) /\ Register(x, b) /\ UNCHANGED <<prompt, leaked>>
  BY <1>1 DEF PrefixMiss, AtChunk, AtHit, Next1, IInv, CallOK
<1>3. free_block_ids # <<>> BY <1>0, NotEmpty DEF PrefixMiss
<1>4. /\ b \in Blocks \ allocated
      /\ b \notin DOMAIN ref_counts
      /\ \A k \in Holders : b \notin Range(held[k])
      /\ \A k \in Holders : \A j \in Slots(k) : held[k][j] # b
      /\ allocated' = allocated \cup {b}
      /\ allocated' \in SUBSET Blocks
      /\ free_block_ids' \in Seq(Blocks)
      /\ FreeListExact'
      /\ Grows(h, b)
  BY <1>1, <1>2, <1>3, PopFacts
<1>5. /\ op' \in [call : Calls, holder : Holders \cup {NoHolder}, arg : Nat]
      /\ op'.call = "prefix" /\ CallOK' /\ ChunksHeld'
  BY <1>1, <1>2, <1>4, PrefixStep
<1>6. prompt[h] \in Prompts /\ n \in Nat \ {0} /\ x \in Hashes
  <2>1. prompt[h] \in Prompts /\ n \in Nat \ {0} BY <1>0, <1>1, <1>2, Places
  <2> QED BY <1>1, <1>2, <2>1, FullChunk
<1>7. /\ DOMAIN hash_to_block' = DOMAIN hash_to_block \cup {x}
      /\ hash_to_block'[x] = b
      /\ \A y \in DOMAIN hash_to_block : hash_to_block'[y] = hash_to_block[y]
      /\ DOMAIN ref_counts' = DOMAIN ref_counts \cup {b}
      /\ ref_counts'[b] = 1
      /\ \A c \in DOMAIN ref_counts : ref_counts'[c] = ref_counts[c]
      /\ ref_order' = Append(ref_order, b)
  BY <1>2, <1>4 DEF Register
<1>8. TypeOK'
  <2>1. held' \in [Holders -> Seq(Blocks)] BY <1>0, <1>2, <1>4, Grown
  <2>2. hash_to_block' \in [DOMAIN hash_to_block' -> Blocks]
        /\ ref_counts' \in [DOMAIN ref_counts' -> Nat]
    BY <1>0, <1>2, <1>4, <1>7 DEF TypeOK, Register
  <2>3. ref_order' \in Seq(Blocks) BY <1>0, <1>4, <1>7, AppendProperties DEF TypeOK
  <2> QED BY <1>0, <1>2, <1>4, <1>5, <1>6, <1>7, <2>1, <2>2, <2>3 DEF TypeOK
<1>9. CacheExact'
  <2>1. Range(hash_to_block') = Range(hash_to_block) \cup {b}
    BY <1>2, <1>7 DEF Range
  <2>2. \A y \in DOMAIN hash_to_block : hash_to_block[y] # b
    BY <1>4 DEF IInv, CacheExact, Range
  <2>3. IsInjective(hash_to_block') BY <1>2, <1>7, <2>2 DEF IInv, CacheExact, IsInjective
  <2>4. Range(ref_order') = Range(ref_order) \cup {b} /\ IsInjective(ref_order')
    BY <1>0, <1>4, <1>7, AppendElements DEF IInv, CacheExact, TypeOK
  <2> QED BY <1>7, <2>1, <2>3, <2>4 DEF IInv, CacheExact
<1>10. /\ HeldBlocks' = HeldBlocks \cup {b}
       /\ \A c \in Blocks \ {b} : Sharers(c)' = Sharers(c)
       /\ Sharers(b)' = Sharers(b) \cup {h}
  BY <1>0, <1>2, <1>4, HeldGrown
<1>11. NothingStranded' BY <1>4, <1>7, <1>10 DEF IInv, NothingStranded
<1>12. \A k \in Holders : \A j : Position(k, j) = j /\ Position(k, j)' = j
  BY <1>2, <1>5 DEF Position
<1>13. \A k \in Holders : \A j \in Slots(k)' :
          \/ j \in Slots(k) /\ held'[k][j] = held[k][j]
          \/ k = h /\ j = n /\ held'[k][j] = b
  <2>1. b \in Blocks /\ Grows(h, b) BY <1>4
  <2> SUFFICES ASSUME NEW k \in Holders, NEW j, j \in Slots(k)'
               PROVE  \/ j \in Slots(k) /\ held'[k][j] = held[k][j]
                      \/ k = h /\ j = n /\ held'[k][j] = b
    OBVIOUS
  <2> QED BY <1>0, <1>1, <1>2, <2>1, GrownSlots
<1>14. FullSlot(h, n)' /\ \A k \in Holders : \A j : FullSlot(k, j)' = FullSlot(k, j)
  BY <1>2, <1>12 DEF FullSlot
<1>15. Exclusive'
  <2> SUFFICES ASSUME NEW k \in Holders, NEW j \in Slots(k)', ~FullSlot(k, j)'
               PROVE  /\ held'[k][j] \notin DOMAIN ref_counts'
                      /\ \A l \in Holders : \A i \in Slots(l)' :
                            held'[l][i] = held'[k][j] => l = k /\ i = j
    BY DEF Exclusive
  <2>1. j \in Slots(k) /\ held'[k][j] = held[k][j] BY <1>13, <1>14
  <2>2. ~FullSlot(k, j) BY <1>14
  <2>3. held[k][j] # b BY <1>4, <2>1
  <2> QED BY <1>7, <1>13, <2>1, <2>2, <2>3 DEF IInv, Exclusive
<1>16. CachePinned'
  <2> SUFFICES ASSUME NEW k \in Holders, NEW j \in Slots(k)', FullSlot(k, j)'
               PROVE  /\ Hash(prompt[k], j) \in DOMAIN hash_to_block'
                      /\ hash_to_block'[Hash(prompt[k], j)] = held'[k][j]
    BY <1>2, <1>12 DEF CachePinned, FullSlot, Slots
  <2>1. CASE j \in Slots(k) /\ held'[k][j] = held[k][j]
    <3>1. FullSlot(k, j) BY <1>14
    <3>2. /\ Hash(prompt[k], j) \in DOMAIN hash_to_block
          /\ hash_to_block[Hash(prompt[k], j)] = held[k][j]
      BY <1>12, <2>1, <3>1 DEF IInv, CachePinned, FullSlot, Slots
    <3> QED BY <1>7, <2>1, <3>2
  <2>2. CASE k = h /\ j = n /\ held'[k][j] = b BY <1>1, <1>7, <2>2
  <2> QED BY <1>13, <2>1, <2>2
<1>17. RefCountExact'
  <2> SUFFICES ASSUME NEW c \in DOMAIN ref_counts'
               PROVE  ref_counts'[c] = Cardinality(Sharers(c)') + leaked[c]
    BY <1>2 DEF RefCountExact
  <2>1. CASE c = b
    <3>1. Sharers(b) = {} BY <1>4 DEF Sharers
    <3>2. Sharers(c)' = {h} BY <1>10, <2>1, <3>1
    <3>3. leaked[b] = 0 BY <1>0, <1>4 DEF TypeOK, IInv, LeaksCached
    <3>4. Cardinality(Sharers(c)') = 1 BY <3>2, FS_Singleton
    <3> QED BY <1>7, <2>1, <3>3, <3>4
  <2>2. CASE c # b
    <3>1. c \in DOMAIN ref_counts BY <1>7, <2>2
    <3>2. c \in Blocks BY <1>0, <3>1 DEF TypeOK
    <3>3. Sharers(c)' = Sharers(c) BY <1>10, <2>2, <3>2
    <3> QED BY <1>7, <3>1, <3>3 DEF IInv, RefCountExact
  <2> QED BY <2>1, <2>2
<1>18. LeaksCached' BY <1>2, <1>7 DEF IInv, LeaksCached
<1> QED BY <1>4, <1>5, <1>8, <1>9, <1>11, <1>15, <1>16, <1>17, <1>18 DEF IInv

LEMMA PrefixHitPreserves ==
    ASSUME IInv, PrefixHit
    PROVE  IInv'
<1> USE BlockManagerAssumption
<1>0. TypeOK BY DEF IInv
<1>1. PICK h, b, n, x : /\ h = op.holder /\ b = hash_to_block[x]
                        /\ n = Len(held[h]) + 1 /\ x = Hash(prompt[h], n)
  OBVIOUS
<1>2. /\ op.call = "prefix" /\ h \in Holders /\ op.arg + 1 = n
      /\ prompt[h] # <<>> /\ IsFull(prompt[h], n)
      /\ x \in DOMAIN hash_to_block
      /\ op' = [op EXCEPT !.arg = @ + 1]
      /\ ref_counts' = [ref_counts EXCEPT ![b] = @ + 1]
      /\ Grows(h, b)
      /\ UNCHANGED <<free_block_ids, allocated, hash_to_block, ref_order, prompt, leaked>>
  BY <1>1 DEF PrefixHit, AtChunk, AtHit, Next1, IInv, CallOK, Grows
<1>3. b \in DOMAIN ref_counts /\ b \in Blocks /\ ref_counts[b] \in Nat
  <2>1. b \in DOMAIN ref_counts BY <1>1, <1>2 DEF IInv, CacheExact, Range
  <2> QED BY <1>0, <2>1 DEF TypeOK
<1>4. /\ DOMAIN ref_counts' = DOMAIN ref_counts
      /\ ref_counts'[b] = ref_counts[b] + 1
      /\ \A c \in DOMAIN ref_counts \ {b} : ref_counts'[c] = ref_counts[c]
      /\ ref_counts' \in [DOMAIN ref_counts' -> Nat]
  BY <1>0, <1>2, <1>3 DEF TypeOK
<1>5. /\ op' \in [call : Calls, holder : Holders \cup {NoHolder}, arg : Nat]
      /\ op'.call = "prefix" /\ CallOK' /\ ChunksHeld'
  BY <1>1, <1>2, <1>3, PrefixStep
<1>6. prompt[h] \in Prompts /\ n \in Nat \ {0}
  BY <1>0, <1>1, <1>2, Places
<1>7. TypeOK'
  <2>1. held' \in [Holders -> Seq(Blocks)] BY <1>0, <1>2, <1>3, Grown
  <2> QED BY <1>0, <1>2, <1>4, <1>5, <2>1 DEF TypeOK
<1>8. CacheExact' /\ FreeListExact'
  BY <1>2, <1>4 DEF IInv, CacheExact, FreeListExact
<1>9. /\ HeldBlocks' = HeldBlocks \cup {b}
      /\ \A c \in Blocks \ {b} : Sharers(c)' = Sharers(c)
      /\ Sharers(b)' = Sharers(b) \cup {h}
  BY <1>0, <1>2, <1>3, HeldGrown
<1>10. NothingStranded' BY <1>2, <1>3, <1>4, <1>9 DEF IInv, NothingStranded
<1>11. \A k \in Holders : \A j : Position(k, j) = j /\ Position(k, j)' = j
  BY <1>2, <1>5 DEF Position
<1>12. \A k \in Holders : \A j \in Slots(k)' :
          \/ j \in Slots(k) /\ held'[k][j] = held[k][j]
          \/ k = h /\ j = n /\ held'[k][j] = b
  <2> SUFFICES ASSUME NEW k \in Holders, NEW j, j \in Slots(k)'
               PROVE  \/ j \in Slots(k) /\ held'[k][j] = held[k][j]
                      \/ k = h /\ j = n /\ held'[k][j] = b
    OBVIOUS
  <2> QED BY <1>0, <1>1, <1>2, <1>3, GrownSlots
<1>13. FullSlot(h, n)' /\ \A k \in Holders : \A j : FullSlot(k, j)' = FullSlot(k, j)
  BY <1>2, <1>11 DEF FullSlot
<1>14. Exclusive'
  <2> SUFFICES ASSUME NEW k \in Holders, NEW j \in Slots(k)', ~FullSlot(k, j)'
               PROVE  /\ held'[k][j] \notin DOMAIN ref_counts'
                      /\ \A l \in Holders : \A i \in Slots(l)' :
                            held'[l][i] = held'[k][j] => l = k /\ i = j
    BY DEF Exclusive
  <2>1. j \in Slots(k) /\ held'[k][j] = held[k][j] BY <1>12, <1>13
  <2>2. ~FullSlot(k, j) BY <1>13
  <2>3. held[k][j] \notin DOMAIN ref_counts BY <2>1, <2>2 DEF IInv, Exclusive
  <2>4. held[k][j] # b BY <1>3, <2>3
  <2> QED BY <1>4, <1>12, <2>1, <2>2, <2>3, <2>4 DEF IInv, Exclusive
<1>15. CachePinned'
  <2> SUFFICES ASSUME NEW k \in Holders, NEW j \in Slots(k)', FullSlot(k, j)'
               PROVE  /\ Hash(prompt[k], j) \in DOMAIN hash_to_block
                      /\ hash_to_block[Hash(prompt[k], j)] = held'[k][j]
    BY <1>2, <1>11 DEF CachePinned, FullSlot, Slots
  <2>1. CASE j \in Slots(k) /\ held'[k][j] = held[k][j]
    BY <1>11, <1>13, <2>1 DEF IInv, CachePinned, FullSlot, Slots
  <2>2. CASE k = h /\ j = n /\ held'[k][j] = b BY <1>1, <1>2, <2>2
  <2> QED BY <1>12, <2>1, <2>2
<1>16. h \notin Sharers(b)
  <2> SUFFICES ASSUME h \in Sharers(b) PROVE FALSE
    OBVIOUS
  <2>1. held[h] \in Seq(Blocks) /\ b \in Range(held[h]) /\ Len(held[h]) \in Nat
    BY <1>0, <1>2, Places DEF Sharers
  <2>2. PICK j \in 1 .. Len(held[h]) : b = held[h][j] BY <2>1, ElementsOfSeq
  <2>3. IsFull(prompt[h], j) BY <1>2, <1>3, <1>11, <2>2 DEF IInv, Exclusive, Slots, FullSlot
  <2>4. Hash(prompt[h], j) \in DOMAIN hash_to_block /\ hash_to_block[Hash(prompt[h], j)] = b
    BY <1>2, <1>11, <2>2, <2>3 DEF IInv, CachePinned
  <2>5. Hash(prompt[h], j) = x BY <1>1, <1>2, <2>4 DEF IInv, CacheExact, IsInjective
  <2>6. j \in Nat \ {0} /\ j # n BY <1>1, <2>1
  <2> QED BY <1>1, <1>2, <1>6, <2>3, <2>5, <2>6, HashInjective
<1>17. RefCountExact'
  <2> SUFFICES ASSUME NEW c \in DOMAIN ref_counts'
               PROVE  ref_counts'[c] = Cardinality(Sharers(c)') + leaked[c]
    BY <1>2 DEF RefCountExact
  <2>1. CASE c = b
    <3>1. IsFiniteSet(Sharers(b)) BY FS_Subset DEF Sharers
    <3>2. Cardinality(Sharers(b) \cup {h}) = Cardinality(Sharers(b)) + 1
      BY <1>16, <3>1, FS_AddElement
    <3>3. ref_counts[b] = Cardinality(Sharers(b)) + leaked[b] BY <1>3 DEF IInv, RefCountExact
    <3>4. Cardinality(Sharers(b)) \in Nat /\ leaked[b] \in Nat
      BY <1>0, <1>3, <3>1, FS_CardinalityType DEF TypeOK
    <3>5. ref_counts'[b] = ref_counts[b] + 1 /\ Sharers(b)' = Sharers(b) \cup {h} BY <1>4, <1>9
    <3> QED BY <2>1, <3>2, <3>3, <3>4, <3>5
  <2>2. CASE c # b
    <3>1. c \in DOMAIN ref_counts \ {b} BY <1>4, <2>2
    <3>2. c \in Blocks BY <1>0, <3>1 DEF TypeOK
    <3>3. Sharers(c)' = Sharers(c) BY <1>9, <2>2, <3>2
    <3> QED BY <1>4, <3>1, <3>3 DEF IInv, RefCountExact
  <2> QED BY <2>1, <2>2
<1>18. LeaksCached' BY <1>2, <1>4 DEF IInv, LeaksCached
<1> QED BY <1>5, <1>7, <1>8, <1>10, <1>14, <1>15, <1>17, <1>18 DEF IInv

-----------------------------------------------------------------------------
(* Steps that free blocks.                                                 *)

LEMMA EvictCachedBlockPreserves ==
    ASSUME IInv, EvictCachedBlock
    PROVE  IInv'
<1> USE BlockManagerAssumption
<1>0. TypeOK BY DEF IInv
<1>1. PICK i \in 1 .. Len(ref_order) :
          LET b == ref_order[i] IN
          /\ b \in Evictable
          /\ hash_to_block' = WithoutHashOf(b)
          /\ ref_counts' = Restrict(ref_counts, DOMAIN ref_counts \ {b})
          /\ ref_order' = [j \in 1 .. Len(ref_order) - 1 |->
                              IF j < i THEN ref_order[j] ELSE ref_order[j + 1]]
          /\ allocated' = allocated \ {b}
          /\ free_block_ids' = Append(free_block_ids, b)
  BY DEF EvictCachedBlock
<1>2. PICK b : b = ref_order[i] OBVIOUS
<1>3. UNCHANGED <<held, prompt, leaked, op>> BY DEF EvictCachedBlock
<1>4. b \in DOMAIN ref_counts /\ ref_counts[b] = 0 /\ b \in Blocks /\ b \in allocated
  BY <1>0, <1>1, <1>2, Allocation DEF Evictable, TypeOK
<1>5. Sharers(b) = {}
  <2>1. IsFiniteSet(Sharers(b)) BY FS_Subset DEF Sharers
  <2>2. 0 = Cardinality(Sharers(b)) + leaked[b] BY <1>4 DEF IInv, RefCountExact
  <2>3. Cardinality(Sharers(b)) \in Nat /\ leaked[b] \in Nat
    BY <1>0, <1>4, <2>1, FS_CardinalityType DEF TypeOK
  <2>4. Cardinality(Sharers(b)) = 0 BY <2>2, <2>3
  <2> QED BY <2>1, <2>4, FS_EmptySet
<1>6. \A k \in Holders : b \notin Range(held[k]) BY <1>5 DEF Sharers
<1>7. \A k \in Holders : \A j \in Slots(k) : held[k][j] # b
  BY <1>0, <1>6, Places
<1>8. /\ DOMAIN hash_to_block' = {x \in DOMAIN hash_to_block : hash_to_block[x] # b}
      /\ \A x \in DOMAIN hash_to_block' : hash_to_block'[x] = hash_to_block[x]
      /\ DOMAIN ref_counts' = DOMAIN ref_counts \ {b}
      /\ \A c \in DOMAIN ref_counts' : ref_counts'[c] = ref_counts[c]
  BY <1>1, <1>2 DEF WithoutHashOf, Restrict
<1>9. TypeOK'
  <2>1. hash_to_block' \in [DOMAIN hash_to_block' -> Blocks]
        /\ ref_counts' \in [DOMAIN ref_counts' -> Nat]
    BY <1>0, <1>1, <1>2 DEF TypeOK, WithoutHashOf, Restrict
  <2>2. ref_order' \in Seq(Blocks)
    <3>1. ref_order' = Removed(ref_order, i) BY <1>1 DEF Removed
    <3> QED BY <1>0, <3>1, RemoveElements DEF TypeOK
  <2>3. free_block_ids' \in Seq(Blocks)
    BY <1>0, <1>1, <1>2, <1>4, AppendProperties DEF TypeOK
  <2> QED BY <1>0, <1>1, <1>3, <1>8, <2>1, <2>2, <2>3 DEF TypeOK
<1>10. FreeListExact'
  <2>1. b \notin Range(free_block_ids) BY <1>4 DEF IInv, FreeListExact
  <2>2. /\ IsInjective(free_block_ids')
        /\ Range(free_block_ids') = Range(free_block_ids) \cup {b}
    BY <1>0, <1>1, <1>2, <1>4, <2>1, AppendElements DEF TypeOK, IInv, FreeListExact
  <2> QED BY <1>1, <1>2, <1>4, <2>2 DEF IInv, FreeListExact
<1>11. CacheExact'
  <2>1. IsInjective(hash_to_block') BY <1>8 DEF IInv, CacheExact, IsInjective
  <2>2. Range(hash_to_block') = Range(hash_to_block) \ {b} BY <1>8 DEF Range
  <2>3. IsInjective(ref_order') /\ Range(ref_order') = Range(ref_order) \ {b}
    <3>1. ref_order \in Seq(Blocks) /\ IsInjective(ref_order)
      BY <1>0 DEF TypeOK, IInv, CacheExact
    <3>2. ref_order' = Removed(ref_order, i) BY <1>1 DEF Removed
    <3>3. IsInjective(ref_order') /\ Range(ref_order') = Range(ref_order) \ {ref_order[i]}
      BY <3>1, <3>2, RemoveElements
    <3> QED BY <1>2, <3>3
  <2> QED BY <1>8, <2>1, <2>2, <2>3 DEF IInv, CacheExact
<1>12. NothingStranded'
  <2>1. HeldBlocks' = HeldBlocks /\ b \notin HeldBlocks BY <1>3, <1>6 DEF HeldBlocks
  <2> QED BY <1>1, <1>2, <1>8, <2>1 DEF IInv, NothingStranded
<1>13. \A k \in Holders : /\ Slots(k)' = Slots(k)
                          /\ \A j : FullSlot(k, j)' = FullSlot(k, j)
                          /\ \A j : Position(k, j)' = Position(k, j)
  BY <1>3 DEF Slots, FullSlot, Position
<1>14. Exclusive' BY <1>3, <1>8, <1>13 DEF IInv, Exclusive
<1>15. CachePinned'
  <2> SUFFICES ASSUME NEW k \in Holders, NEW j \in Slots(k), FullSlot(k, j)
               PROVE  /\ Hash(prompt[k], Position(k, j)) \in DOMAIN hash_to_block'
                      /\ hash_to_block'[Hash(prompt[k], Position(k, j))] = held[k][j]
    BY <1>3, <1>13 DEF CachePinned, FullSlot, Slots
  <2>1. /\ Hash(prompt[k], Position(k, j)) \in DOMAIN hash_to_block
        /\ hash_to_block[Hash(prompt[k], Position(k, j))] = held[k][j]
    BY DEF IInv, CachePinned, FullSlot, Slots
  <2> QED BY <1>7, <1>8, <2>1
<1>16. RefCountExact' BY <1>3, <1>8 DEF IInv, RefCountExact, Sharers
<1>17. CallOK' /\ ChunksHeld' BY <1>3 DEF IInv, CallOK, ChunksHeld
<1>18. leaked[b] = 0
  <2>1. Cardinality(Sharers(b)) = 0 BY <1>5, FS_EmptySet
  <2>2. 0 = Cardinality(Sharers(b)) + leaked[b] BY <1>4 DEF IInv, RefCountExact
  <2> QED BY <1>0, <1>4, <2>1, <2>2 DEF TypeOK
<1>19. LeaksCached'
  <2> SUFFICES ASSUME NEW c \in Blocks, leaked[c] > 0 PROVE c \in DOMAIN ref_counts'
    BY <1>3 DEF LeaksCached
  <2>1. c \in DOMAIN ref_counts BY DEF IInv, LeaksCached
  <2>2. c # b BY <1>18
  <2> QED BY <1>8, <2>1, <2>2
<1> QED BY <1>9, <1>10, <1>11, <1>12, <1>14, <1>15, <1>16, <1>17, <1>19 DEF IInv

LEMMA FreePreserves ==
    ASSUME IInv, NEW h \in Holders, Free(h)
    PROVE  IInv'
<1> USE BlockManagerAssumption
<1>0. TypeOK BY DEF IInv
<1>1. /\ op = Idle /\ op.call = "idle" /\ prompt[h] = <<>>
      /\ Range(held[h]) \subseteq allocated
      /\ allocated' = allocated \ Range(held[h])
      /\ free_block_ids' = free_block_ids \o held[h]
      /\ UNCHANGED <<hash_to_block, ref_counts, ref_order, prompt, leaked, op>>
  BY DEF Free, cache, Idle
<1>2. /\ held' \in [Holders -> Seq(Blocks)] /\ held'[h] = <<>>
      /\ \A k \in Holders \ {h} : held'[k] = held[k] /\ Slots(k)' = Slots(k)
      /\ Slots(h)' = {}
  BY <1>0 DEF Free, TypeOK, Slots
<1>3. \A k \in Holders : \A j : Position(k, j) = j /\ Position(k, j)' = j
  BY <1>1 DEF Position
<1>4. \A k \in Holders : \A j : FullSlot(k, j)' = FullSlot(k, j)
  BY <1>1, <1>3 DEF FullSlot
<1>5. \A j \in Slots(h) : ~FullSlot(h, j)
  <2>1. Slots(h) \subseteq Nat \ {0} BY <1>0, Places DEF Slots
  <2> QED BY <1>1, <1>3, <2>1, NoFullChunk DEF FullSlot
<1>6. \A j \in Slots(h) :
          /\ held[h][j] \notin DOMAIN ref_counts
          /\ \A k \in Holders : \A i \in Slots(k) :
                held[k][i] = held[h][j] => k = h /\ i = j
  BY <1>5 DEF IInv, Exclusive
<1>7. \A k \in Holders :
          /\ held[k] \in Seq(Blocks)
          /\ \A c : c \in Range(held[k]) <=> \E j \in Slots(k) : c = held[k][j]
  BY <1>0, Places
<1>8. ASSUME NEW c \in Range(held[h])
      PROVE  c \notin DOMAIN ref_counts /\ \A k \in Holders \ {h} : c \notin Range(held[k])
  <2>1. PICK j \in Slots(h) : c = held[h][j] BY <1>7
  <2>2. c \notin DOMAIN ref_counts BY <1>6, <2>1
  <2>3. ASSUME NEW k \in Holders \ {h}, c \in Range(held[k]) PROVE FALSE
    <3>1. PICK i \in Slots(k) : c = held[k][i] BY <1>7, <2>3
    <3> QED BY <1>6, <2>1, <3>1
  <2> QED BY <2>2, <2>3
<1>9. Range(held'[h]) = {} BY <1>2, EmptyRange
<1>10. FreeListExact'
  <2>1. IsInjective(held[h])
    <3>1. DOMAIN held[h] = Slots(h) BY <1>7, LenProperties DEF Slots
    <3> QED BY <3>1, HeldOnce DEF IsInjective
  <2>2. Range(free_block_ids) \cap Range(held[h]) = {} BY <1>1 DEF IInv, FreeListExact
  <2>3. /\ IsInjective(free_block_ids \o held[h])
        /\ Range(free_block_ids \o held[h]) = Range(free_block_ids) \cup Range(held[h])
    <3>1. free_block_ids \in Seq(Blocks) /\ IsInjective(free_block_ids)
      BY <1>0 DEF TypeOK, IInv, FreeListExact
    <3> QED BY <1>7, <2>1, <2>2, <3>1, ConcatElements
  <2>4. Range(held[h]) \subseteq Blocks BY <1>7, ElementsOfSeq
  <2> QED BY <1>1, <2>3, <2>4 DEF IInv, FreeListExact
<1>11. TypeOK'
  <2>1. free_block_ids' \in Seq(Blocks) BY <1>0, <1>1, <1>7, ConcatProperties DEF TypeOK
  <2> QED BY <1>0, <1>1, <1>2, <2>1 DEF TypeOK
<1>12. CacheExact' BY <1>1 DEF IInv, CacheExact
<1>13. NothingStranded'
  <2>1. \A c : c \in HeldBlocks' <=> c \in HeldBlocks /\ c \notin Range(held[h])
    <3>1. \A c : c \in HeldBlocks' <=> \E k \in Holders \ {h} : c \in Range(held[k])
      BY <1>2, <1>9 DEF HeldBlocks
    <3>2. \A c : c \in HeldBlocks <=> c \in HeldBlocks' \/ c \in Range(held[h])
      BY <3>1 DEF HeldBlocks
    <3>3. \A c : c \in HeldBlocks' => c \notin Range(held[h]) BY <1>8, <3>1
    <3> QED BY ONLY <3>2, <3>3
  <2>2. DOMAIN ref_counts \cap Range(held[h]) = {} BY <1>8
  <2> QED BY <1>1, <2>1, <2>2 DEF IInv, NothingStranded
<1>14. \A k \in Holders : \A j \in Slots(k)' :
          k # h /\ j \in Slots(k) /\ held'[k][j] = held[k][j]
  BY <1>2
<1>15. Exclusive' BY <1>1, <1>4, <1>14 DEF IInv, Exclusive
<1>16. CachePinned' BY <1>1, <1>3, <1>14 DEF IInv, CachePinned, Slots
<1>17. RefCountExact'
  <2> SUFFICES ASSUME NEW c \in DOMAIN ref_counts PROVE Sharers(c)' = Sharers(c)
    BY <1>1 DEF IInv, RefCountExact
  <2>1. c \notin Range(held[h]) BY <1>8
  <2> QED BY <1>2, <1>9, <2>1 DEF Sharers
<1>18. CallOK' BY <1>1 DEF IInv, CallOK, Idle
<1>19. ChunksHeld'
  <2> SUFFICES ASSUME NEW k \in Holders, NEW i \in Nat \ {0}, IsFull(prompt[k], i)
               PROVE  i <= Len(held'[k])
    BY <1>1 DEF ChunksHeld
  <2>1. k # h BY <1>1, NoFullChunk
  <2> QED BY <1>1, <1>2, <2>1 DEF IInv, ChunksHeld
<1>20. LeaksCached' BY <1>1 DEF IInv, LeaksCached
<1> QED BY <1>10, <1>11, <1>12, <1>13, <1>15, <1>16, <1>17, <1>18, <1>19, <1>20 DEF IInv

(* A block leaves the front of the list that is given back.                 *)
LEMMA Shrunk ==
    ASSUME IInv, NEW h \in Holders, held[h] # <<>>, NEW b, b = Head(held[h]),
           held' = [held EXCEPT ![h] = Tail(@)]
    PROVE  /\ held' \in [Holders -> Seq(Blocks)]
           /\ 1 \in Slots(h) /\ b = held[h][1]
           /\ \A j \in Slots(h)' : j + 1 \in Slots(h) /\ held'[h][j] = held[h][j + 1]
           /\ \A k \in Holders \ {h} : held'[k] = held[k] /\ Slots(k)' = Slots(k)
           /\ Range(held[h]) = Range(held'[h]) \cup {b}
           /\ b \notin Range(held'[h])
<1>1. held \in [Holders -> Seq(Blocks)] /\ held[h] \in Seq(Blocks) BY DEF IInv, TypeOK
<1>2. held'[h] = Tail(held[h]) /\ \A k \in Holders \ {h} : held'[k] = held[k]
  BY <1>1
<1>3. /\ Tail(held[h]) \in Seq(Blocks)
      /\ Len(Tail(held[h])) = Len(held[h]) - 1
      /\ \A j \in 1 .. Len(Tail(held[h])) : Tail(held[h])[j] = held[h][j + 1]
      /\ Len(held[h]) \in Nat \ {0}
  BY <1>1, HeadTailProperties, EmptySeq, LenProperties
<1>4. held' \in [Holders -> Seq(Blocks)] BY <1>1, <1>3
<1>5. IsInjective(held[h])
  <2>1. DOMAIN held[h] = Slots(h) BY <1>1, LenProperties DEF Slots
  <2> QED BY <2>1, HeldOnce DEF IsInjective
<1>6. /\ b = held[h][1]
      /\ Range(held[h]) = Range(held'[h]) \cup {b}
      /\ b \notin Range(held'[h])
  BY <1>1, <1>2, <1>5, TailElements
<1>7. 1 \in Slots(h) /\ \A j \in Slots(h)' : j + 1 \in Slots(h)
  <2>1. Slots(h)' = 1 .. Len(held[h]) - 1 BY <1>2, <1>3 DEF Slots
  <2>2. 1 \in Slots(h) BY <1>3 DEF Slots
  <2>3. \A j \in 1 .. Len(held[h]) - 1 : j + 1 \in Slots(h) BY <1>3 DEF Slots
  <2> QED BY <2>1, <2>2, <2>3
<1>8. \A j \in Slots(h)' : held'[h][j] = held[h][j + 1] BY <1>2, <1>3 DEF Slots
<1> QED BY <1>2, <1>4, <1>6, <1>7, <1>8 DEF Slots

LEMMA FreePrefixNextPreserves ==
    ASSUME IInv, FreePrefixNext
    PROVE  IInv'
<1> USE BlockManagerAssumption
<1>0. TypeOK BY DEF IInv
<1>1. PICK h, b : h = op.holder /\ b = Head(held[h]) OBVIOUS
<1>2. /\ op.call = "free_prefix" /\ h \in Holders /\ prompt[h] # <<>>
      /\ held[h] # <<>>
      /\ IF IsFull(prompt[h], Next1) THEN ReleaseCached(b) ELSE FreeBlockNow(b)
      /\ held' = [held EXCEPT ![h] = Tail(@)]
      /\ op' = [op EXCEPT !.arg = @ + 1]
      /\ UNCHANGED <<prompt, leaked>>
  BY <1>1 DEF FreePrefixNext, IInv, CallOK
<1>3. /\ held' \in [Holders -> Seq(Blocks)]
      /\ 1 \in Slots(h) /\ b = held[h][1]
      /\ \A j \in Slots(h)' : j + 1 \in Slots(h) /\ held'[h][j] = held[h][j + 1]
      /\ \A k \in Holders \ {h} : held'[k] = held[k] /\ Slots(k)' = Slots(k)
      /\ Range(held[h]) = Range(held'[h]) \cup {b}
      /\ b \notin Range(held'[h])
  BY <1>1, <1>2, Shrunk
<1>4. /\ op' \in [call : Calls, holder : Holders \cup {NoHolder}, arg : Nat]
      /\ op'.call = "free_prefix" /\ op'.holder = h /\ op'.arg = op.arg + 1
      /\ op.arg \in Nat
  <2>1. op \in [call : Calls, holder : Holders \cup {NoHolder}, arg : Nat]
    BY <1>0 DEF TypeOK
  <2> QED BY <1>1, <1>2, <2>1
<1>5. CallOK' BY <1>2, <1>4 DEF CallOK
<1>6. ChunksHeld'
  <2> SUFFICES ASSUME NEW k \in Holders, k # h,
                      NEW i \in Nat \ {0}, IsFull(prompt[k], i)
               PROVE  i <= Len(held'[k])
    BY <1>2, <1>4 DEF ChunksHeld
  <2> QED BY <1>1, <1>3 DEF IInv, ChunksHeld
<1>7. b \in Blocks /\ b \in allocated /\ h \in Sharers(b)
  BY <1>0, <1>2, <1>3, Allocation, Places DEF Sharers
<1>8. /\ \A c \in Blocks \ {b} : Sharers(c)' = Sharers(c)
      /\ Sharers(b)' = Sharers(b) \ {h}
  BY <1>3 DEF Sharers
<1>9. \A c : c \in HeldBlocks <=> c \in HeldBlocks' \/ c = b
  <2>1. \A c : \A k \in Holders :
            c \in Range(held[k]) <=> c \in Range(held'[k]) \/ (c = b /\ k = h)
    <3> SUFFICES ASSUME NEW c, NEW k \in Holders
                 PROVE  c \in Range(held[k]) <=> c \in Range(held'[k]) \/ (c = b /\ k = h)
      OBVIOUS
    <3>1. CASE k = h BY <1>3, <3>1
    <3>2. CASE k # h BY <1>3, <3>2
    <3> QED BY <3>1, <3>2
  <2> QED BY <1>2, <2>1 DEF HeldBlocks
<1>10. \A k \in Holders \ {h} : \A j :
          Position(k, j) = j /\ Position(k, j)' = j /\ FullSlot(k, j)' = FullSlot(k, j)
  BY <1>1, <1>2, <1>4 DEF Position, FullSlot
<1>11. \A j \in Nat : /\ Position(h, j)' = Position(h, j + 1)
                      /\ FullSlot(h, j)' = FullSlot(h, j + 1)
  BY <1>1, <1>2, <1>4 DEF Position, FullSlot
<1>12. Slots(h)' \subseteq Nat BY <1>2, <1>3 DEF Slots
<1>13. IsFull(prompt[h], Next1) <=> FullSlot(h, 1)
  BY <1>1, <1>2, <1>4 DEF FullSlot, Position, Next1
<1>14. UNCHANGED <<hash_to_block, ref_order>> /\ DOMAIN ref_counts' = DOMAIN ref_counts
  BY <1>2 DEF ReleaseCached, FreeBlockNow, cache
<1>15. CacheExact' /\ LeaksCached' BY <1>2, <1>14 DEF IInv, CacheExact, LeaksCached
<1>16. \A k \in Holders : \A j \in Slots(k)' : \E i \in Slots(k) :
          /\ i = IF k = h THEN j + 1 ELSE j
          /\ held'[k][j] = held[k][i]
          /\ FullSlot(k, j)' = FullSlot(k, i)
          /\ Position(k, j)' = Position(k, i)
  <2> SUFFICES ASSUME NEW k \in Holders, NEW j \in Slots(k)'
               PROVE  \E i \in Slots(k) : /\ i = IF k = h THEN j + 1 ELSE j
                                         /\ held'[k][j] = held[k][i]
                                         /\ FullSlot(k, j)' = FullSlot(k, i)
                                         /\ Position(k, j)' = Position(k, i)
    OBVIOUS
  <2>1. CASE k = h
    <3>1. j \in Slots(h)' /\ j \in Nat BY <1>12, <2>1
    <3>2. j + 1 \in Slots(h) /\ held'[h][j] = held[h][j + 1] BY <1>3, <3>1
    <3> QED BY <1>11, <2>1, <3>1, <3>2
  <2>2. CASE k # h
    <3>1. j \in Slots(k) /\ held'[k][j] = held[k][j] BY <1>3, <2>2
    <3> QED BY <1>10, <2>2, <3>1
  <2> QED BY <2>1, <2>2
<1>17. Exclusive'
  <2> SUFFICES ASSUME NEW k \in Holders, NEW j \in Slots(k)', ~FullSlot(k, j)'
               PROVE  /\ held'[k][j] \notin DOMAIN ref_counts'
                      /\ \A l \in Holders : \A m \in Slots(l)' :
                            held'[l][m] = held'[k][j] => l = k /\ m = j
    BY DEF Exclusive
  <2>1. PICK i \in Slots(k) : /\ i = IF k = h THEN j + 1 ELSE j
                             /\ held'[k][j] = held[k][i]
                             /\ ~FullSlot(k, i)
    BY <1>16
  <2>2. held'[k][j] \notin DOMAIN ref_counts' BY <1>14, <2>1 DEF IInv, Exclusive
  <2>3. ASSUME NEW l \in Holders, NEW m \in Slots(l)', held'[l][m] = held'[k][j]
        PROVE  l = k /\ m = j
    <3>1. PICK q \in Slots(l) : /\ q = IF l = h THEN m + 1 ELSE m
                               /\ held'[l][m] = held[l][q]
      BY <1>16
    <3>2. l = k /\ q = i
      <4>1. \A y \in Holders : \A z \in Slots(y) : held[y][z] = held[k][i] => y = k /\ z = i
        BY <2>1 DEF IInv, Exclusive
      <4>2. held[l][q] = held[k][i] BY <2>1, <2>3, <3>1
      <4> QED BY <4>1, <4>2
    <3>3. j \in Nat /\ m \in Nat BY <1>2, <1>3, <1>12, <2>3, <3>2 DEF Slots
    <3> QED BY <2>1, <3>1, <3>2, <3>3
  <2> QED BY <2>2, <2>3
<1>18. CachePinned'
  <2> SUFFICES ASSUME NEW k \in Holders, NEW j \in Slots(k)', FullSlot(k, j)'
               PROVE  /\ Hash(prompt[k], Position(k, j)') \in DOMAIN hash_to_block
                      /\ hash_to_block[Hash(prompt[k], Position(k, j)')] = held'[k][j]
    BY <1>2, <1>14 DEF CachePinned, FullSlot, Slots
  <2>1. PICK i \in Slots(k) : /\ held'[k][j] = held[k][i]
                             /\ FullSlot(k, i)
                             /\ Position(k, j)' = Position(k, i)
    BY <1>16
  <2> QED BY <2>1 DEF IInv, CachePinned, FullSlot, Slots
<1>19. CASE IsFull(prompt[h], Next1)
  <2>1. ReleaseCached(b) BY <1>2, <1>19
  <2>2. b \in DOMAIN ref_counts /\ ref_counts[b] = Cardinality(Sharers(b)) + leaked[b]
    BY <1>2, <1>3, <1>13, <1>19, Allocation DEF IInv, RefCountExact
  <2>3. /\ IsFiniteSet(Sharers(b))
        /\ Cardinality(Sharers(b) \ {h}) = Cardinality(Sharers(b)) - 1
        /\ Cardinality(Sharers(b) \ {h}) \in Nat
        /\ Cardinality(Sharers(b)) \in Nat /\ leaked[b] \in Nat
    <3>1. IsFiniteSet(Sharers(b)) BY FS_Subset DEF Sharers
    <3>2. leaked[b] \in Nat BY <1>0, <1>7 DEF TypeOK
    <3> QED BY <1>7, <3>1, <3>2, FS_RemoveElement, FS_CardinalityType
  <2>4. ref_counts[b] > 0 BY <2>2, <2>3
  <2>5. /\ ref_counts' = [ref_counts EXCEPT ![b] = @ - 1]
        /\ UNCHANGED <<allocated, free_block_ids>>
    BY <2>1, <2>2, <2>4 DEF ReleaseCached
  <2>6. /\ ref_counts'[b] = Cardinality(Sharers(b)') + leaked[b]
        /\ \A c \in DOMAIN ref_counts \ {b} : ref_counts'[c] = ref_counts[c]
    <3>1. ref_counts'[b] = ref_counts[b] - 1 BY <2>2, <2>5
    <3>2. Cardinality(Sharers(b)') = Cardinality(Sharers(b)) - 1 BY <1>8, <2>3
    <3> QED BY <2>2, <2>3, <2>5, <3>1, <3>2
  <2>7. TypeOK'
    <3>1. ref_counts' \in [DOMAIN ref_counts' -> Nat]
      BY <1>0, <1>8, <2>2, <2>3, <2>5, <2>6 DEF TypeOK
    <3> QED BY <1>0, <1>2, <1>3, <1>4, <1>14, <2>5, <3>1 DEF TypeOK
  <2>8. FreeListExact' BY <2>5 DEF IInv, FreeListExact
  <2>9. NothingStranded' BY <1>9, <1>14, <2>2, <2>5 DEF IInv, NothingStranded
  <2>10. RefCountExact'
    <3> SUFFICES ASSUME NEW c \in DOMAIN ref_counts, c # b
                 PROVE  ref_counts'[c] = Cardinality(Sharers(c)') + leaked[c]
      BY <1>2, <1>14, <2>6 DEF RefCountExact
    <3>1. c \in Blocks BY <1>0 DEF TypeOK
    <3>2. Sharers(c)' = Sharers(c) BY <1>8, <3>1
    <3> QED BY <2>6, <3>2 DEF IInv, RefCountExact
  <2> QED BY <1>5, <1>6, <1>15, <1>17, <1>18, <2>7, <2>8, <2>9, <2>10 DEF IInv
<1>20. CASE ~IsFull(prompt[h], Next1)
  <2>1. /\ allocated' = allocated \ {b}
        /\ free_block_ids' = Append(free_block_ids, b)
        /\ ref_counts' = ref_counts
    BY <1>2, <1>7, <1>20 DEF FreeBlockNow, cache
  <2>2. /\ b \notin DOMAIN ref_counts
        /\ \A k \in Holders : \A j \in Slots(k) : held[k][j] = b => k = h /\ j = 1
    BY <1>2, <1>3, <1>13, <1>20 DEF IInv, Exclusive
  <2>3. b \notin HeldBlocks'
    <3>1. ASSUME NEW k \in Holders, b \in Range(held'[k]) PROVE FALSE
      <4>1. k # h BY <1>3, <3>1
      <4>2. held[k] \in Seq(Blocks) /\ b \in Range(held[k])
        BY <1>0, <1>3, <3>1, <4>1 DEF TypeOK
      <4>3. PICK j \in 1 .. Len(held[k]) : b = held[k][j] BY <4>2, ElementsOfSeq
      <4> QED BY <2>2, <4>1, <4>3 DEF Slots
    <3> QED BY <3>1 DEF HeldBlocks
  <2>4. FreeListExact'
    <3>1. /\ free_block_ids \in Seq(Blocks) /\ IsInjective(free_block_ids)
          /\ b \notin Range(free_block_ids)
      BY <1>0, <1>7 DEF TypeOK, IInv, FreeListExact
    <3>2. /\ IsInjective(free_block_ids')
          /\ Range(free_block_ids') = Range(free_block_ids) \cup {b}
      BY <1>7, <2>1, <3>1, AppendElements
    <3> QED BY <1>7, <2>1, <3>2 DEF IInv, FreeListExact
  <2>5. TypeOK'
    <3>1. free_block_ids' \in Seq(Blocks) BY <1>0, <1>7, <2>1, AppendProperties DEF TypeOK
    <3> QED BY <1>0, <1>2, <1>3, <1>4, <1>14, <2>1, <3>1 DEF TypeOK
  <2>6. NothingStranded' BY <1>9, <2>1, <2>2, <2>3 DEF IInv, NothingStranded
  <2>7. RefCountExact'
    <3> SUFFICES ASSUME NEW c \in DOMAIN ref_counts PROVE Sharers(c)' = Sharers(c)
      BY <1>2, <2>1 DEF IInv, RefCountExact
    <3>1. c \in Blocks \ {b} BY <1>0, <2>2 DEF TypeOK
    <3> QED BY <1>8, <3>1
  <2> QED BY <1>5, <1>6, <1>15, <1>17, <1>18, <2>4, <2>5, <2>6, <2>7 DEF IInv
<1> QED BY <1>19, <1>20

-----------------------------------------------------------------------------
LEMMA StutterPreserves == IInv /\ UNCHANGED vars => IInv'
BY DEF vars, IInv, TypeOK, CallOK, FreeListExact, CacheExact, NothingStranded, HeldBlocks,
       Exclusive, CachePinned, RefCountExact, Sharers, ChunksHeld, LeaksCached, Slots, FullSlot,
       Position

LEMMA StepIInv == IInv /\ [Next]_vars => IInv'
<1> SUFFICES ASSUME IInv, [Next]_vars PROVE IInv'
  OBVIOUS
<1>1. ASSUME NEW h \in Holders, NEW n \in AllocateSizes, AllocateCall(h, n) PROVE IInv'
  BY <1>1, AllocateCallPreserves
<1>2. CASE EvictCachedBlock BY <1>2, EvictCachedBlockPreserves
<1>3. CASE AllocatePop BY <1>3, AllocatePopPreserves
<1>4. CASE AllocateRaise BY <1>4, AllocateRaisePreserves
<1>5. ASSUME NEW h \in Holders, Free(h) PROVE IInv'
  BY <1>5, FreePreserves
<1>6. ASSUME NEW h \in Holders, NEW p \in Prompts, PrefixCall(h, p) PROVE IInv'
  BY <1>6, PrefixCallPreserves
<1>7. CASE PrefixHit BY <1>7, PrefixHitPreserves
<1>8. CASE PrefixMiss BY <1>8, PrefixMissPreserves
<1>9. CASE PrefixPartial BY <1>9, PrefixPartialPreserves
<1>10. CASE PrefixReturn BY <1>10, PrefixReturnPreserves
<1>11. CASE PrefixRaise BY <1>11, PrefixRaisePreserves
<1>12. ASSUME NEW h \in Holders, FreePrefixCall(h) PROVE IInv'
  BY <1>12, FreePrefixCallPreserves
<1>13. CASE FreePrefixNext BY <1>13, FreePrefixNextPreserves
<1>14. CASE FreePrefixReturn BY <1>14, FreePrefixReturnPreserves
<1>15. CASE UNCHANGED vars BY <1>15, StutterPreserves
<1> QED BY <1>1, <1>2, <1>3, <1>4, <1>5, <1>6, <1>7, <1>8, <1>9, <1>10, <1>11, <1>12,
           <1>13, <1>14, <1>15 DEF Next

THEOREM IInvInvariant == Spec => []IInv
BY InitIInv, StepIInv, PTL DEF Spec

(* The state of BlockManager keeps its types, whatever is allocated, freed,  *)
(* evicted or dropped by an exception.                                      *)
THEOREM TypeCorrect == Spec => []TypeOK
<1>1. IInv => TypeOK BY DEF IInv
<1> QED BY <1>1, IInvInvariant, PTL

(* The free deque and the allocated set always split the pool: allocate(),  *)
(* free(), _free_block_now and _evict_cached_blocks neither lose a block    *)
(* nor hand one out twice.                                                 *)
THEOREM PoolIsSplit == Spec => []FreeListExact
<1>1. IInv => FreeListExact BY DEF IInv
<1> QED BY <1>1, IInvInvariant, PTL

(* A block is out of the free pool only while a list or the cache has it,   *)
(* and a block in a list is out of the free pool.                          *)
THEOREM NoBlockStranded == Spec => []NothingStranded
<1>1. IInv => NothingStranded BY DEF IInv
<1> QED BY <1>1, IInvInvariant, PTL

(* _hash_to_block is one to one onto the keys of _ref_counts, so that the   *)
(* first matching entry _evict_cached_blocks deletes is the only one.       *)
THEOREM CacheConsistent == Spec => []CacheExact
<1>1. IInv => CacheExact BY DEF IInv
<1> QED BY <1>1, IInvInvariant, PTL

(* _ref_counts counts the lists a cached block is in, plus the references a  *)
(* raising call dropped: what eviction relies on when it takes a block with  *)
(* count zero, and why a dropped block is never evicted again.              *)
THEOREM ReferencesCounted == Spec => []RefCountExact
<1>1. IInv => RefCountExact BY DEF IInv
<1> QED BY <1>1, IInvInvariant, PTL

(* The cache never re-points the prefix of a list in use to another block.  *)
THEOREM PrefixPinned == Spec => []CachePinned
<1>1. IInv => CachePinned BY DEF IInv
<1> QED BY <1>1, IInvInvariant, PTL

-----------------------------------------------------------------------------
(* Counting the pool.                                                      *)

LEMMA FreeCount ==
    ASSUME TypeOK, FreeListExact
    PROVE  Cardinality(Range(free_block_ids)) = Len(free_block_ids)
<1> DEFINE f == free_block_ids
           D == 1 .. Len(free_block_ids)
<1>1. f \in Seq(Blocks) /\ Len(f) \in Nat /\ DOMAIN f = D BY LenProperties DEF TypeOK
<1>2. f \in Injection(D, Range(f)) /\ f \in Surjection(D, Range(f))
  <2>1. f \in [D -> Range(f)] BY <1>1 DEF Range
  <2> QED BY <1>1, <2>1 DEF FreeListExact, IsInjective, Injection, Surjection, IsInjective, Range
<1>3. IsFiniteSet(D) /\ Cardinality(D) = Len(f) BY <1>1, FS_Interval
<1> QED BY <1>2, <1>3, FS_Surjection

LEMMA BlockCount == IsFiniteSet(Blocks) /\ Cardinality(Blocks) = NumBlocks
<1>1. NumBlocks \in Nat BY BlockManagerAssumption
<1>2. IsFiniteSet(0 .. NumBlocks - 1)
      /\ Cardinality(0 .. NumBlocks - 1) = IF 0 > NumBlocks - 1 THEN 0 ELSE NumBlocks - 1 - 0 + 1
  BY <1>1, FS_Interval
<1> QED BY <1>1, <1>2 DEF Blocks

(* With nothing to evict, lists and dropped references pin all that is not  *)
(* free.                                                                   *)
LEMMA NothingToEvict ==
    ASSUME IInv, Evictable = {}
    PROVE  allocated = HeldBlocks \cup Leaked
<1>0. TypeOK BY DEF IInv
<1>1. ASSUME NEW b \in DOMAIN ref_counts PROVE b \in HeldBlocks \cup Leaked
  <2>1. ref_counts[b] # 0 BY DEF Evictable
  <2>2. b \in Blocks /\ leaked[b] \in Nat BY <1>0 DEF TypeOK
  <2>3. CASE leaked[b] = 0
    <3>1. Cardinality(Sharers(b)) # 0 BY <2>1, <2>3 DEF IInv, RefCountExact
    <3>2. Sharers(b) # {} BY <3>1, FS_EmptySet
    <3> QED BY <3>2 DEF Sharers, HeldBlocks
  <2>4. CASE leaked[b] # 0 BY <2>2, <2>4 DEF Leaked
  <2> QED BY <2>3, <2>4
<1>2. Leaked \subseteq DOMAIN ref_counts BY DEF IInv, LeaksCached, Leaked
<1> QED BY <1>1, <1>2 DEF IInv, NothingStranded

(* When allocate() raises, the blocks in the lists of callers, those that    *)
(* earlier raising prefix calls pinned and those it still wants are together *)
(* more than the pool: what the cache merely keeps is evicted first.        *)
THEOREM RaisesOnlyWhenFull == Spec => []FailsOnlyWhenFull
<1>1. ASSUME IInv PROVE FailsOnlyWhenFull
  <2> SUFFICES ASSUME Wanted > 0, PrefixCacheEnabled, Exhausted
               PROVE  Cardinality(HeldBlocks \cup Leaked) + Wanted > NumBlocks
    BY DEF FailsOnlyWhenFull
  <2>0. PICK pinned : pinned = HeldBlocks \cup Leaked OBVIOUS
  <2>1. TypeOK /\ FreeListExact /\ Wanted \in Nat BY <1>1 DEF IInv, TypeOK, Wanted
  <2>2. Len(free_block_ids) \in Nat BY <2>1 DEF TypeOK
  <2>3. Len(free_block_ids) < Wanted BY <2>1, <2>2 DEF Exhausted, can_allocate
  <2>4. allocated = pinned BY <1>1, <2>0, NothingToEvict DEF Exhausted
  <2>5. Cardinality(Blocks \ pinned) = Len(free_block_ids)
    BY <2>1, <2>4, FreeCount DEF FreeListExact
  <2>6. pinned \subseteq Blocks BY <2>1, <2>4 DEF TypeOK
  <2>7. Cardinality(Blocks \ pinned) = NumBlocks - Cardinality(pinned)
    <3>1. Blocks \cap pinned = pinned BY <2>6
    <3> QED BY <3>1, BlockCount, FS_Difference
  <2>8. Cardinality(pinned) \in Nat BY <2>6, BlockCount, FS_Subset, FS_CardinalityType
  <2> QED BY <2>0, <2>1, <2>2, <2>3, <2>5, <2>7, <2>8, BlockManagerAssumption
<1> QED BY <1>1, IInvInvariant, PTL

-----------------------------------------------------------------------------
(* The pool.  A step that adds a block to a list is a Grant, a step that    *)
(* gives blocks back is a Release, every other step leaves the leases.      *)

(* What IInv says of the block and the content of a slot.                   *)
LEMMA SlotContent ==
    ASSUME IInv, NEW h \in Holders, NEW j \in Slots(h)
    PROVE  /\ ContentOf(h, j) # <<>> <=> FullSlot(h, j)
           /\ FullSlot(h, j) =>
                 /\ prompt[h] \in Prompts
                 /\ ContentOf(h, j) = Hash(prompt[h], Position(h, j))
                 /\ ContentOf(h, j) \in DOMAIN hash_to_block
                 /\ hash_to_block[ContentOf(h, j)] = held[h][j]
           /\ ~FullSlot(h, j) => held[h][j] \notin DOMAIN ref_counts
<1>0. TypeOK BY DEF IInv
<1>1. prompt[h] \in Prompts \cup {<<>>} /\ Position(h, j) \in Nat \ {0}
  BY <1>0, Places
<1>2. FullSlot(h, j) => prompt[h] \in Prompts BY <1>1, NoFullChunk DEF FullSlot
<1>3. FullSlot(h, j) => ContentOf(h, j) # <<>>
  BY <1>1, <1>2, HashLength DEF FullSlot, ContentOf
<1>4. ~FullSlot(h, j) => ContentOf(h, j) = <<>> BY DEF FullSlot, ContentOf
<1>5. ~FullSlot(h, j) => held[h][j] \notin DOMAIN ref_counts BY DEF IInv, Exclusive
<1>6. FullSlot(h, j) =>
         /\ ContentOf(h, j) = Hash(prompt[h], Position(h, j))
         /\ ContentOf(h, j) \in DOMAIN hash_to_block
         /\ hash_to_block[ContentOf(h, j)] = held[h][j]
  BY DEF IInv, CachePinned, FullSlot, Slots, ContentOf
<1> QED BY <1>2, <1>3, <1>4, <1>5, <1>6

LEMMA LeasePairs ==
    /\ Lease = [h \in Holders |-> Lease[h]]
    /\ \A h \in Holders : \A l :
          l \in Lease[h] <=> \E j \in Slots(h) : l = <<held[h][j], ContentOf(h, j)>>
BY DEF Lease, Slots

(* Slots and contents stay: the leases stay.                                *)
LEMMA LeasesStay ==
    ASSUME UNCHANGED held,
           \A h \in Holders : \A j \in Slots(h) : ContentOf(h, j)' = ContentOf(h, j)
    PROVE  UNCHANGED Lease
<1>1. \A h \in Holders : Slots(h)' = Slots(h) BY DEF Slots
<1>2. ASSUME NEW h \in Holders
      PROVE  {<<held[h][j], ContentOf(h, j)>> : j \in 1 .. Len(held[h])}' =
             {<<held[h][j], ContentOf(h, j)>> : j \in 1 .. Len(held[h])}
  BY <1>1 DEF Slots
<1> QED BY <1>2 DEF Lease

LEMMA ContentStays ==
    ASSUME NEW h, NEW j, prompt'[h] = prompt[h], Position(h, j)' = Position(h, j)
    PROVE  ContentOf(h, j)' = ContentOf(h, j)
BY DEF ContentOf, IsFull, Hash

-----------------------------------------------------------------------------
(* A block b that joins the list of h for content c is granted: who has the *)
(* block or the content already has both, and is not h.                     *)
LEMMA GrantStep ==
    ASSUME IInv, NEW h \in Holders, NEW b \in Blocks, Grows(h, b),
           NEW n, n = Len(held[h]) + 1,
           NEW c \in Hashes \cup {<<>>}, c = ContentOf(h, n)',
           \A k \in Holders : \A j \in Slots(k) : ContentOf(k, j)' = ContentOf(k, j),
           \A k \in Holders : \A j \in Slots(k) :
               held[k][j] = b \/ (ContentOf(k, j) = c /\ c # <<>>) =>
                   k # h /\ held[k][j] = b /\ ContentOf(k, j) = c /\ c # <<>>
    PROVE  Pool!Next
<1>0. TypeOK BY DEF IInv
<1>1. /\ Slots(h)' = Slots(h) \cup {n}
      /\ held'[h][n] = b
      /\ \A j \in Slots(h) : held'[h][j] = held[h][j]
      /\ \A k \in Holders \ {h} : held'[k] = held[k] /\ Slots(k)' = Slots(k)
  BY <1>0, Grown
<1>2. \A k \in Holders : \A l :
          l \in Lease'[k] <=> \E j \in Slots(k)' : l = <<held'[k][j], ContentOf(k, j)'>>
  BY DEF Lease, Slots
<1>3. Lease' = [Lease EXCEPT ![h] = @ \cup {<<b, c>>}]
  <2>1. Lease' = [k \in Holders |-> Lease'[k]] BY DEF Lease
  <2>2. ASSUME NEW l PROVE l \in Lease'[h] <=> l \in Lease[h] \cup {<<b, c>>}
    BY <1>1, <1>2, LeasePairs
  <2>3. ASSUME NEW k \in Holders \ {h}, NEW l PROVE l \in Lease'[k] <=> l \in Lease[k]
    BY <1>1, <1>2, LeasePairs
  <2>4. Lease'[h] = Lease[h] \cup {<<b, c>>} /\ \A k \in Holders \ {h} : Lease'[k] = Lease[k]
    BY <2>2, <2>3
  <2> QED BY <2>1, <2>4, LeasePairs
<1>4. <<b, c>> \notin Lease[h]
  <2> SUFFICES ASSUME NEW j \in Slots(h), <<b, c>> = <<held[h][j], ContentOf(h, j)>>
               PROVE  FALSE
    BY LeasePairs
  <2> QED OBVIOUS
<1>5. ASSUME NEW l \in Pool!Leases, l[1] = b \/ (l[2] = c /\ c # <<>>)
      PROVE  l = <<b, c>> /\ c # <<>>
  <2>1. PICK k \in Holders : l \in Lease[k] BY <1>5 DEF Pool!Leases
  <2>2. PICK j \in Slots(k) : l = <<held[k][j], ContentOf(k, j)>> BY <2>1, LeasePairs
  <2>3. l[1] = held[k][j] /\ l[2] = ContentOf(k, j) BY <2>2
  <2> QED BY <1>5, <2>2, <2>3
<1>6. Pool!Grant(h, b, c) BY <1>3, <1>4, <1>5 DEF Pool!Grant
<1> QED BY <1>6 DEF Pool!Next

LEMMA AllocatePopGrants ==
    ASSUME IInv, AllocatePop
    PROVE  Pool!Next
<1> USE BlockManagerAssumption
<1>0. TypeOK BY DEF IInv
<1>1. PICK h : h = op.holder OBVIOUS
<1>2. /\ op.call = "allocate" /\ op.arg \in Nat \ {0} /\ h \in Holders
      /\ op'.call \in {"allocate", "idle"}
      /\ Pop(h) /\ UNCHANGED prompt
  BY <1>0, <1>1 DEF AllocatePop, IInv, CallOK, TypeOK, Idle
<1>3. PICK b, n : b = Head(free_block_ids) /\ n = Len(held[h]) + 1 OBVIOUS
<1>4. free_block_ids # <<>> BY <1>0, <1>2, NotEmpty DEF AllocatePop
<1>5. /\ Grows(h, b) /\ b \in Blocks
      /\ \A k \in Holders : \A j \in Slots(k) : held[k][j] # b
  BY <1>2, <1>3, <1>4, PopFacts
<1>6. n \in Nat \ {0} /\ n > Len(held[h]) BY <1>0, <1>2, <1>3, Places
<1>7. ~IsFull(prompt[h], n)
  <2>1. \A i \in Nat \ {0} : IsFull(prompt[h], i) => i <= Len(held[h])
    BY <1>2 DEF IInv, ChunksHeld
  <2>2. Len(held[h]) \in Nat BY <1>0, <1>2, Places
  <2> QED BY <1>6, <2>1, <2>2
<1>8. \A k, j : Position(k, j) = j /\ Position(k, j)' = j BY <1>2 DEF Position
<1>9. \A k \in Holders : \A j \in Slots(k) : ContentOf(k, j)' = ContentOf(k, j)
  BY <1>2, <1>8 DEF ContentOf
<1>10. ContentOf(h, n)' = <<>> BY <1>2, <1>7, <1>8 DEF ContentOf
<1> QED BY <1>2, <1>3, <1>5, <1>9, <1>10, GrantStep

(* A chunk of a prefix call: its block b comes for the content of chunk n.   *)
LEMMA ChunkGrants ==
    ASSUME IInv, op.call = "prefix", op' = [op EXCEPT !.arg = @ + 1], UNCHANGED prompt,
           NEW h, h = op.holder, NEW n, n = Next1,
           NEW b \in Blocks, Grows(h, b),
           NEW c \in Hashes \cup {<<>>},
           c = IF IsFull(prompt[h], n) THEN Hash(prompt[h], n) ELSE <<>>,
           \A k \in Holders : \A j \in Slots(k) :
               held[k][j] = b \/ (ContentOf(k, j) = c /\ c # <<>>) =>
                   k # h /\ held[k][j] = b /\ ContentOf(k, j) = c /\ c # <<>>
    PROVE  Pool!Next
<1>1. h \in Holders /\ n = Len(held[h]) + 1 BY DEF IInv, CallOK, Next1
<1>2. op'.call = "prefix"
  <2>1. op \in [call : Calls, holder : Holders \cup {NoHolder}, arg : Nat]
    BY DEF IInv, TypeOK
  <2> QED BY <2>1
<1>3. \A k, j : Position(k, j) = j /\ Position(k, j)' = j BY <1>2 DEF Position
<1>4. \A k \in Holders : \A j \in Slots(k) : ContentOf(k, j)' = ContentOf(k, j)
  BY <1>3 DEF ContentOf
<1>5. ContentOf(h, n)' = c BY <1>3 DEF ContentOf
<1> QED BY <1>1, <1>4, <1>5, GrantStep

LEMMA PrefixPartialGrants ==
    ASSUME IInv, PrefixPartial
    PROVE  Pool!Next
<1> USE BlockManagerAssumption
<1>0. TypeOK BY DEF IInv
<1>1. PICK h, b, n : h = op.holder /\ b = Head(free_block_ids) /\ n = Next1 OBVIOUS
<1>2. /\ op.call = "prefix" /\ h \in Holders
      /\ op' = [op EXCEPT !.arg = @ + 1]
      /\ ~IsFull(prompt[h], n)
      /\ Pop(h) /\ UNCHANGED prompt
  BY <1>1 DEF PrefixPartial, AtChunk, IInv, CallOK
<1>3. free_block_ids # <<>> BY <1>0, NotEmpty DEF PrefixPartial
<1>4. /\ Grows(h, b) /\ b \in Blocks
      /\ \A k \in Holders : \A j \in Slots(k) : held[k][j] # b
  BY <1>1, <1>2, <1>3, PopFacts
<1> QED BY <1>1, <1>2, <1>4, ChunkGrants

LEMMA PrefixMissGrants ==
    ASSUME IInv, PrefixMiss
    PROVE  Pool!Next
<1> USE BlockManagerAssumption
<1>0. TypeOK BY DEF IInv
<1>1. PICK h, b, n, x : /\ h = op.holder /\ b = Head(free_block_ids) /\ n = Next1
                        /\ x = Hash(prompt[h], n)
  OBVIOUS
<1>2. /\ op.call = "prefix" /\ h \in Holders
      /\ op' = [op EXCEPT !.arg = @ + 1]
      /\ IsFull(prompt[h], n)
      /\ x \notin DOMAIN hash_to_block
      /\ Pop(h) /\ UNCHANGED prompt
  BY <1>1 DEF PrefixMiss, AtHit, AtChunk, IInv, CallOK
<1>3. free_block_ids # <<>> BY <1>0, NotEmpty DEF PrefixMiss
<1>4. /\ Grows(h, b) /\ b \in Blocks
      /\ \A k \in Holders : \A j \in Slots(k) : held[k][j] # b
  BY <1>1, <1>2, <1>3, PopFacts
<1>5. x \in Hashes
  <2>1. n \in Nat \ {0} BY <1>0, <1>1 DEF Next1, TypeOK
  <2>2. prompt[h] \in Prompts BY <1>0, <1>2, <2>1, Places, NoFullChunk
  <2> QED BY <1>1, <1>2, <2>1, <2>2, FullChunk
<1>6. \A k \in Holders : \A j \in Slots(k) : ContentOf(k, j) # x \/ x = <<>>
  BY <1>2, SlotContent
<1> QED BY <1>1, <1>2, <1>4, <1>5, <1>6, ChunkGrants

LEMMA PrefixHitGrants ==
    ASSUME IInv, PrefixHit
    PROVE  Pool!Next
<1> USE BlockManagerAssumption
<1>0. TypeOK BY DEF IInv
<1>1. PICK h, n, x, b : /\ h = op.holder /\ n = Next1
                        /\ x = Hash(prompt[h], n) /\ b = hash_to_block[x]
  OBVIOUS
<1>2. /\ op.call = "prefix" /\ h \in Holders /\ op.arg = Len(held[h])
      /\ op' = [op EXCEPT !.arg = @ + 1]
      /\ IsFull(prompt[h], n)
      /\ x \in DOMAIN hash_to_block
      /\ Grows(h, b) /\ UNCHANGED prompt
  BY <1>1 DEF PrefixHit, AtHit, AtChunk, IInv, CallOK, Grows
<1>3. b \in Blocks /\ x \in Hashes /\ b \in DOMAIN ref_counts
  BY <1>0, <1>1, <1>2 DEF TypeOK, IInv, CacheExact, Range
<1>4. n \in Nat \ {0} /\ prompt[h] \in Prompts /\ n = Len(held[h]) + 1
  <2>1. n \in Nat \ {0} BY <1>0, <1>1 DEF Next1, TypeOK
  <2>2. prompt[h] \in Prompts BY <1>0, <1>2, <2>1, Places, NoFullChunk
  <2> QED BY <1>1, <1>2, <2>1, <2>2 DEF Next1
<1>5. x # <<>> BY <1>1, <1>2, <1>4, HashLength
<1>6. ASSUME NEW k \in Holders, NEW j \in Slots(k), held[k][j] = b \/ ContentOf(k, j) = x
      PROVE  k # h /\ held[k][j] = b /\ ContentOf(k, j) = x
  <2>1. FullSlot(k, j) BY <1>3, <1>5, <1>6, SlotContent
  <2>2. held[k][j] = b /\ ContentOf(k, j) = x
    <3>1. /\ ContentOf(k, j) \in DOMAIN hash_to_block
          /\ hash_to_block[ContentOf(k, j)] = held[k][j]
      BY <2>1, SlotContent
    <3> QED BY <1>1, <1>2, <1>6, <3>1 DEF IInv, CacheExact, IsInjective
  <2>3. ASSUME k = h PROVE FALSE
    <3>1. Position(h, j) = j BY <1>2 DEF Position
    <3>2. j \in Nat \ {0} /\ j <= Len(held[h]) /\ Len(held[h]) \in Nat
      BY <1>0, <1>2, <2>3, Places DEF Slots
    <3>3. IsFull(prompt[h], j) /\ Hash(prompt[h], j) = Hash(prompt[h], n)
      BY <1>1, <2>1, <2>2, <2>3, <3>1, SlotContent DEF FullSlot
    <3>4. j = n BY <1>2, <1>4, <3>2, <3>3, HashInjective
    <3> QED BY <1>4, <3>2, <3>4
  <2> QED BY <2>2, <2>3
<1> QED BY <1>1, <1>2, <1>3, <1>5, <1>6, ChunkGrants

-----------------------------------------------------------------------------
(* A list that is given back, at once or block by block.                    *)

LEMMA ReleaseStep ==
    ASSUME NEW h \in Holders, NEW S \in SUBSET Lease[h],
           Lease'[h] = Lease[h] \ S,
           \A k \in Holders \ {h} : Lease'[k] = Lease[k]
    PROVE  Pool!Next
<1>1. Lease' = [k \in Holders |-> Lease'[k]] BY DEF Lease
<1>2. Lease' = [Lease EXCEPT ![h] = @ \ S] BY <1>1, LeasePairs
<1>3. Pool!Release(h, S) BY <1>2 DEF Pool!Release
<1> QED BY <1>3 DEF Pool!Next

LEMMA OthersKeep ==
    ASSUME NEW h \in Holders,
           \A k \in Holders \ {h} : held'[k] = held[k],
           \A k \in Holders \ {h} : \A j : ContentOf(k, j)' = ContentOf(k, j)
    PROVE  \A k \in Holders \ {h} : Lease'[k] = Lease[k]
<1> SUFFICES ASSUME NEW k \in Holders \ {h} PROVE Lease'[k] = Lease[k]
  OBVIOUS
<1>1. Lease'[k] = {<<held'[k][j], ContentOf(k, j)'>> : j \in 1 .. Len(held'[k])}
  BY DEF Lease
<1>2. Lease[k] = {<<held[k][j], ContentOf(k, j)>> : j \in 1 .. Len(held[k])}
  BY DEF Lease
<1> QED BY <1>1, <1>2

LEMMA FreeReleases ==
    ASSUME IInv, NEW h \in Holders, Free(h)
    PROVE  Pool!Next
<1>0. TypeOK BY DEF IInv
<1>1. /\ UNCHANGED <<prompt, op>>
      /\ held'[h] = <<>>
      /\ \A k \in Holders \ {h} : held'[k] = held[k]
  BY <1>0 DEF Free, TypeOK
<1>2. \A k \in Holders : \A j : ContentOf(k, j)' = ContentOf(k, j)
  BY <1>1 DEF ContentOf, Position
<1>3. \A k \in Holders \ {h} : Lease'[k] = Lease[k] BY <1>1, <1>2, OthersKeep
<1>4. Lease'[h] = {}
  <2>1. Lease'[h] = {<<held'[h][j], ContentOf(h, j)'>> : j \in 1 .. Len(held'[h])}
    BY DEF Lease
  <2>2. 1 .. Len(held'[h]) = {} BY <1>1, EmptySeq
  <2> QED BY <2>1, <2>2
<1>5. Lease'[h] = Lease[h] \ Lease[h] BY <1>4
<1> QED BY <1>3, <1>5, ReleaseStep

(* To its callers a raising prefix call has given back what it gathered.     *)
LEMMA PrefixRaiseReleases ==
    ASSUME IInv, PrefixRaise
    PROVE  Pool!Next
<1>0. TypeOK BY DEF IInv
<1>1. PICK h : h = op.holder OBVIOUS
<1>2. /\ op.call = "prefix" /\ op'.call = "idle" /\ h \in Holders
      /\ held'[h] = <<>>
      /\ \A k \in Holders \ {h} : held'[k] = held[k] /\ prompt'[k] = prompt[k]
  BY <1>0, <1>1 DEF PrefixRaise, AtChunk, Idle, IInv, CallOK, TypeOK
<1>3. \A k, j : Position(k, j) = j /\ Position(k, j)' = j BY <1>2 DEF Position
<1>4. \A k \in Holders \ {h} : \A j : ContentOf(k, j)' = ContentOf(k, j)
  BY <1>2, <1>3 DEF ContentOf
<1>5. \A k \in Holders \ {h} : Lease'[k] = Lease[k] BY <1>2, <1>4, OthersKeep
<1>6. Lease'[h] = {}
  <2>1. Lease'[h] = {<<held'[h][j], ContentOf(h, j)'>> : j \in 1 .. Len(held'[h])}
    BY <1>2 DEF Lease
  <2>2. 1 .. Len(held'[h]) = {} BY <1>2, EmptySeq
  <2> QED BY <2>1, <2>2
<1>7. Lease'[h] = Lease[h] \ Lease[h] BY <1>6
<1> QED BY <1>2, <1>5, <1>7, ReleaseStep

LEMMA FreePrefixNextReleases ==
    ASSUME IInv, FreePrefixNext
    PROVE  Pool!Next
<1>0. TypeOK BY DEF IInv
<1>1. PICK h, b, c : h = op.holder /\ b = Head(held[h]) /\ c = ContentOf(h, 1) OBVIOUS
<1>2. /\ op.call = "free_prefix" /\ h \in Holders
      /\ held[h] # <<>>
      /\ held' = [held EXCEPT ![h] = Tail(@)]
      /\ op' = [op EXCEPT !.arg = @ + 1]
      /\ UNCHANGED prompt
  BY <1>1 DEF FreePrefixNext, IInv, CallOK
<1>3. /\ 1 \in Slots(h) /\ b = held[h][1]
      /\ \A j \in Slots(h)' : j + 1 \in Slots(h) /\ held'[h][j] = held[h][j + 1]
      /\ \A k \in Holders \ {h} : held'[k] = held[k]
  BY <1>1, <1>2, Shrunk
<1>4. op'.call = "free_prefix" /\ op'.holder = h /\ op'.arg = op.arg + 1 /\ op.arg \in Nat
  <2>1. op \in [call : Calls, holder : Holders \cup {NoHolder}, arg : Nat]
    BY <1>0 DEF TypeOK
  <2> QED BY <1>1, <1>2, <2>1
<1>5. \A k \in Holders \ {h} : \A j : ContentOf(k, j)' = ContentOf(k, j)
  BY <1>1, <1>2, <1>4 DEF ContentOf, Position
<1>6. \A j \in Nat : ContentOf(h, j)' = ContentOf(h, j + 1)
  <2> SUFFICES ASSUME NEW j \in Nat PROVE ContentOf(h, j)' = ContentOf(h, j + 1)
    OBVIOUS
  <2>1. Position(h, j)' = Position(h, j + 1) BY <1>1, <1>2, <1>4 DEF Position
  <2> QED BY <1>2, <2>1 DEF ContentOf, IsFull, Hash
<1>7. /\ Slots(h) \subseteq Nat \ {0}
      /\ Slots(h)' \subseteq Nat \ {0}
      /\ \A j \in Slots(h) : j # 1 => j - 1 \in Slots(h)'
  <2>1. held[h] \in Seq(Blocks) /\ held'[h] = Tail(held[h]) BY <1>0, <1>2 DEF TypeOK
  <2>2. Len(held[h]) \in Nat \ {0} /\ Len(held'[h]) = Len(held[h]) - 1
    BY <1>2, <2>1, HeadTailProperties, EmptySeq, LenProperties
  <2> QED BY <2>2 DEF Slots
<1>8. ASSUME NEW l PROVE l \in Lease'[h] <=> l \in Lease[h] \ {<<b, c>>}
  <2>1. l \in Lease'[h] <=> \E j \in Slots(h)' : l = <<held'[h][j], ContentOf(h, j)'>>
    BY <1>2 DEF Lease, Slots
  <2>2. l \in Lease[h] <=> \E j \in Slots(h) : l = <<held[h][j], ContentOf(h, j)>>
    BY <1>2, LeasePairs
  <2>3. ASSUME NEW j \in Slots(h)', l = <<held'[h][j], ContentOf(h, j)'>>
        PROVE  l \in Lease[h] \ {<<b, c>>}
    <3>1. j \in Nat \ {0} /\ j + 1 \in Slots(h) BY <1>3, <1>7
    <3>2. l = <<held[h][j + 1], ContentOf(h, j + 1)>> BY <1>3, <1>6, <2>3, <3>1
    <3>3. held[h][j + 1] # b BY <1>2, <1>3, <3>1, HeldOnce
    <3> QED BY <2>2, <3>1, <3>2, <3>3
  <2>4. ASSUME NEW j \in Slots(h), l = <<held[h][j], ContentOf(h, j)>>, l # <<b, c>>
        PROVE  l \in Lease'[h]
    <3>1. j # 1 BY <1>1, <1>3, <2>4
    <3>2. PICK i \in Slots(h)' : i = j - 1 BY <1>7, <3>1
    <3>3. i \in Nat /\ j = i + 1 BY <1>7, <3>2
    <3>4. l = <<held'[h][i], ContentOf(h, i)'>> BY <1>3, <1>6, <2>4, <3>3
    <3> QED BY <2>1, <3>4
  <2> QED BY <2>1, <2>2, <2>3, <2>4
<1>9. <<b, c>> \in Lease[h] BY <1>1, <1>2, <1>3, LeasePairs
<1>10. \A k \in Holders \ {h} : Lease'[k] = Lease[k] BY <1>2, <1>3, <1>5, OthersKeep
<1>11. Lease'[h] = Lease[h] \ {<<b, c>>} BY <1>8
<1>12. {<<b, c>>} \in SUBSET Lease[h] BY <1>9
<1> QED BY <1>2, <1>10, <1>11, <1>12, ReleaseStep

-----------------------------------------------------------------------------
(* Every other step keeps the blocks and their contents.                    *)

LEMMA OtherStepsStutter ==
    ASSUME IInv,
           \/ \E h \in Holders, n \in AllocateSizes : AllocateCall(h, n)
           \/ EvictCachedBlock
           \/ AllocateRaise
           \/ \E h \in Holders, p \in Prompts : PrefixCall(h, p)
           \/ PrefixReturn
           \/ \E h \in Holders : FreePrefixCall(h)
           \/ FreePrefixReturn
           \/ UNCHANGED vars
    PROVE  UNCHANGED Lease
<1>0. TypeOK BY DEF IInv
<1>1. SUFFICES /\ UNCHANGED held
               /\ \A k \in Holders : \A j \in Slots(k) :
                     prompt'[k] = prompt[k] /\ Position(k, j)' = Position(k, j)
  BY ContentStays, LeasesStay
<1>2. ASSUME NEW h \in Holders, NEW n \in AllocateSizes, AllocateCall(h, n)
      PROVE  UNCHANGED <<held, prompt>> /\ \A k, j : Position(k, j)' = Position(k, j)
  BY <1>2 DEF AllocateCall, Idle, Call, Position
<1>3. CASE EvictCachedBlock \/ UNCHANGED vars
  BY <1>3 DEF EvictCachedBlock, vars, Position
<1>4. CASE AllocateRaise \/ PrefixReturn
  BY <1>4 DEF AllocateRaise, PrefixReturn, Idle, Position
<1>5. ASSUME NEW h \in Holders, NEW p \in Prompts, PrefixCall(h, p)
      PROVE  /\ UNCHANGED held
             /\ \A k \in Holders : \A j \in Slots(k) :
                   prompt'[k] = prompt[k] /\ Position(k, j)' = Position(k, j)
  <2>1. UNCHANGED held /\ \A k, j : Position(k, j)' = Position(k, j)
    BY <1>5 DEF PrefixCall, Idle, Call, Position
  <2>2. Slots(h) = {} BY <1>5, EmptySeq DEF PrefixCall, Slots
  <2>3. \A k \in Holders \ {h} : prompt'[k] = prompt[k] BY <1>0, <1>5 DEF PrefixCall, TypeOK
  <2> QED BY <2>1, <2>2, <2>3
<1>7. ASSUME NEW h \in Holders, FreePrefixCall(h)
      PROVE  /\ UNCHANGED <<held, prompt>>
             /\ \A k \in Holders : \A j \in Slots(k) : Position(k, j)' = Position(k, j)
  BY <1>7 DEF FreePrefixCall, Idle, Call, Position, Slots
<1>8. CASE FreePrefixReturn
  <2>1. PICK h : h = op.holder OBVIOUS
  <2>2. /\ UNCHANGED held /\ op.call = "free_prefix" /\ op'.call = "idle"
        /\ h \in Holders /\ held[h] = <<>>
        /\ \A k \in Holders \ {h} : prompt'[k] = prompt[k]
    BY <1>0, <1>8, <2>1 DEF FreePrefixReturn, Idle, IInv, CallOK, TypeOK
  <2>3. Slots(h) = {} BY <2>2, EmptySeq DEF Slots
  <2>4. \A k \in Holders \ {h} : \A j : Position(k, j)' = Position(k, j)
    BY <2>1, <2>2 DEF Position
  <2> QED BY <2>2, <2>3, <2>4
<1> QED BY <1>2, <1>3, <1>4, <1>5, <1>7, <1>8

LEMMA InitLeases == Init => Pool!Init
<1> SUFFICES ASSUME Init PROVE Pool!Init
  OBVIOUS
<1>1. \A h \in Holders : 1 .. Len(held[h]) = {} BY EmptySeq DEF Init
<1>2. \A h \in Holders : {<<held[h][j], ContentOf(h, j)>> : j \in 1 .. Len(held[h])} = {}
  BY <1>1
<1> QED BY <1>2 DEF Pool!Init, Lease

LEMMA StepPool == IInv /\ [Next]_vars => [Pool!Next]_Lease
<1> SUFFICES ASSUME IInv, [Next]_vars PROVE Pool!Next \/ UNCHANGED Lease
  OBVIOUS
<1>1. CASE AllocatePop BY <1>1, AllocatePopGrants
<1>2. CASE PrefixPartial BY <1>2, PrefixPartialGrants
<1>3. CASE PrefixMiss BY <1>3, PrefixMissGrants
<1>4. CASE PrefixHit BY <1>4, PrefixHitGrants
<1>5. ASSUME NEW h \in Holders, Free(h) PROVE Pool!Next BY <1>5, FreeReleases
<1>6. CASE FreePrefixNext BY <1>6, FreePrefixNextReleases
<1>7. CASE PrefixRaise BY <1>7, PrefixRaiseReleases
<1> QED BY <1>1, <1>2, <1>3, <1>4, <1>5, <1>6, <1>7, OtherStepsStutter DEF Next

(* allocate, allocate_with_prefix_cache, free, free_with_prefix_cache and   *)
(* eviction together implement the pool of leases: two lists share a block  *)
(* only when it stores the same token prefix for both, and then they always *)
(* do.                                                                     *)
THEOREM ImplementsPool == Spec => PoolSpec
<1>1. Spec => []IInv BY IInvInvariant
<1> QED BY <1>1, InitLeases, StepPool, PTL DEF Spec, PoolSpec, Pool!Spec

=============================================================================
