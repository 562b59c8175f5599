--------------------------- MODULE MCBlockManager ---------------------------
(***************************************************************************)
(* BlockManager for TLC.  Prompts share full chunks, end with partial ones *)
(* and are together larger than the pool, so hits, misses, evictions and   *)
(* failures in the middle of a call all happen.                            *)
(***************************************************************************)
EXTENDS BlockManagerRefinement

PromptsSmall == {<<1, 1, 2>>, <<1, 1, 2, 2>>, <<2, 2>>}

=============================================================================
