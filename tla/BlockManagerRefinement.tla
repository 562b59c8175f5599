----------------------- MODULE BlockManagerRefinement -----------------------
(***************************************************************************)
(* BlockManager as an implementation of BlockPool: a holder leases the     *)
(* blocks of its list, a full chunk of a prompt for the prefix it ends,    *)
(* any other block for no content.                                         *)
(***************************************************************************)
EXTENDS BlockManager

(* The content of the block at a position of a holder's list.               *)
ContentOf(h, j) ==
    IF IsFull(prompt[h], Position(h, j))
    THEN Hash(prompt[h], Position(h, j))
    ELSE <<>>

Lease == [h \in Holders |-> {<<held[h][j], ContentOf(h, j)>> : j \in 1 .. Len(held[h])}]

Pool == INSTANCE BlockPool WITH
            Contents <- Hashes,
            NoContent <- <<>>,
            lease <- Lease

(* The manager implements the pool: sharing is by equal token prefix only,  *)
(* and a block handed out is nobody else's otherwise.                       *)
PoolSpec == Pool!Spec

=============================================================================
