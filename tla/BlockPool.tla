------------------------------ MODULE BlockPool ------------------------------
(***************************************************************************)
(* What the block manager promises its callers, with no free list, hash    *)
(* map, reference count or eviction.  A holder leases blocks, each for a   *)
(* content: the token prefix it stores, or nothing in particular.  A block *)
(* leased for no content has one holder; blocks leased for a content may   *)
(* be shared, and all the holders of a content share one block.            *)
(***************************************************************************)
EXTENDS Naturals

CONSTANTS Blocks, Holders, Contents, NoContent

VARIABLE lease   \* the <<block, content>> pairs of each holder

Leases == UNION {lease[h] : h \in Holders}

Init == lease = [h \in Holders |-> {}]

Grant(h, b, c) ==
    /\ lease' = [lease EXCEPT ![h] = @ \cup {<<b, c>>}]
    /\ <<b, c>> \notin lease[h]
    /\ \A l \in Leases :
          l[1] = b \/ (l[2] = c /\ c # NoContent) =>
              l = <<b, c>> /\ c # NoContent

Release(h, S) == lease' = [lease EXCEPT ![h] = @ \ S]

Next ==
    \/ \E h \in Holders, b \in Blocks, c \in Contents \cup {NoContent} : Grant(h, b, c)
    \/ \E h \in Holders : \E S \in SUBSET lease[h] : Release(h, S)

Spec == Init /\ [][Next]_lease

=============================================================================
