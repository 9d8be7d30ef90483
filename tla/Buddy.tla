-------------------------------- MODULE Buddy --------------------------------
(***************************************************************************)
(* src/buddy_alloc.c, whole: BuddyAlloc with buddy_dealloc.  The client   *)
(* frees a block it holds, passing the size it asked for.  The recursion  *)
(* of buddy_dealloc is taken one level per step (pc "dealloc"), each       *)
(* level calling is_available, then put_free_block or delete_free_block   *)
(* on the lists as the level before left them.                             *)
(*                                                                         *)
(* Freed sizes are at least MIN_SIZE_REQUIRED: below it the loop of       *)
(* buddy_dealloc, which uses the size as given, finds an order below the  *)
(* one buddy_alloc used, and BUDDYOF gives an address that is not a       *)
(* block.                                                                  *)
(***************************************************************************)
EXTENDS BuddyAlloc

ASSUME \A s \in Sizes : s >= MIN_SIZE_REQUIRED

\* coalesce: "returns the pointer that is bigger".
coalesce(buddy_a, buddy_b) == IF buddy_a > buddy_b THEN buddy_a ELSE buddy_b

\* is_available: dlist_find_node(dlist, dlist_ptr_cmp, node), a linear
\* search since the list has no cmp_fn; NULL, the node, or HANG.
is_available(buddy, i) == FL(i)!dlist_find_node(buddy)

\* delete_free_block: dlist_dequeue on freelists_g[i].  It is called on a
\* buddy is_available has just found, which the is_member walk of
\* dequeue_local finds again, so the node is unlinked.
delete_free_block(buddy, i) ==
    LET r == FL(i)!dequeue_links(buddy) IN
    /\ heads' = [heads EXCEPT ![i] = r.head]
    /\ counts' = [counts EXCEPT ![i] = r.count]
    /\ next' = r.next /\ prev' = r.prev

\* buddy_dealloc(block, size) is called on a block the client holds: the
\* least order i with 2^i >= size.
buddy_dealloc(h) ==
    /\ pc = "idle" /\ fault = "none"
    /\ pc' = "dealloc"
    /\ blk' = h[1] /\ lvl' = BlockOrder(h[2])
    /\ held' = held \ {h}
    /\ UNCHANGED <<heads, counts, next, prev, mem_init_g, chunks, buf, req, want, ret, fault>>

\* One level of buddy_dealloc.  Past the last free list, freelists_g[i] is
\* out of the array: undefined behaviour, taken as a crash.  A buddy that
\* is not on the list is itself put on the list, and the call returns.  A
\* buddy that is found is removed, and the level above is called on
\* coalesce(block, buddy) with BLOCKSIZE(i + 1), of order i + 1.
dealloc_level ==
    /\ pc = "dealloc" /\ fault = "none"
    /\ IF lvl >= MAX_BLOCK_SIZE
         THEN /\ fault' = CRASH
              /\ UNCHANGED <<heads, counts, next, prev, pc, lvl, blk>>
         ELSE
         LET buddy == BUDDYOF(blk, lvl)
             found == is_available(buddy, lvl)
         IN
         CASE found = HANG ->
                /\ fault' = HANG
                /\ UNCHANGED <<heads, counts, next, prev, pc, lvl, blk>>
           [] found = NULL ->
                /\ put_free_block(buddy, lvl)
                /\ pc' = "idle"
                /\ UNCHANGED <<lvl, blk>>
           [] OTHER ->
                /\ delete_free_block(buddy, lvl)
                /\ blk' = coalesce(blk, buddy) /\ lvl' = lvl + 1
                /\ UNCHANGED <<pc, fault>>
    /\ UNCHANGED <<mem_init_g, chunks, buf, held, req, want, ret>>

Next ==
    \/ AllocNext
    \/ \E h \in held : buddy_dealloc(h)
    \/ dealloc_level

Spec == Init /\ [][Next]_vars
=============================================================================
