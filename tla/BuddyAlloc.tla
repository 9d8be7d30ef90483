------------------------------ MODULE BuddyAlloc ------------------------------
(***************************************************************************)
(* src/buddy_alloc.c, the allocating half: buddy_alloc_init,               *)
(* buddy_alloc_chunk and buddy_alloc over the free lists freelists_g[i],   *)
(* each a dlist_st of the free blocks of size 2^i (buddy_alloc.h).         *)
(*                                                                         *)
(* The free lists are the lists of dlist.c: a free block's first two       *)
(* words are its node_st, so next[a] and prev[a] are the memory words at   *)
(* address a, shared by all the lists, and each freelists_g[i] is an       *)
(* instance of DList on heads[i] and counts[i].  The lists are created    *)
(* with cmp_fn NULL: blocks are appended at the tail and found by a linear *)
(* search with dlist_ptr_cmp.                                              *)
(*                                                                         *)
(* The program is one thread calling the API.  The recursion of           *)
(* buddy_alloc is taken one level per step (pc "alloc" going up the        *)
(* orders, pc "split" unwinding), so that every level's dlist call is made *)
(* on the lists as the previous level left them.  Addresses are bytes;     *)
(* MAX_BLOCK_SIZE, 32 in buddy_alloc.h, is scaled down so that the whole   *)
(* address space is 2^MAX_BLOCK_SIZE bytes.  Blocks are at least           *)
(* MIN_SIZE_REQUIRED = sizeof(node_st) = 16 bytes on LP64, so every block  *)
(* address is a multiple of 16.                                            *)
(***************************************************************************)
EXTENDS Integers, Sequences, FiniteSets, SequencesExt, Bitwise

CONSTANTS
    MAX_BLOCK_SIZE, \* number of free lists; blocks are at most 2^(MAX_BLOCK_SIZE-1)
    Base,           \* the address malloc returns in buddy_alloc_chunk
    ChunkSize,      \* the chunk_size passed to buddy_alloc_chunk
    MaxChunks,      \* bound on buddy_alloc_chunk calls
    Sizes,          \* the sizes the client passes to buddy_alloc
    NULL, HANG, CRASH

MIN_SIZE_REQUIRED == 16

Orders == 0..MAX_BLOCK_SIZE - 1
Addrs == {16 * k : k \in 0..2^MAX_BLOCK_SIZE \div 16 - 1}
Ptr == Addrs \cup {NULL}

ASSUME Base \in Addrs /\ NULL \notin Addrs

VARIABLES
    heads, counts,  \* freelists_g[i].head, freelists_g[i].count
    next, prev,     \* the node_st words at the start of each block
    mem_init_g,
    chunks,         \* buddy_alloc_chunk calls made
    buf,            \* the chunk malloc returned, NULL before
    held,           \* the blocks the client holds, as <<address, size>>
    pc,             \* "idle", "alloc", "split" (and "dealloc" in Buddy)
    req, want,      \* the size asked of buddy_alloc, its order
    lvl, blk,       \* the level of the recursion, the block it returns
    ret,            \* what the last buddy_alloc returned
    fault           \* "none", HANG or CRASH

vars == <<heads, counts, next, prev, mem_init_g, chunks, buf, held, pc,
          req, want, lvl, blk, ret, fault>>

\* freelists_g[i] as a dlist.c list.  dlist_ptr_cmp subtracts node_st
\* pointers: (a - b) / sizeof(node_st).
FL(i) == INSTANCE DList WITH
    Nodes <- Addrs, Data <- [a \in Addrs |-> a \div 16], Reuse <- TRUE,
    head <- heads[i], count <- counts[i], cmp_fn <- NULL,
    members <- {}, used <- {}, fault <- "none", call <- <<>>, ret <- 0

TypeOK ==
    /\ heads \in [Orders -> Ptr]
    /\ counts \in [Orders -> 0..Cardinality(Addrs)]
    /\ next \in [Addrs -> Ptr] /\ prev \in [Addrs -> Ptr]
    /\ mem_init_g \in BOOLEAN
    /\ chunks \in 0..MaxChunks
    /\ buf \in Ptr
    /\ held \subseteq Addrs \X Sizes
    /\ pc \in {"idle", "alloc", "split", "dealloc"}
    /\ req \in Sizes \cup {0} /\ want \in 0..MAX_BLOCK_SIZE + 1 /\ lvl \in 0..MAX_BLOCK_SIZE /\ blk \in Ptr
    /\ fault \in {"none", HANG, CRASH}

\* ROUND8(N) of buddy_alloc.h.
ROUND8(n) == 8 * ((n + 7) \div 8)

\* Mutant: no minimum size, so a block may be too small for its node_st.
get_real_size_nomin(chunk) == ROUND8(chunk)

\* get_real_size: at least MIN_SIZE_REQUIRED, rounded up to 8.
get_real_size(chunk) ==
    ROUND8(IF chunk < MIN_SIZE_REQUIRED THEN MIN_SIZE_REQUIRED ELSE chunk)

\* The loop "for (i = 0; BLOCKSIZE(i) < size; i++)": the least i with
\* 2^i >= size.
RECURSIVE OrderFrom(_, _)
OrderFrom(i, size) == IF 2^i < size THEN OrderFrom(i + 1, size) ELSE i

BlockOrder(size) == OrderFrom(0, size)

\* Mutant: the buddy found with the bit of the next order up.
BUDDYOF_wide(b, i) == b ^^ (2^(i + 1))

\* BUDDYOF(b, i): the address with bit i flipped.
BUDDYOF(b, i) == b ^^ (2^i)

\* put_free_block: dlist_enqueue on freelists_g[i], whose hook is the last
\* node (get_last_node); a cycle in the list makes it HANG.
put_free_block(node, i) ==
    LET hook == FL(i)!get_last_node(heads[i]) IN
    IF hook = HANG THEN fault' = HANG /\ UNCHANGED <<heads, counts, next, prev>>
    ELSE LET r == FL(i)!enqueue_links(node, hook) IN
         /\ heads' = [heads EXCEPT ![i] = r.head]
         /\ counts' = [counts EXCEPT ![i] = r.count]
         /\ next' = r.next /\ prev' = r.prev
         /\ UNCHANGED fault

\* get_free_block: dlist_dequeue_head on freelists_g[i] (count # 0, so the
\* head is not NULL).
get_free_block(i) ==
    LET r == FL(i)!dequeue_links(heads[i]) IN
    /\ heads' = [heads EXCEPT ![i] = r.head]
    /\ counts' = [counts EXCEPT ![i] = r.count]
    /\ next' = r.next /\ prev' = r.prev
-----------------------------------------------------------------------------
(* The API, called by a client that calls buddy_alloc_init first.          *)

Init ==
    /\ heads = [i \in Orders |-> NULL] /\ counts = [i \in Orders |-> 0]
    /\ next = [a \in Addrs |-> NULL] /\ prev = [a \in Addrs |-> NULL]
    /\ mem_init_g = FALSE /\ chunks = 0 /\ buf = NULL /\ held = {}
    /\ pc = "idle" /\ req = 0 /\ want = 0 /\ lvl = 0 /\ blk = NULL /\ ret = NULL
    /\ fault = "none"

\* buddy_alloc_init: dlist_init(&dlist_i, NULL, NULL) on every free list.
buddy_alloc_init ==
    /\ pc = "idle" /\ fault = "none" /\ ~mem_init_g
    /\ heads' = [i \in Orders |-> NULL] /\ counts' = [i \in Orders |-> 0]
    /\ mem_init_g' = TRUE
    /\ UNCHANGED <<next, prev, chunks, buf, held, pc, req, want, lvl, blk, ret, fault>>

\* buddy_alloc_chunk(ChunkSize): malloc the real size, which fails or
\* returns Base, and put it on the free list of the least order that holds
\* the real size.
buddy_alloc_chunk ==
    /\ pc = "idle" /\ fault = "none" /\ mem_init_g /\ chunks < MaxChunks
    /\ chunks' = chunks + 1
    /\ \/ /\ UNCHANGED <<heads, counts, next, prev, buf, fault>>
       \/ /\ buf' = Base
          /\ put_free_block(Base, BlockOrder(get_real_size(ChunkSize)))
    /\ UNCHANGED <<mem_init_g, held, pc, req, want, lvl, blk, ret>>

\* buddy_alloc(size) is called: the order of the real size.
buddy_alloc(size) ==
    /\ pc = "idle" /\ fault = "none" /\ mem_init_g
    /\ pc' = "alloc"
    /\ want' = BlockOrder(get_real_size(size)) /\ lvl' = want'
    /\ req' = size
    /\ UNCHANGED <<heads, counts, next, prev, mem_init_g, chunks, buf, held, blk, ret, fault>>

\* Mutant: the last free list treated as past the end.
alloc_level_short ==
    /\ pc = "alloc"
    /\ IF lvl >= MAX_BLOCK_SIZE - 1
         THEN /\ pc' = "idle" /\ ret' = NULL
              /\ UNCHANGED <<heads, counts, next, prev, lvl, blk, held>>
       ELSE IF counts[lvl] # 0
         THEN /\ blk' = heads[lvl] /\ get_free_block(lvl)
              /\ pc' = "split" /\ UNCHANGED <<lvl, held, ret>>
       ELSE /\ lvl' = lvl + 1
            /\ UNCHANGED <<heads, counts, next, prev, pc, blk, held, ret>>
    /\ UNCHANGED <<mem_init_g, chunks, buf, req, want, fault>>

\* One level of buddy_alloc: past the last list it returns NULL, and so do
\* all the levels below it; with a block on hand it takes it
\* (get_free_block); otherwise it calls buddy_alloc(BLOCKSIZE(i + 1)),
\* whose real size is of order i + 1.
alloc_level ==
    /\ pc = "alloc"
    /\ IF lvl >= MAX_BLOCK_SIZE
         THEN /\ pc' = "idle" /\ ret' = NULL
              /\ UNCHANGED <<heads, counts, next, prev, lvl, blk, held>>
       ELSE IF counts[lvl] # 0
         THEN /\ blk' = heads[lvl] /\ get_free_block(lvl)
              /\ pc' = "split" /\ UNCHANGED <<lvl, held, ret>>
       ELSE /\ lvl' = lvl + 1
            /\ UNCHANGED <<heads, counts, next, prev, pc, blk, held, ret>>
    /\ UNCHANGED <<mem_init_g, chunks, buf, req, want, fault>>

\* Returning through the levels: the call of order want returns the block
\* to the client; each level below the one that found it puts the upper
\* half, BUDDYOF(block, i), on free list i.
alloc_split ==
    /\ pc = "split" /\ fault = "none"
    /\ IF lvl = want
         THEN /\ pc' = "idle" /\ ret' = blk
              /\ held' = held \cup {<<blk, req>>}
              /\ UNCHANGED <<heads, counts, next, prev, lvl, fault>>
         ELSE /\ lvl' = lvl - 1
              /\ put_free_block(BUDDYOF(blk, lvl - 1), lvl - 1)
              /\ UNCHANGED <<pc, held, ret>>
    /\ UNCHANGED <<mem_init_g, chunks, buf, req, want, blk>>

AllocNext ==
    \/ buddy_alloc_init
    \/ buddy_alloc_chunk
    \/ \E s \in Sizes : buddy_alloc(s)
    \/ alloc_level
    \/ alloc_split

AllocSpec == Init /\ [][AllocNext]_vars
-----------------------------------------------------------------------------
(* Properties.                                                             *)

\* The block of order i at address a, as the set of its 16-byte units.
Units(a, i) == {a + 16 * k : k \in 0..(2^i \div 16) - 1}

\* The bytes malloc returned, in 16-byte units.
ChunkUnits == IF buf = NULL THEN {}
              ELSE {buf + 16 * k : k \in 0..(get_real_size(ChunkSize) - 1) \div 16}

\* Every block: the free ones on each list, the ones the client holds.
FreeBlocks == UNION {{<<"free", a, i>> : a \in ToSet(FL(i)!Walk)} : i \in Orders}
HeldBlocks == {<<"held", h[1], BlockOrder(get_real_size(h[2]))>> : h \in held}

\* Between calls, the free blocks and the client's blocks tile the chunk:
\* they lie in the malloc'ed bytes, no two share a byte and none is lost.
\* This is about the splitting of buddy_alloc (BUDDYOF, put_free_block)
\* and the order computed from the real size.
BlocksTileChunk ==
    pc = "idle" /\ fault = "none" =>
        LET B == FreeBlocks \cup HeldBlocks IN
        /\ \A b \in B : Units(b[2], b[3]) \subseteq ChunkUnits
        /\ \A b, c \in B : b # c => Units(b[2], b[3]) \cap Units(c[2], c[3]) = {}
        /\ UNION {Units(b[2], b[3]) : b \in B} = ChunkUnits

\* buddy_alloc returns NULL only when no free list from the order asked for
\* up to the last holds a block: it does not give up while memory of a
\* large enough order is free.
AllocFailsOnlyWhenExhausted ==
    [][pc = "alloc" /\ pc' = "idle" =>
         \A i \in want..MAX_BLOCK_SIZE - 1 : counts[i] = 0]_vars
=============================================================================
