----------------------------- MODULE PerfectHash -----------------------------
(***************************************************************************)
(* src/perfect_hash.c: create_minimal_perfecthash, which builds the       *)
(* tables G and values for size items, and perfect_hash_lookup.  One step *)
(* is one iteration of one of the builder's loops.  hash() is computed    *)
(* exactly, on 32-bit words kept as 16-bit halves [hi, lo] (TLC's         *)
(* integers are 32-bit and signed).  A key is its sequence of bytes; an   *)
(* item's value is its index, as main's values "0".."5" are.  calloc,     *)
(* realloc and the chunks of three in append and slot_vector_append are  *)
(* storage: a bucket and a slot vector are sequences.  The loop printing  *)
(* the buckets is output only.                                            *)
(***************************************************************************)
EXTENDS Integers, SequencesExt, Bitwise

CONSTANTS
    Inputs,     \* item lists create_minimal_perfecthash is called with
    MaxD,       \* bound on the d search of one bucket
    NULL

VARIABLES
    items, size,
    pc,         \* "place", "multi", "free", "single" or "done"
    i,          \* the builder's loop index
    buckets,    \* buckets[b]: the items hashed to b, as indices into items
    values,     \* values[s]: the value in slot s, or NULL
    G,
    d, item, slots,     \* the d search of one bucket and its slot vector
    freelist, slice_begin,
    hashOf      \* hashOf[j][d] = hash(d, key of item j), fixed in Init

vars == <<items, size, pc, i, buckets, values, G, d, item, slots, freelist, slice_begin, hashOf>>

Slots == 0..size - 1

-----------------------------------------------------------------------------
(***************************************************************************)
(* hash                                                                    *)
(***************************************************************************)

Half == 65536

\* 0x01000193 as a word.
FNV == [hi |-> 256, lo |-> 403]

\* (d * 0x01000193) ^ c mod 2^32: d * 2^24 keeps d's low byte, moved to
\* the top; d * 0x193 is carried from the low half into the high one.
HashStep(w, c) ==
    LET wlo == w.lo
        low == wlo * 403
    IN [hi |-> ((wlo % 256) * 256 + w.hi * 403 + low \div Half) % Half,
        lo |-> (low % Half) ^^ c]

\* h[n]: d after the for loop's first n bytes.
hash(dd, key) ==
    LET h[n \in 0..Len(key)] ==
            IF n = 0 THEN (IF dd = 0 THEN FNV ELSE [hi |-> dd \div Half, lo |-> dd % Half])
            ELSE HashStep(h[n - 1], key[n])
    IN h[Len(key)]

\* A word modulo size.
Mod(w, n) == ((w.hi % n) * (Half % n) + w.lo) % n

Key(j) == items[j].key
Bucket0(j) == Mod(hashOf[j][0], size)

-----------------------------------------------------------------------------
(***************************************************************************)
(* create_minimal_perfecthash                                              *)
(***************************************************************************)

Init ==
    /\ items \in Inputs
    /\ size = Len(items)
    /\ pc = "place" /\ i = 0
    /\ buckets = [b \in 0..Len(items) - 1 |-> <<>>]
    /\ values = [s \in 0..Len(items) - 1 |-> NULL]
    /\ G = [s \in 0..Len(items) - 1 |-> 0]
    /\ d = 1 /\ item = 0 /\ slots = <<>>
    /\ freelist = <<>> /\ slice_begin = 0
    /\ hashOf = [j \in 1..Len(items) |-> [dd \in 0..MaxD + 1 |-> hash(dd, items[j].key)]]

\* Step 1: append item i to the bucket its hash(0) names.
Place ==
    /\ pc = "place" /\ i < size
    /\ buckets' = [buckets EXCEPT ![Bucket0(i + 1)] = Append(@, i + 1)]
    /\ i' = i + 1
    /\ UNCHANGED <<items, size, hashOf, pc, values, G, d, item, slots, freelist, slice_begin>>

\* The orders of the buckets b in S with the fullest first, ties in any
\* order: qsort is not stable.
RECURSIVE SortedOrders(_)
SortedOrders(S) ==
    IF S = {} THEN {<<>>}
    ELSE LET top == {b \in S : \A c \in S : Len(buckets[b]) >= Len(buckets[c])}
         IN UNION {{<<b>> \o r : r \in SortedOrders(S \ {b})} : b \in top}

\* Step 2: qsort by cmp_bucket, the fullest bucket first.
Sort ==
    /\ pc = "place" /\ i = size
    /\ \E f \in SortedOrders(Slots) : buckets' = [b \in Slots |-> buckets[f[b + 1]]]
    /\ pc' = "multi" /\ i' = 0
    /\ UNCHANGED <<items, size, hashOf, values, G, d, item, slots, freelist, slice_begin>>

\* The first bucket with at most one item ends the loop over buckets.
EndMulti ==
    /\ pc = "multi"
    /\ i = size \/ Len(buckets[i]) <= 1
    /\ pc' = "free"
    /\ UNCHANGED <<items, size, hashOf, i, buckets, values, G, d, item, slots, freelist, slice_begin>>

\* Mutant: the slot vector is not cleared when d moves on.
TrySlot_keep(j) ==
    LET slot == Mod(hashOf[j][d], size) IN
    IF values[slot] # NULL \/ slot \in Range(slots)
    THEN d' = d + 1 /\ item' = 0 /\ UNCHANGED slots
    ELSE slots' = Append(slots, slot) /\ item' = item + 1 /\ UNCHANGED d

\* Mutant: a slot is tested only against the bucket's own slots.
TrySlot_novalues(j) ==
    LET slot == Mod(hashOf[j][d], size) IN
    IF slot \in Range(slots)
    THEN d' = d + 1 /\ item' = 0 /\ slots' = <<>>
    ELSE slots' = Append(slots, slot) /\ item' = item + 1 /\ UNCHANGED d

\* One iteration of the d search for item j: a slot already holding a
\* value, or taken by an earlier item of the bucket, restarts the bucket
\* with the next d (free_slots); a free one is cached.
TrySlot(j) ==
    LET slot == Mod(hashOf[j][d], size) IN
    IF values[slot] # NULL \/ slot \in Range(slots)
    THEN d' = d + 1 /\ item' = 0 /\ slots' = <<>>
    ELSE slots' = Append(slots, slot) /\ item' = item + 1 /\ UNCHANGED d

Search ==
    /\ pc = "multi" /\ i < size /\ Len(buckets[i]) > 1
    /\ item < Len(buckets[i]) /\ d <= MaxD
    /\ TrySlot(buckets[i][item + 1])
    /\ UNCHANGED <<items, size, hashOf, pc, i, buckets, values, G, freelist, slice_begin>>

\* Every item has a slot: G of the bucket's hash(0) gets d, the values go
\* to the cached slots, and the next bucket starts with d = 1.
Commit ==
    /\ pc = "multi" /\ i < size /\ Len(buckets[i]) > 1
    /\ item = Len(buckets[i])
    /\ G' = [G EXCEPT ![Bucket0(buckets[i][1])] = d]
    /\ values' = [s \in Slots |->
                    IF \E k \in 1..item : slots[k] = s
                    THEN buckets[i][CHOOSE k \in 1..item : slots[k] = s]
                    ELSE values[s]]
    /\ i' = i + 1 /\ d' = 1 /\ item' = 0 /\ slots' = <<>>
    /\ UNCHANGED <<items, size, hashOf, pc, buckets, freelist, slice_begin>>

\* The slots still free, in order.
FreeList ==
    /\ pc = "free"
    /\ freelist' = SelectSeq([k \in 1..size |-> k - 1], LAMBDA k : values[k] = NULL)
    /\ slice_begin' = 0
    /\ pc' = "single"
    /\ UNCHANGED <<items, size, hashOf, i, buckets, values, G, d, item, slots>>

\* pop: the next free slot, or -1 once the freelist is used up.
pop == IF slice_begin < Len(freelist) THEN freelist[slice_begin + 1] ELSE -1

\* Mutant: G holds -slot, so slot 0 reads as a d of 0.
SingleG_noone(slot) == -slot

\* -slot-1: negative even for slot 0.
SingleG(slot) == -slot - 1

\* A bucket of one item takes the next free slot.  A pop of -1 writes
\* values[-1], outside the array; the model keeps only the array.
Single ==
    /\ pc = "single" /\ i < size /\ Len(buckets[i]) # 0
    /\ G' = [G EXCEPT ![Bucket0(buckets[i][1])] = SingleG(pop)]
    /\ values' = IF pop = -1 THEN values ELSE [values EXCEPT ![pop] = buckets[i][1]]
    /\ slice_begin' = IF pop = -1 THEN slice_begin ELSE slice_begin + 1
    /\ i' = i + 1
    /\ UNCHANGED <<items, size, hashOf, pc, buckets, d, item, slots, freelist>>

EndSingle ==
    /\ pc = "single"
    /\ i = size \/ Len(buckets[i]) = 0
    /\ pc' = "done"
    /\ UNCHANGED <<items, size, hashOf, i, buckets, values, G, d, item, slots, freelist, slice_begin>>

\* main's test_lookups read the tables and print; then it exits.
Exited ==
    /\ pc = "done"
    /\ UNCHANGED vars

Next ==
    \/ Place \/ Sort \/ EndMulti \/ Search \/ Commit
    \/ FreeList \/ Single \/ EndSingle \/ Exited

Spec == Init /\ [][Next]_vars /\ WF_vars(Next)

-----------------------------------------------------------------------------
\* perfect_hash_lookup: a negative d names the slot, any other d is the
\* seed of the hash that does.
perfect_hash_lookup(j) ==
    LET gd == G[Mod(hashOf[j][0], size)]
    IN IF gd < 0 THEN values[-gd - 1] ELSE values[Mod(hashOf[j][gd], size)]

\* Types; the slot vector holds one slot for each item of the bucket
\* placed under the current d, as free_slots empties it when d moves on.
TypeOK ==
    /\ pc \in {"place", "multi", "free", "single", "done"}
    /\ i \in 0..size
    /\ buckets \in [Slots -> Seq(1..size)]
    /\ values \in [Slots -> 1..size \cup {NULL}]
    /\ G \in [Slots -> Int]
    /\ d \in 1..MaxD + 1 /\ item \in 0..size
    /\ slots \in Seq(Slots) /\ Len(slots) = item
    /\ freelist \in Seq(Slots)

\* Once the builder has run, perfect_hash_lookup returns every item's own
\* value: the d search gave a bucket's items distinct free slots under
\* hash(d), and each single item got a free slot of its own through -slot-1.
LookupFindsValue ==
    pc = "done" => \A j \in 1..size : perfect_hash_lookup(j) = j

\* No step of the builder overwrites a slot that holds a value: the d
\* search must check values[] as well as the slots the bucket has cached.
SlotsNeverOverwritten ==
    [][\A s \in Slots : values[s] # NULL => values'[s] = values[s]]_vars

\* The builder terminates: every bucket's d search ends.
BuildTerminates == <>(pc = "done")
=============================================================================
