-------------------------------- MODULE DList ---------------------------------
(***************************************************************************)
(* src/dlist.c: an intrusive doubly linked list.  With a cmp_fn the list    *)
(* is kept sorted, insertion points found by a binary search over the      *)
(* links (find_insert_hook) and nodes looked up the same way               *)
(* (binary_search); without one, nodes are appended at the tail and looked *)
(* up linearly.                                                            *)
(*                                                                         *)
(* The calls are sequential: each API function is one action, and its     *)
(* loops are RECURSIVE operators over the links.  A loop that would run    *)
(* for ever (the links may form a cycle, or the search may stop making     *)
(* progress) is cut off after Fuel rounds and yields HANG; a NULL          *)
(* dereference yields CRASH.  Either stops the program: no call is made    *)
(* after it.                                                               *)
(*                                                                         *)
(* ROUND2 comes from common.h, which is not in the repository; it is read  *)
(* as rounding up to an even number, the reading under which              *)
(* ROUND2(n)/2 is the middle of n nodes.                                   *)
(* The caller is _main's: nodes start with next = prev = NULL, and with    *)
(* Reuse = FALSE each node is enqueued at most once, as in _main.          *)
(***************************************************************************)
EXTENDS Integers, Sequences, FiniteSets, SequencesExt

CONSTANTS
    Nodes,          \* the foo_node_st array
    Data,           \* Data[n]: foo_node_st.data
    NULL,
    HANG, CRASH,    \* a loop that does not return, a NULL dereference
    Reuse           \* may a dequeued node be enqueued again?

ASSUME Data \in [Nodes -> Nat] /\ NULL \notin Nodes /\ Reuse \in BOOLEAN

Fuel == 2 * Cardinality(Nodes) + 4

VARIABLES
    head, count,    \* dlist_st.head, dlist_st.count
    cmp_fn,         \* "foo_cmp" or NULL, as passed to dlist_init
    next, prev,     \* node_st.next, node_st.prev of every node
    members,        \* the nodes the caller has in the list
    used,           \* the nodes the caller has ever enqueued
    fault,          \* "none", HANG or CRASH
    call, ret       \* the last call and what it returned

vars == <<head, count, cmp_fn, next, prev, members, used, fault, call, ret>>

Ptr == Nodes \cup {NULL}

TypeOK ==
    /\ head \in Ptr
    /\ count \in 0..Cardinality(Nodes)
    /\ cmp_fn \in {"foo_cmp", NULL}
    /\ next \in [Nodes -> Ptr] /\ prev \in [Nodes -> Ptr]
    /\ members \subseteq Nodes /\ used \subseteq Nodes
    /\ fault \in {"none", HANG, CRASH}

\* Mutant: ROUND2 rounding up to a power of two (ROUND2(1) = 1).
ROUND2_pow2(x) == IF x <= 1 THEN x ELSE IF x <= 2 THEN 2 ELSE IF x <= 4 THEN 4 ELSE 8

\* ROUND2(x): x rounded up to an even number.
ROUND2(x) == x + (x % 2)

\* foo_cmp: the sign of cur->data - to->data.
Cmp(a, b) == Data[a] - Data[b]
-----------------------------------------------------------------------------
(* The loops of dlist.c over the current links.                           *)

\* get_last_node: follow next to the node whose next is NULL.
RECURSIVE LastFrom(_, _)
LastFrom(node, f) ==
    IF f = 0 THEN HANG
    ELSE IF next[node] = NULL THEN node ELSE LastFrom(next[node], f - 1)

get_last_node(node) == IF node = NULL THEN NULL ELSE LastFrom(node, Fuel)

\* get_nth_node: tcount - 1 steps along next, NULL if the list ends first.
RECURSIVE get_nth_node(_, _)
get_nth_node(cur, tcount) ==
    IF cur = NULL THEN NULL
    ELSE IF tcount <= 1 THEN cur
    ELSE get_nth_node(next[cur], tcount - 1)

\* is_member: the do-while walk from dlist->head; it dereferences the head
\* before testing it, so an empty list is a NULL dereference.
RECURSIVE MemberFrom(_, _, _)
MemberFrom(cur, node, f) ==
    IF node = cur THEN TRUE
    ELSE IF cur = NULL THEN CRASH
    ELSE IF f = 0 THEN HANG
    ELSE IF next[cur] = NULL THEN FALSE
    ELSE MemberFrom(next[cur], node, f - 1)

is_member(node) == MemberFrom(head, node, Fuel)

\* Mutant: the left-half exit returns cur_node instead of cur_node->prev.
RECURSIVE HookLoop_cur(_, _, _, _)
HookLoop_cur(cur, cnt, to, f) ==
    LET half == ROUND2(cnt) \div 2
        hook == get_nth_node(cur, half)
    IN  IF f = 0 THEN HANG
        ELSE IF hook = NULL THEN NULL
        ELSE IF Cmp(hook, to) < 0
          THEN IF next[hook] = NULL THEN hook
               ELSE HookLoop_cur(next[hook], cnt - half, to, f - 1)
        ELSE IF half = 1 THEN cur
        ELSE HookLoop_cur(cur, half, to, f - 1)

\* The do-while loop of find_insert_hook from cur_node, node_count.
RECURSIVE HookLoop(_, _, _, _)
HookLoop(cur, cnt, to, f) ==
    LET half == ROUND2(cnt) \div 2
        hook == get_nth_node(cur, half)
    IN  IF f = 0 THEN HANG
        ELSE IF hook = NULL THEN NULL
        ELSE IF Cmp(hook, to) < 0
          THEN IF next[hook] = NULL THEN hook
               ELSE HookLoop(next[hook], cnt - half, to, f - 1)
        ELSE IF half = 1 THEN prev[cur]
        ELSE HookLoop(cur, half, to, f - 1)

\* find_insert_hook: the node after which to_node is to be linked, NULL
\* for the head.
find_insert_hook(to) ==
    IF head = NULL \/ count = 0 THEN NULL
    ELSE IF count = 1 THEN (IF Cmp(head, to) < 0 THEN head ELSE NULL)
    ELSE HookLoop(head, count, to, Fuel)

\* Mutant: the left half given up on at two nodes instead of one.
RECURSIVE SearchLoop_early(_, _, _, _)
SearchLoop_early(cur, cnt, to, f) ==
    LET half == ROUND2(cnt) \div 2
        node == get_nth_node(cur, half)
    IN  IF f = 0 THEN HANG
        ELSE IF node = NULL THEN NULL
        ELSE IF Cmp(node, to) = 0 THEN node
        ELSE IF Cmp(node, to) < 0
          THEN IF next[node] = NULL THEN NULL
               ELSE SearchLoop_early(next[node], cnt - half, to, f - 1)
        ELSE IF half <= 2 THEN NULL
        ELSE SearchLoop_early(cur, half, to, f - 1)

\* The do-while loop of binary_search.
RECURSIVE SearchLoop(_, _, _, _)
SearchLoop(cur, cnt, to, f) ==
    LET half == ROUND2(cnt) \div 2
        node == get_nth_node(cur, half)
    IN  IF f = 0 THEN HANG
        ELSE IF node = NULL THEN NULL
        ELSE IF Cmp(node, to) = 0 THEN node
        ELSE IF Cmp(node, to) < 0
          THEN IF next[node] = NULL THEN NULL
               ELSE SearchLoop(next[node], cnt - half, to, f - 1)
        ELSE IF half = 1 THEN NULL
        ELSE SearchLoop(cur, half, to, f - 1)

binary_search(to) ==
    IF count = 1 THEN (IF Cmp(head, to) = 0 THEN head ELSE NULL)
    ELSE SearchLoop(head, count, to, Fuel)

\* The linear do-while search of dlist_find_node.
RECURSIVE LinearFrom(_, _, _)
LinearFrom(cur, to, f) ==
    IF f = 0 THEN HANG
    ELSE IF Cmp(cur, to) = 0 THEN cur
    ELSE IF next[cur] = NULL THEN NULL
    ELSE LinearFrom(next[cur], to, f - 1)

dlist_find_node(to) ==
    IF head = NULL THEN NULL
    ELSE IF cmp_fn # NULL THEN binary_search(to)
    ELSE LinearFrom(head, to, Fuel)
-----------------------------------------------------------------------------
(* The API, one action per call.                                           *)

\* dlist_init(&dlist, NULL, cmp_fn) on the caller's foo_node_arry.
Init ==
    /\ head = NULL /\ count = 0
    /\ cmp_fn \in {"foo_cmp", NULL}
    /\ next = [n \in Nodes |-> NULL] /\ prev = [n \in Nodes |-> NULL]
    /\ members = {} /\ used = {}
    /\ fault = "none"
    /\ call = <<"dlist_init">> /\ ret = 0

\* A loop of the call did not return, or dereferenced NULL.
Fail(r) ==
    /\ fault' = r
    /\ UNCHANGED <<head, count, cmp_fn, next, prev, members, used, ret>>

\* Mutant: the successor's prev pointer is not re-adjusted.
dequeue_links_noprev(node) ==
    [head  |-> IF head = node THEN next[node] ELSE head,
     next  |-> IF prev[node] # NULL THEN [next EXCEPT ![prev[node]] = next[node]] ELSE next,
     prev  |-> prev,
     count |-> count - 1]

\* Mutant: count decremented twice.
dequeue_links_twice(node) ==
    [head  |-> IF head = node THEN next[node] ELSE head,
     next  |-> IF prev[node] # NULL THEN [next EXCEPT ![prev[node]] = next[node]] ELSE next,
     prev  |-> IF next[node] # NULL THEN [prev EXCEPT ![next[node]] = prev[node]] ELSE prev,
     count |-> count - 2]

\* The unlinking done by dequeue_local after its checks, as the new head,
\* links and count.  node->next and node->prev keep their values.
dequeue_links(node) ==
    [head  |-> IF head = node THEN next[node] ELSE head,
     next  |-> IF prev[node] # NULL THEN [next EXCEPT ![prev[node]] = next[node]] ELSE next,
     prev  |-> IF next[node] # NULL THEN [prev EXCEPT ![next[node]] = prev[node]] ELSE prev,
     count |-> count - 1]

\* dequeue_local: unlink the node; free_fn is NULL, so do_delete returns 0.
dequeue_local(node) ==
    LET r == dequeue_links(node) IN
    /\ head' = r.head /\ next' = r.next /\ prev' = r.prev /\ count' = r.count
    /\ members' = members \ {node}

\* The linking done by dlist_enqueue once the hook is known: at the head
\* when the hook is NULL, else after the hook.  Linking after the tail does
\* not set node->next.
enqueue_links(node, hook) ==
    LET nx == IF hook \in Nodes THEN next[hook] ELSE NULL IN
    IF hook = NULL
    THEN [head  |-> node,
          next  |-> [next EXCEPT ![node] = head],
          prev  |-> IF head # NULL THEN [prev EXCEPT ![node] = NULL, ![head] = node]
                                   ELSE [prev EXCEPT ![node] = NULL],
          count |-> count + 1]
    ELSE [head  |-> head,
          next  |-> IF nx # NULL THEN [next EXCEPT ![node] = nx, ![hook] = node]
                                 ELSE [next EXCEPT ![hook] = node],
          prev  |-> IF nx # NULL THEN [prev EXCEPT ![nx] = node, ![node] = hook]
                                 ELSE [prev EXCEPT ![node] = hook],
          count |-> count + 1]

\* dlist_enqueue: find the hook (sorted insert point or tail), then link.
dlist_enqueue(node) ==
    LET hook == IF cmp_fn # NULL THEN find_insert_hook(node)
                ELSE get_last_node(head)
    IN
    /\ fault = "none"
    /\ node \notin members /\ (Reuse \/ node \notin used)
    /\ call' = <<"dlist_enqueue", node>>
    /\ IF hook = HANG THEN Fail(HANG)
       ELSE LET r == enqueue_links(node, hook) IN
            /\ head' = r.head /\ next' = r.next /\ prev' = r.prev /\ count' = r.count
            /\ members' = members \cup {node} /\ used' = used \cup {node}
            /\ ret' = 0
            /\ UNCHANGED <<cmp_fn, fault>>

\* dlist_dequeue: the node must be a member (the header comment); it is
\* checked again with is_member.
dlist_dequeue(node) ==
    /\ fault = "none"
    /\ node \in members
    /\ call' = <<"dlist_dequeue", node>>
    /\ CASE is_member(node) \in {HANG, CRASH} -> Fail(is_member(node))
         [] is_member(node) = FALSE ->
              /\ ret' = -1
              /\ UNCHANGED <<head, count, cmp_fn, next, prev, members, used, fault>>
         [] OTHER ->
              /\ dequeue_local(node) /\ ret' = 0
              /\ UNCHANGED <<cmp_fn, used, fault>>

\* Removing a node found by walking the list (dequeue_local with TRUE).
dequeue_found(node) ==
    IF node = NULL
      THEN /\ ret' = NULL
           /\ UNCHANGED <<head, count, cmp_fn, next, prev, members, used, fault>>
      ELSE /\ dequeue_local(node) /\ ret' = node
           /\ UNCHANGED <<cmp_fn, used, fault>>

dlist_dequeue_head ==
    /\ fault = "none"
    /\ call' = <<"dlist_dequeue_head">>
    /\ dequeue_found(head)

dlist_dequeue_node_n(n) ==
    /\ fault = "none"
    /\ call' = <<"dlist_dequeue_node_n", n>>
    /\ dequeue_found(get_nth_node(head, n))

\* dlist_find_and_dequeue(dlist, foo_cmp, to_node).
dlist_find_and_dequeue(to) ==
    LET node == dlist_find_node(to) IN
    /\ fault = "none"
    /\ call' = <<"dlist_find_and_dequeue", to>>
    /\ CASE node = HANG -> Fail(HANG)
         [] node = NULL ->
              /\ ret' = -1
              /\ UNCHANGED <<head, count, cmp_fn, next, prev, members, used, fault>>
         [] OTHER ->
              /\ dequeue_local(node) /\ ret' = 0
              /\ UNCHANGED <<cmp_fn, used, fault>>

Positions == 0..Cardinality(Nodes) + 1

Next ==
    \/ \E n \in Nodes : dlist_enqueue(n) \/ dlist_dequeue(n) \/ dlist_find_and_dequeue(n)
    \/ dlist_dequeue_head
    \/ \E k \in Positions : dlist_dequeue_node_n(k)

Spec == Init /\ [][Next]_vars
-----------------------------------------------------------------------------
(* Properties.                                                             *)

\* The nodes reached from head along next, at most one more than there are.
RECURSIVE Chain(_, _)
Chain(cur, k) ==
    IF cur = NULL \/ k = 0 THEN <<>> ELSE <<cur>> \o Chain(next[cur], k - 1)

Walk == Chain(head, Cardinality(Nodes) + 1)

\* After any sequence of calls, the links describe exactly the caller's
\* nodes: the walk from head ends in NULL without revisiting a node, holds
\* the members, count is its length, and every prev mirrors a next.
WellFormed ==
    fault = "none" =>
        /\ Len(Walk) <= Cardinality(Nodes)
        /\ IsInjective(Walk)
        /\ ToSet(Walk) = members
        /\ count = Len(Walk)
        /\ head # NULL => prev[head] = NULL
        /\ \A i \in 1..Len(Walk) - 1 : prev[Walk[i + 1]] = Walk[i]

\* With a cmp_fn, find_insert_hook keeps the list sorted by foo_cmp.
SortedList ==
    fault = "none" /\ cmp_fn # NULL =>
        \A i \in 1..Len(Walk) - 1 : Data[Walk[i]] <= Data[Walk[i + 1]]

\* Every loop of the list code returns (find_insert_hook, binary_search,
\* get_last_node, is_member and the linear search).
NoHang == fault # HANG

\* dlist_find_and_dequeue removes a node whenever the list holds one with
\* the same data: binary_search does not miss it.
FindIsComplete ==
    [][call'[1] = "dlist_find_and_dequeue" /\ fault' = "none"
         /\ (\E m \in members : Data[m] = Data[call'[2]])
       => ret' = 0]_vars
=============================================================================
