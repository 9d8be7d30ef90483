------------------------------- MODULE Patricia -------------------------------
(***************************************************************************)
(* The IPv4 address trie: src/patriciaTrieKey.cc (keys and their bit     *)
(* operations), src/patriciaTrieNode.cc (insertNode, findNode, deleteNode,*)
(* lookup) and src/ipv4_addr.cc (insertIp, allocIp, findIp, deleteIp on  *)
(* the global root).  An address is a W-bit unsigned value, W standing for *)
(* 32: bit i counts from the most significant bit, as mask(i) = MSB >> i. *)
(* A patriciaTrieKey is a record [key, bitLen, bitIdxBegin] whose key      *)
(* holds its bits in place; a node is a record [key, data, left, right]    *)
(* with NULL for a missing key, data or child.  The code mutates nodes in  *)
(* place; here each operation returns the new tree.  data is the          *)
(* address_t the node stores, as its value (getValue); the text form of   *)
(* an address and parseAddress are not modelled.                          *)
(***************************************************************************)
EXTENDS Integers, Sequences, FiniteSets, FiniteSetsExt, Bitwise

CONSTANTS
    W,              \* address width (32 in the code)
    Addrs,          \* addresses the caller passes to insertIp and deleteIp
    Subnets,        \* [key, mask] pairs the caller passes to allocIp
    NULL,
    NULL_BIT_KEY,   \* bitIndex's results for an empty key and for equal
    EQUAL_BIT_KEY   \* keys; patriciaTrie.h is not in the repository

ASSUME NULL_BIT_KEY < 0 /\ EQUAL_BIT_KEY < 0 /\ NULL_BIT_KEY # EQUAL_BIT_KEY

AddrSpace == 0..2^W - 1

VARIABLES
    root,       \* the global root node of ipv4_addr.cc (its key is NULL)
    allocated,  \* the last allocIp call: [subnet, mask, ip], or NULL
    crashed,    \* the process died on a NULL dereference
    call        \* the caller's last call and its address: [op, addr], or NULL

vars == <<root, allocated, crashed, call>>

-----------------------------------------------------------------------------
(***************************************************************************)
(* patriciaTrieKey.cc                                                      *)
(***************************************************************************)

MSB == 2^(W - 1)

mask(bit) == MSB \div 2^bit

bit_i(key, i) == key & mask(i)

\* The bits of v at positions from..to-1, in place (a run of bit_i).
BitsIn(v, from, to) == (v % 2^(W - from)) - (v % 2^(W - to))

bitMask(bits) == BitsIn(2^W - 1, 0, bits)

bitIndex(k, otherKey) ==
    IF k.bitLen = 0 THEN NULL_BIT_KEY
    ELSE LET diff == {i \in k.bitIdxBegin..k.bitIdxBegin + k.bitLen - 1 :
                          ((k.key ^^ otherKey) & mask(i)) # 0}
         IN IF k.key # otherKey /\ diff # {} THEN Min(diff) ELSE EQUAL_BIT_KEY

prefix(k, maskLen) == BitsIn(k.key, k.bitIdxBegin, k.bitIdxBegin + maskLen)

longestPrefixBitLen(k, other) ==
    LET shorter == other.bitLen < k.bitLen
        p == IF shorter THEN bitIndex(other, k.key) ELSE bitIndex(k, other.key)
    IN CASE p = EQUAL_BIT_KEY -> IF shorter THEN other.bitLen ELSE k.bitLen
         [] p = NULL_BIT_KEY  -> NULL_BIT_KEY
         [] OTHER             -> p - k.bitIdxBegin

\* trimPrefix(prefix_len, pkey): the key that remains of k, and the
\* prefix it writes to pkey.
\* Mutant: bitLen -= prefix_len left out.
trimPrefix_keeplen(k, len) ==
    [key |-> BitsIn(k.key, k.bitIdxBegin + len, k.bitIdxBegin + k.bitLen),
     bitLen |-> k.bitLen, bitIdxBegin |-> k.bitIdxBegin + len]

trimPrefix(k, len) ==
    [key |-> BitsIn(k.key, k.bitIdxBegin + len, k.bitIdxBegin + k.bitLen),
     bitLen |-> k.bitLen - len, bitIdxBegin |-> k.bitIdxBegin + len]

prefixKey(k, len) ==
    [key |-> prefix(k, len), bitLen |-> len, bitIdxBegin |-> k.bitIdxBegin]

\* Mutant: the parent's bitLen is left as it was.
mergeKey_keeplen(k, child) ==
    [k EXCEPT !.key = @ | BitsIn(child.key, child.bitIdxBegin,
                                  child.bitIdxBegin + child.bitLen)]

mergeKey(k, child) ==
    [k EXCEPT !.key = @ | BitsIn(child.key, child.bitIdxBegin,
                                  child.bitIdxBegin + child.bitLen),
              !.bitLen = @ + child.bitLen]

-----------------------------------------------------------------------------
(***************************************************************************)
(* patriciaTrieNode.cc                                                     *)
(***************************************************************************)

Node(k, d, l, r) == [key |-> k, data |-> d, left |-> l, right |-> r]

\* The child a key goes to: right when its first bit is set.
Side(k) == IF bit_i(k.key, k.bitIdxBegin) >= 1 THEN "right" ELSE "left"

\* Mutant: the old node's children are not handed to child 1.
Split_orphans(n, p, pkey, addr) ==
    LET child_key1 == trimPrefix(n.key, p)
        child_key2 == trimPrefix(pkey, p)
        n1 == [n EXCEPT !.key = prefixKey(n.key, p), !.data = NULL,
                        ![Side(child_key1)] = Node(child_key1, n.data, NULL, NULL)]
    IN [n1 EXCEPT ![Side(child_key2)] = Node(child_key2, addr, NULL, NULL)]

\* Split n after its first p bits: n keeps the prefix, its old key rest,
\* data and children become child 1, the rest of pkey the new leaf.
Split(n, p, pkey, addr) ==
    LET child_key1 == trimPrefix(n.key, p)
        child_key2 == trimPrefix(pkey, p)
        n1 == [n EXCEPT !.key = prefixKey(n.key, p), !.data = NULL,
                        ![Side(child_key1)] = Node(child_key1, n.data, n.left, n.right)]
    IN [n1 EXCEPT ![Side(child_key2)] = Node(child_key2, addr, NULL, NULL)]

RECURSIVE insertNode(_, _, _)
insertNode(n, pkey, addr) ==
    LET \* Insert into the child on k's side, or hang a new leaf there.
        InsertBelow(k) ==
            LET s == Side(k) IN
            IF n[s] # NULL THEN [n EXCEPT ![s] = insertNode(n[s], k, addr)]
            ELSE [n EXCEPT ![s] = Node(k, addr, NULL, NULL)]
        p == longestPrefixBitLen(n.key, pkey)
    IN IF n.key = NULL THEN InsertBelow(pkey)
       ELSE CASE p <= 0 -> n                      \* log_err
              [] p < n.key.bitLen -> Split(n, p, pkey, addr)
              [] OTHER -> IF trimPrefix(pkey, p).bitLen = 0 THEN n   \* already present
                          ELSE InsertBelow(trimPrefix(pkey, p))

\* Whether a node's key covers pkey's next bits (findNode and lookup).
Matches(n, pkey) ==
    LET p == longestPrefixBitLen(n.key, pkey)
    IN p > 0 /\ (p = n.key.bitLen \/ p = pkey.bitLen)

Consumed(n, pkey) == trimPrefix(pkey, longestPrefixBitLen(n.key, pkey))

\* findNode: the path of sides from n to the node pkey ends at, or NULL;
\* the parent is the node the last step leaves.
RECURSIVE findNode(_, _)
findNode(n, pkey) ==
    LET Below(k) == LET s == Side(k) IN
                    IF n[s] = NULL THEN NULL
                    ELSE LET t == findNode(n[s], k) IN
                         IF t = NULL THEN NULL ELSE <<s>> \o t
    IN IF n.key = NULL THEN Below(pkey)
       ELSE IF ~Matches(n, pkey) THEN NULL
       ELSE IF Consumed(n, pkey).bitLen = 0 THEN <<>>
       ELSE Below(Consumed(n, pkey))

RECURSIVE lookup(_, _)
lookup(n, pkey) ==
    LET Below(k) == IF n[Side(k)] = NULL THEN NULL ELSE lookup(n[Side(k)], k)
    IN IF n.key = NULL THEN Below(pkey)
       ELSE IF ~Matches(n, pkey) THEN NULL
       ELSE IF Consumed(n, pkey).bitLen = 0 THEN n
       ELSE Below(Consumed(n, pkey))

RECURSIVE At(_, _), Replace(_, _, _)
At(n, path) == IF path = <<>> THEN n ELSE At(n[Head(path)], Tail(path))
Replace(n, path, new) ==
    IF path = <<>> THEN new
    ELSE [n EXCEPT ![Head(path)] = Replace(n[Head(path)], Tail(path), new)]

\* Mutant: the merge takes the child's key and children, not its data.
Unlink_keepdata(n, path) ==
    IF path = NULL THEN [tree |-> n, crash |-> FALSE]
    ELSE LET pp == SubSeq(path, 1, Len(path) - 1)
             parent == [At(n, pp) EXCEPT ![path[Len(path)]] = NULL]
             child == IF parent.right # NULL THEN parent.right ELSE parent.left
         IN IF child = NULL THEN [tree |-> Replace(n, pp, parent), crash |-> FALSE]
            ELSE IF parent.key = NULL THEN [tree |-> n, crash |-> TRUE]
            ELSE [tree |-> Replace(n, pp, Node(mergeKey(parent.key, child.key),
                                               parent.data, child.left, child.right)),
                  crash |-> FALSE]

\* Unlink the target at the end of path from its parent; if the parent is
\* left with a child, the child is pulled up into the parent: its data and
\* children are copied and its key merged into the parent's.  A parent
\* with no key (the root) makes mergeKey dereference NULL.
Unlink(n, path) ==
    IF path = NULL THEN [tree |-> n, crash |-> FALSE]
    ELSE LET pp == SubSeq(path, 1, Len(path) - 1)
             parent == [At(n, pp) EXCEPT ![path[Len(path)]] = NULL]
             child == IF parent.right # NULL THEN parent.right ELSE parent.left
         IN IF child = NULL THEN [tree |-> Replace(n, pp, parent), crash |-> FALSE]
            ELSE IF parent.key = NULL THEN [tree |-> n, crash |-> TRUE]
            ELSE [tree |-> Replace(n, pp, Node(mergeKey(parent.key, child.key),
                                               child.data, child.left, child.right)),
                  crash |-> FALSE]

\* deleteNode: findNode, then the unlink; a key not found changes nothing.
deleteNode(n, pkey) == Unlink(n, findNode(n, pkey))

-----------------------------------------------------------------------------
(***************************************************************************)
(* ipv4_addr.cc: the operations on the global root.                        *)
(***************************************************************************)

\* new patriciaTrieKey(v, 32)
Key32(v) == [key |-> v, bitLen |-> W, bitIdxBegin |-> 0]

\* A key's bits lie within the word.
KeyType == {k \in [key : AddrSpace, bitLen : 0..W, bitIdxBegin : 0..W] :
                k.bitIdxBegin + k.bitLen <= W}

\* Every node below n has a key of KeyType and an address or NULL as data.
RECURSIVE NodesOK(_)
NodesOK(n) ==
    \/ n = NULL
    \/ /\ n.key \in KeyType /\ n.data \in AddrSpace \cup {NULL}
       /\ NodesOK(n.left) /\ NodesOK(n.right)

\* Types: the global root keeps no key and no data, and every key the
\* splits and merges create lies within the word.
TypeOK ==
    /\ root.key = NULL /\ root.data = NULL
    /\ NodesOK(root.left) /\ NodesOK(root.right)
    /\ allocated \in [subnet : AddrSpace, mask : 0..W, ip : AddrSpace] \cup {NULL}
    /\ crashed \in BOOLEAN
    /\ call \in [op : {"insert", "delete"}, addr : AddrSpace] \cup {NULL}

Init ==
    /\ root = Node(NULL, NULL, NULL, NULL)
    /\ allocated = NULL
    /\ crashed = FALSE
    /\ call = NULL

insertIp(a) ==
    /\ ~crashed
    /\ root' = insertNode(root, Key32(a & bitMask(W)), a)
    /\ call' = [op |-> "insert", addr |-> a]
    /\ UNCHANGED <<allocated, crashed>>

\* allocIp's while loop: the first base + i whose key, from r's first bit
\* on, r->lookup does not find.
RECURSIVE FreeFrom(_, _, _)
FreeFrom(r, base, i) ==
    LET newIp == (base + i) % 2^W
        child == [key |-> newIp, bitLen |-> W - r.key.bitIdxBegin,
                  bitIdxBegin |-> r.key.bitIdxBegin]
    IN IF lookup(r, child) = NULL THEN newIp ELSE FreeFrom(r, base, i + 1)

\* Look the subnet's prefix up; if some address has it, take the first
\* free one above the subnet address, else the subnet address + 1.
allocIp(subnet, m) ==
    LET base == subnet & bitMask(m)
        r == lookup(root, [key |-> base, bitLen |-> m, bitIdxBegin |-> 0])
        newIp == IF r # NULL THEN FreeFrom(r, base, 1) ELSE (base + 1) % 2^W
    IN /\ ~crashed
       /\ root' = insertNode(root, Key32(newIp), newIp)
       /\ allocated' = [subnet |-> subnet, mask |-> m, ip |-> newIp]
       /\ call' = [op |-> "insert", addr |-> newIp]
       /\ UNCHANGED crashed

\* findIp: the node lookup returns for the address.
findIp(a) == lookup(root, Key32(a))

deleteIp(a) ==
    LET d == deleteNode(root, Key32(a)) IN
    /\ ~crashed
    /\ root' = d.tree
    /\ crashed' = d.crash
    /\ call' = [op |-> "delete", addr |-> a]
    /\ UNCHANGED allocated

Next ==
    \/ \E a \in Addrs : insertIp(a) \/ deleteIp(a)
    \/ \E s \in Subnets : allocIp(s.key, s.mask)

Spec == Init /\ [][Next]_vars
-----------------------------------------------------------------------------
(***************************************************************************)
(* Properties                                                              *)
(***************************************************************************)

\* The addresses the nodes of n hold.
RECURSIVE Held(_)
Held(n) ==
    IF n = NULL THEN {}
    ELSE (IF n.data # NULL THEN {n.data} ELSE {}) \cup Held(n.left) \cup Held(n.right)

Stored == Held(root)

\* n, a node below the root, starts at bit position begin.
RECURSIVE WellFormed(_, _)
WellFormed(n, begin) ==
    LET k == n.key
        end == k.bitIdxBegin + k.bitLen
    IN /\ k # NULL
       /\ k.bitIdxBegin = begin /\ k.bitLen >= 1 /\ end <= W
       /\ BitsIn(k.key, begin, end) = k.key
       /\ IF end = W THEN n.left = NULL /\ n.right = NULL /\ n.data # NULL
          ELSE /\ n.data = NULL
               /\ \A s \in {"left", "right"} :
                     n[s] # NULL /\ WellFormed(n[s], end) /\ Side(n[s].key) = s

\* The trie stays a path-compressed binary trie through every sequence of
\* insertIp, allocIp and deleteIp: each node's key starts where its
\* parent's ends, a child hangs on the side its first bit names, an inner
\* node has two children and no data, and only a node whose key ends at
\* bit W holds an address.  insertNode's split and deleteNode's merge of
\* the remaining child into the parent must both keep this.
TrieShape ==
    /\ root.key = NULL /\ root.data = NULL
    /\ \A s \in {"left", "right"} :
          root[s] # NULL => WellFormed(root[s], 0) /\ Side(root[s].key) = s

\* findIp finds exactly the addresses the trie holds, and the node it
\* returns holds the address looked up: the split in insertNode hands the
\* old data to the new child, and deleteNode copies the remaining child's
\* data up into the parent and merges the keys, so the path to every
\* address must keep spelling it.
FindIpFindsStored ==
    \A a \in AddrSpace :
        IF a \in Stored THEN findIp(a) # NULL /\ findIp(a).data = a
        ELSE findIp(a) = NULL

\* The addresses the trie holds behave as a set under the calls made on
\* it: after insertIp(a), or an allocIp that returned a, a is held; after
\* deleteIp(a), a is not; and no call adds or drops any other address
\* (with FindIpFindsStored, this is what findIp answers).  insertNode's
\* split and deleteNode's merge must both leave every other address in
\* place.
Set == INSTANCE IpSet WITH Addrs <- AddrSpace, addrs <- Stored
ImplementsIpSet == Set!Spec

\* allocIp returns an address of the subnet it is given that was not in
\* use: its loop stops at the first base + i that r->lookup does not find.
AllocIpFresh ==
    [][\A s \in Subnets :
          allocIp(s.key, s.mask) =>
             /\ allocated'.ip \notin Stored
             /\ allocated'.ip & bitMask(s.mask) = s.key & bitMask(s.mask)]_vars

\* No call dereferences NULL: deleteNode merges into a parent with a key.
NoNullDeref == ~crashed
=============================================================================
