-------------------------------- MODULE IpSet --------------------------------
(***************************************************************************)
(* What the IPv4 allocator of ipv4_addr.cc promises its caller, with no   *)
(* trie: a set of addresses, and the call last made on it.  insertIp(a)   *)
(* and an allocIp that returns a leave a in the set, deleteIp(a) leaves a *)
(* out of it, and no call changes any other address.  Patricia is checked *)
(* to implement this module, with findIp's answers as the set.            *)
(***************************************************************************)
CONSTANTS Addrs, NULL

VARIABLES
    addrs,      \* the addresses held
    call        \* the last call: [op, addr], or NULL before the first

TypeOK ==
    /\ addrs \subseteq Addrs
    /\ call \in [op : {"insert", "delete"}, addr : Addrs] \cup {NULL}

Init == addrs = {} /\ call = NULL

\* A call that adds a, whether or not a was already held.
Add(a) ==
    /\ addrs' = addrs \cup {a}
    /\ call' = [op |-> "insert", addr |-> a]

\* A call that removes a, whether or not a was held.
Remove(a) ==
    /\ addrs' = addrs \ {a}
    /\ call' = [op |-> "delete", addr |-> a]

Next == \E a \in Addrs : Add(a) \/ Remove(a)

Spec == Init /\ [][Next]_<<addrs, call>>
=============================================================================
