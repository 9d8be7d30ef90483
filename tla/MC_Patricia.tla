----------------------------- MODULE MC_Patricia -----------------------------
(***************************************************************************)
(* Inputs of Patricia for TLC.                                             *)
(***************************************************************************)
EXTENDS Patricia

\* _main's addresses are all 172.x.y.z: the top bit is set.
HighAddrs == {a \in AddrSpace : a >= MSB}

\* Subnets as allocIp is called with them: a network address, its host
\* bits clear, and the mask.  Those at MSB cannot run past the top of the
\* address space when full; the top subnet can (MC_Patricia_wrap.cfg).
LowSubnets == {[key |-> MSB, mask |-> m] : m \in {W - 2, W - 1}}
TopSubnets == {[key |-> 2^W - 4, mask |-> W - 2]}
\* bitIndex's two negative results.
MinusOne == -1
MinusTwo == -2
=============================================================================
