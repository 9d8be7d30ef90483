------------------------------ MODULE MC_BitOps ------------------------------
(***************************************************************************)
(* Inputs of BitOps for TLC.                                               *)
(***************************************************************************)
EXTENDS BitOps

\* The bits of a 16-bit value n, moved up by 16 * h.
Bits16(n, h) == {16 * h + i : i \in {b \in 0..15 : (n \div 2^b) % 2 = 1}}

\* Every int with at most two bits set, -1 (all ones), INT_MIN's
\* neighbours and a few long runs of ones.
FlsInputs ==
    {{i, j} : i, j \in IntBits} \cup {{}, IntBits, 0..30, 1..31, 16..31,
                                      0..15, {0, 31} \cup 8..23}

\* NULL, small addresses around 32, the stack address 0xbffff3a4 of a
\* 32-bit Linux process, and the highest addresses with and without an
\* aligned address above them.
Ptrs32 ==
    {{}, {0}, 0..4, {5}, {0, 5}, 2..5,
     Bits16(62372, 0) \cup Bits16(49151, 1),
     5..31, 0..31, {0} \cup 5..31}

\* A 64-bit stack address, 0x00007ffd5c3a8e14, and the ILP32 ones.
Ptrs64 == Ptrs32 \cup {Bits16(36372, 0) \cup Bits16(23610, 1) \cup Bits16(32765, 2)}
=============================================================================
