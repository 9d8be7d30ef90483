-------------------------------- MODULE BitOps --------------------------------
(***************************************************************************)
(* src/fls.c (BIT_fls, BIT_ffs and main) and src/align_size.c (align_up  *)
(* and main).  TLC's integers are 32-bit and signed, so a machine word is *)
(* the set of its bit positions that are 1: & is \cap, ~ is the           *)
(* complement within the word, and the shifts move positions.  A value   *)
(* of type int is its two's complement bit pattern, so >> on an int with  *)
(* bit 31 set shifts ones in (gcc's arithmetic shift).                   *)
(*                                                                         *)
(* Each behaviour is one run of one of the two programs: fls.c's main on  *)
(* the int sscanf parsed, or align_size.c's main on the address of its    *)
(* local and the size it passes.                                          *)
(***************************************************************************)
EXTENDS Integers, FiniteSets, FiniteSetsExt

CONSTANTS
    Inputs,     \* the ints fls.c's main may be given, as bit sets
    PtrBits,    \* 32 (ILP32) or 64 (LP64): the width of void * and size_t
    Ptrs,       \* addresses &a may have, as bit sets below PtrBits
    SizeExps,   \* align_up's size is 2^k for k in SizeExps
    None

ASSUME PtrBits \in {32, 64}

IntBits == 0..31            \* int and unsigned int
PtrWord == 0..PtrBits - 1   \* void * and size_t, all ones

VARIABLES
    tval,       \* fls.c main: the int it was given
    fls_out,    \* the values it printed
    ffs_out,
    ptr,        \* align_size.c main: p = &a
    size,
    align_p     \* the value it printed

vars == <<tval, fls_out, ffs_out, ptr, size, align_p>>

TypeOK ==
    /\ tval \in SUBSET IntBits \cup {None}
    /\ fls_out \in IntBits \cup {None}
    /\ ffs_out \in IntBits \cup {None}
    /\ ptr \in SUBSET PtrWord \cup {None}
    /\ size \in SUBSET PtrWord \cup {None}
    /\ align_p \in SUBSET PtrWord \cup {None}

-----------------------------------------------------------------------------
(***************************************************************************)
(* fls.c                                                                   *)
(***************************************************************************)

\* Mutant: 0xC typed as 0x8.
binary_mask_8 == <<16..31, 8..15, 4..7, {3}, {1}>>

\* binary_mask[] = { 0xFFFF0000, 0x0000FF00, 0x000000F0, 0xC, 0x2 }
binary_mask == <<16..31, 8..15, 4..7, 2..3, {1}>>
\* Mutant: the last step of the search counted as 2.
binary_tree_2 == <<16, 8, 4, 2, 2>>

\* binary_tree[] = { 16, 8, 4, 2, 1 }
binary_tree == <<16, 8, 4, 2, 1>>
NMASK == 5

\* v >> k on an int: arithmetic, bit 31 is copied into the k top bits.
ASR(v, k) ==
    {i - k : i \in {b \in v : b >= k}} \cup (IF 31 \in v THEN 32 - k..31 ELSE {})

\* The for loop of BIT_fls, from mask i on.
RECURSIVE FlsLoop(_, _, _)
FlsLoop(x, i, rshift) ==
    IF i > NMASK THEN rshift
    ELSE LET y == x \cap binary_mask[i] IN
         IF y # {}
         THEN FlsLoop(ASR(y, binary_tree[i]), i + 1, rshift + binary_tree[i])
         ELSE FlsLoop(x, i + 1, rshift)

BIT_fls(x) == FlsLoop(x, 1, 0)

\* Mutant: rshift is increased but x is not shifted.
FfsStep_noshift(s, mask2, k) ==
    IF s.x \cap mask2 = {} THEN [x |-> s.x, rshift |-> s.rshift + k] ELSE s

\* One step of BIT_ffs: if x & mask2 is 0, add k to rshift and shift x.
FfsStep(s, mask2, k) ==
    IF s.x \cap mask2 = {} THEN [x |-> ASR(s.x, k), rshift |-> s.rshift + k]
    ELSE s

\* mask2 = 0x0000FFFF, 0x000000FF, 0x0000000F, 0x3, 0x1 in turn; the last
\* step only adds 1 to rshift, the shift of x it would do is never read.
BIT_ffs(x) ==
    LET s0 == [x |-> x, rshift |-> 0]
        s1 == FfsStep(s0, 0..15, 16)
        s2 == FfsStep(s1, 0..7, 8)
        s3 == FfsStep(s2, 0..3, 4)
        s4 == FfsStep(s3, 0..1, 2)
    IN FfsStep(s4, {0}, 1).rshift

\* main: sscanf gave tval (Init); print BIT_fls(tval), then BIT_ffs(tval).
fls_main ==
    /\ tval # None /\ fls_out = None
    /\ fls_out' = BIT_fls(tval)
    /\ ffs_out' = BIT_ffs(tval)
    /\ UNCHANGED <<tval, ptr, size, align_p>>

-----------------------------------------------------------------------------
(***************************************************************************)
(* align_size.c                                                            *)
(***************************************************************************)

\* a + b on PtrBits-bit words, modulo 2^PtrBits: a ripple-carry adder
\* from bit i with carry c.
RECURSIVE AddFrom(_, _, _, _)
AddFrom(a, b, i, c) ==
    IF i = PtrBits THEN {}
    ELSE LET n == (IF i \in a THEN 1 ELSE 0) + (IF i \in b THEN 1 ELSE 0) + c
         IN (IF n % 2 = 1 THEN {i} ELSE {}) \cup AddFrom(a, b, i + 1, n \div 2)

Add(a, b) == AddFrom(a, b, 0, 0)

\* Mutant: result = ptr + size, without the - 1.
align_up_nominus(p, s) ==
    LET result == Add(p, s)
        mask == PtrWord \ Add(s, PtrWord)
    IN (result \cap IntBits) \cap mask

\* result = ptr + size - 1; then (unsigned int) result keeps its low 32
\* bits, & ~(size - 1) is taken in size_t, and the void * cast zero-extends.
align_up(p, s) ==
    LET result == Add(Add(p, s), PtrWord)
        mask == PtrWord \ Add(s, PtrWord)
    IN (result \cap IntBits) \cap mask

align_main ==
    /\ ptr # None /\ align_p = None
    /\ align_p' = align_up(ptr, size)
    /\ UNCHANGED <<tval, fls_out, ffs_out, ptr, size>>

-----------------------------------------------------------------------------
\* One run of one of the two programs.
Init ==
    /\ fls_out = None /\ ffs_out = None /\ align_p = None
    /\ \/ /\ tval \in Inputs
          /\ ptr = None /\ size = None
       \/ /\ ptr \in Ptrs /\ size \in {{k} : k \in SizeExps}
          /\ tval = None

\* The program has printed its result and exits.
Exited ==
    /\ fls_out # None \/ align_p # None
    /\ UNCHANGED vars

Next == fls_main \/ align_main \/ Exited

Spec == Init /\ [][Next]_vars
-----------------------------------------------------------------------------
(***************************************************************************)
(* Properties, against reference definitions.                              *)
(***************************************************************************)

\* BIT_fls returns the position of the highest set bit of every non-zero
\* int, negative ones included: the binary search of its loop shifts the
\* masked value with the int's arithmetic >>, which brings ones back in.
FlsFindsLastSet == fls_out # None /\ tval # {} => fls_out = Max(tval)

\* BIT_ffs returns the position of the lowest set bit of every non-zero
\* int: its five halving steps shift x only when the low half is zero.
FfsFindsFirstSet == ffs_out # None /\ tval # {} => ffs_out = Min(tval)

\* The least multiple of 2^k at or above p, when the address space has one:
\* p itself if its k low bits are clear, else p with them cleared plus 2^k.
HasCeiling(p, k) == p \cap 0..k-1 = {} \/ \E i \in k..PtrBits-1 : i \notin p
Ceiling(p, k) ==
    IF p \cap 0..k-1 = {} THEN p
    ELSE LET j == Min({i \in k..PtrBits-1 : i \notin p}) IN (p \ 0..j-1) \cup {j}

\* align_up(p, size) is the least multiple of size at or above p, for a
\* power of two size, whenever the address space holds one: ptr + size - 1
\* must not lose bits, in the cast to unsigned int or by wrapping.
AlignUpIsCeiling ==
    LET k == CHOOSE e \in SizeExps : size = {e} IN
    align_p # None /\ HasCeiling(ptr, k) => align_p = Ceiling(ptr, k)
=============================================================================
