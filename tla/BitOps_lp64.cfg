\* fls.c's main on ints with up to two bits set and some negative ones, and
\* align_size.c's main on a 64-bit build (LP64), sizes 1, 8, 32 and 4096.
CONSTANTS
    Inputs <- FlsInputs
    PtrBits = 64
    Ptrs <- Ptrs64
    SizeExps = {0, 3, 5, 12}
    None = None
SPECIFICATION Spec
INVARIANT AlignUpIsCeiling
