\* fls.c's main on ints with up to two bits set and some negative ones, and
\* align_size.c's main on a 32-bit build (ILP32), sizes 1, 8, 32 and 4096.
CONSTANTS
    Inputs <- FlsInputs
    PtrBits = 32
    Ptrs <- Ptrs32
    SizeExps = {0, 3, 5, 12}
    None = None
SPECIFICATION Spec
INVARIANT TypeOK
INVARIANT FlsFindsLastSet
INVARIANT FfsFindsFirstSet
INVARIANT AlignUpIsCeiling
