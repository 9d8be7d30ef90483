\* create_minimal_perfecthash on main's first four items.  All four hash
\* to bucket 2 of 4.  The multiplier is odd, so the low bit of hash(d, key)
\* is that of d xor the low bits of the key's bytes, the same for all four
\* keys: for every d they need four slots of one parity and there are two,
\* so the d search never ends.  The model stops at MaxD; the program does
\* not stop.
CONSTANTS
    Inputs <- EvenInputs
    MaxD = 12
    NULL = NULL
SPECIFICATION Spec
CHECK_DEADLOCK FALSE
PROPERTY BuildTerminates
