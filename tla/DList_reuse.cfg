\* Four foo nodes; a node dequeued earlier may be enqueued again.
\* Do the links still describe the caller's nodes?
CONSTANTS
    n0 = n0
    n1 = n1
    n2 = n2
    n3 = n3
    n4 = n4
    Nodes = {n0, n1, n2, n3}
    Data <- MCData
    NULL = NULL
    HANG = HANG
    CRASH = CRASH
    Reuse = TRUE
SPECIFICATION Spec
INVARIANT WellFormed
