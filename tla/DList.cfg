\* Four foo nodes, each enqueued at most once as in _main, sorted and
\* unsorted lists, ROUND2 rounding up to even.
CONSTANTS
    n0 = n0
    n1 = n1
    n2 = n2
    n3 = n3
    n4 = n4
    Nodes = {n0, n1, n2, n3}
    Data <- MCData
    NULL = NULL
    HANG = HANG
    CRASH = CRASH
    Reuse = FALSE
SPECIFICATION Spec
INVARIANT TypeOK
INVARIANT WellFormed
INVARIANT SortedList
INVARIANT NoHang
PROPERTY FindIsComplete
