\* Cache of 2 ids, 12 calls (the id_init and five swaps): main never blocks
\* for good on s2.
CONSTANTS
    CacheSize = 2
    MaxCalls = 12
SPECIFICATION Spec
INVARIANT TypeOK
PROPERTY MainCompletes
