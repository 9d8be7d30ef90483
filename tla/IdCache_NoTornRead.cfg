\* Cache of 2 ids, 12 calls: NoTornRead.
CONSTANTS
    CacheSize = 2
    MaxCalls = 12
SPECIFICATION Spec
INVARIANT NoTornRead
