\* One 128-byte chunk at an address aligned to its size, eight free
\* lists (blocks up to 128 bytes in a 256-byte address space), and
\* requests that need the minimum size, rounding and splitting.
CONSTANTS
    MAX_BLOCK_SIZE = 8
    Base = 128
    ChunkSize = 128
    MaxChunks = 1
    Sizes = {8, 24, 64}
    NULL = NULL
    HANG = HANG
    CRASH = CRASH
SPECIFICATION AllocSpec
INVARIANT TypeOK
INVARIANT BlocksTileChunk
PROPERTY AllocFailsOnlyWhenExhausted
