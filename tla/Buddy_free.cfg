\* The chunk of BuddyAlloc.cfg, with frees: one allocation of 16 bytes
\* and its buddy_dealloc already leave the lists describing memory twice.
CONSTANTS
    MAX_BLOCK_SIZE = 8
    Base = 128
    ChunkSize = 128
    MaxChunks = 1
    Sizes = {16, 32}
    NULL = NULL
    HANG = HANG
    CRASH = CRASH
SPECIFICATION Spec
INVARIANT BlocksTileChunk
