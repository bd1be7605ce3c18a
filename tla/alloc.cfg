SPECIFICATION Spec
CONSTANTS
    Sizes <- MCSizes
    NDPPD_CHUNK_ALLOC_SIZE = 48
    NDPPD_CHUNK_ALLOC_MAX = 64
    NDPPD_MAX_ALLOC = 16
    SIZEOF_CHUNK = 20
    MAXCHUNKS = 2
INVARIANTS
    NoOverlap
    PeakIsFloor
    ChunksFilled
CHECK_DEADLOCK FALSE
