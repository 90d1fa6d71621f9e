CONSTANTS
    MaxAddr = 5
    MaxSize = 3
    MaxAppends = 3
    NullPtr = 0
SPECIFICATION Spec
INVARIANT ChunksDisjoint
INVARIANT ChunksCoverRegistered
