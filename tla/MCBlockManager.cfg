CONSTANTS
    NumBlocks = 3
    BlockSize = 2
    PrefixCacheEnabled = TRUE
    Holders = {h1, h2, h3}
    Prompts <- PromptsSmall
    AllocateSizes = {1, 2}
    MaxLeaks = 2
    NoHolder = NoHolder
SPECIFICATION FairSpec
PROPERTIES
    PoolSpec
    CallsReturn
INVARIANTS
    TypeOK
    FreeListExact
    NothingStranded
    RefCountExact
    CacheExact
    CachePinned
    FailsOnlyWhenFull
CHECK_DEADLOCK FALSE
