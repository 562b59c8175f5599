CONSTANTS
    r1 = r1
    r2 = r2
    r3 = r3
    NoRequest = NoRequest
    Requests <- ThreeRequests
    ContextLen <- OneLongPrompt
    MaxTokens <- LongOutput
    Policies <- BothPolicies
    max_batch_size = 2
    max_num_tokens = 2
    block_size = 2
    max_blocks = 4
    NumBlocks = 4
    HasResourceManager = TRUE
    Cancellable <- TwoRequests
    MaxForwardErrors = 1
SPECIFICATION FairSpec
INVARIANTS
    TypeOK
    TableCovers
    GuaranteeKept
    OnlyErrorsStrand
    InOneQueue
    ResponsesInOrder
    PrefillBeforeDecode
    BlocksOfActive
PROPERTIES
    TransitionsLegal
    EveryRequestFinishes
    CancelledLeaves
