CONSTANTS
    r1 = r1
    r2 = r2
    r3 = r3
    NoRequest = NoRequest
    Requests <- TwoRequests
    ContextLen <- Contexts
    MaxTokens <- Outputs
    Policies <- GuaranteedFcfs
    max_batch_size = 2
    max_num_tokens = 3
    block_size = 2
    max_blocks = 3
    NumBlocks = 3
    HasResourceManager = TRUE
    Cancellable = {r2}
    MaxForwardErrors = 0
SPECIFICATION Spec
INVARIANT
    NeverRaises
