CONSTANTS
    r1 = r1
    r2 = r2
    r3 = r3
    Requests <- ThreeRequests
    ContextLen <- MixedPrompts
    MaxTokens <- Outputs3
    Policies <- AllPolicies
    max_batch_size = 2
    max_num_tokens = 1
    block_size = 2
    max_blocks = 5
SPECIFICATION Spec
CHECK_DEADLOCK FALSE
INVARIANTS
    BudgetRespected
