CONSTANTS
    r1 = r1
    r2 = r2
    r3 = r3
    greedy = greedy
    top_k = top_k
    Requests <- ThreeRequests
    ContextLen <- Prompts
    MaxTokens <- Outputs
    Blocks <- OneBlock
    Strategy <- TwoStrategies
    Setups <- AllSetups
    Cancellable <- CancelledOne
    MaxRaises = 1
    max_batch_size = 2
    max_num_tokens = 3
    max_blocks = 2
SPECIFICATION Spec
INVARIANTS
    OwnNextToken
    FedInOrder
    DeliveredOnce
PROPERTIES
    EveryRequestFinishes
