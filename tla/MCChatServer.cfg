CONSTANTS
    lib = lib
    chat = chat
    NoThread = NoThread
    Threads <- TwoThreads
    Prompts <- CallPrompts
    MaxNew <- CallTokens
    Messages <- ChatRoles
    Streaming <- OneStream
    TextLens <- SomeTexts
    max_batch_size = 3
    max_num_tokens = 2
    max_blocks = 100000
    block_size = 256
    scheduling_policy = "GUARANTEED_NO_EVICT"
    chunking_policy = "EQUAL_PROGRESS"
    Slack = 0
    MaxFailures = 1
SPECIFICATION Spec
CHECK_DEADLOCK FALSE
INVARIANTS
    InitOnce
    SequentialExact
    StreamExact
PROPERTIES
    CallsReturn
