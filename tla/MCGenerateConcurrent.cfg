CONSTANTS
    lib = lib
    chat = chat
    NoThread = NoThread
    Threads <- TwoThreads
    Prompts <- EqualPrompts
    MaxNew <- CallTokens
    Messages <- ChatRoles
    Streaming <- OneStream
    TextLens <- SomeTexts
    max_batch_size = 2
    max_num_tokens = 2
    max_blocks = 100000
    block_size = 256
    scheduling_policy = "MAX_UTILIZATION"
    chunking_policy = "FCFS"
    Slack = 200
    MaxFailures = 0
SPECIFICATION Spec
CHECK_DEADLOCK FALSE
INVARIANTS
    ResultsComplete
