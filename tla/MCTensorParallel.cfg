CONSTANTS
    WorldSizes <- OneOrTwo
    vocab_size = 4
    hidden_size = 2
    num_heads = 4
    num_kv_heads = 2
    intermediate_size = 2
    Weight <- Weights
    Bias <- Biases
    Attend <- AttendTo
    Activate <- Gate
    MaxRounds = 2
    MaxReinits = 1
SPECIFICATION Spec
INVARIANT ForwardExact
PROPERTY WorkersFinish
CHECK_DEADLOCK FALSE
