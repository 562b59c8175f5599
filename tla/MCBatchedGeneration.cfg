CONSTANTS
    a = a
    eos = eos
    Token <- TwoTokens
    eos_token_id = eos
    Prompts <- ThreePrompts
    max_tokens = 4
    MaxBatch = 2
    MaxCalls = 2
SPECIFICATION Spec
INVARIANTS BatchedEqualsSerial RowContext
CHECK_DEADLOCK FALSE
