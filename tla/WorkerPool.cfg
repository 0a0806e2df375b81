SPECIFICATION PoolFairSpec
CONSTANTS
    N = 5
    MaxConcurrency = 3
    Values = {one, two}
    Failed = Failed
    Lost = Lost
    None = None
INVARIANT
    AnswerIsComplete
PROPERTIES
    IsParallelMap
    Answered
CHECK_DEADLOCK FALSE
