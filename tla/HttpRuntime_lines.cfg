SPECIFICATION FairSpec
CONSTANTS
    Bytes <- MCBytes
    CR = "CR"
    LF = "LF"
    Budget = 3
    ReadChunk = 2
    Targets <- MCTargets
    Queues <- MCQueues
INVARIANTS
    AnswersByLine
    ObservesExactly
    TransfersTile
PROPERTY AllServed
