SPECIFICATION AllocSpec
CONSTANTS
    Requests = {1, 20, 40}
    PageSize = 64
    MaxPages = 4
    MaxTotal = 112
INVARIANTS
    HeapInv
    ObligationsExact
    BlocksDisjoint
