SPECIFICATION FairSpec
CONSTANTS
    c1 = c1
    c2 = c2
    c3 = c3
    Clients <- MCClients
    NoClient = NoClient
    Timeout = 2
    HasCommitStatus = TRUE
    Faults = {"crash", "timeout"}
INVARIANTS
    LockOwnedInside
    TreeInv
PROPERTIES
    ImplementsLease
    ReleaseIsQuiet
    WaitEnds
