SPECIFICATION Spec
CONSTANTS
    c1 = c1
    c2 = c2
    c3 = c3
    Clients <- MCClients
    NoClient = NoClient
    Timeout = 1
    HasCommitStatus = FALSE
    Faults = {"timeout"}
SYMMETRY MCSymmetry
INVARIANT Serialized
