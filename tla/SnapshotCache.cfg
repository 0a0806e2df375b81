SPECIFICATION PublicationSpec
CONSTANTS
    c1 = c1
    c2 = c2
    Clients <- MCClients
    NoClient = NoClient
    Versions = {0, 1}
    Args = {"a", "b"}
    MaxEdits = 2
    MaxSaves = 2
    MayFail = TRUE
INVARIANTS
    LoadsIntact
    KeyedReuse
PROPERTIES
    ImplementsStore
    RunsEnd
    PublishesOne
