SPECIFICATION Spec
CONSTANTS
    alice = alice
    bob = bob
    carol = carol
    Proc = {alice, bob, carol}
    sdm = sdm
    wasm = wasm
    c1 = c1
    c2 = c2
    Slugs = {sdm, wasm}
    Contents = {c1, c2}
    Citations <- MCCitations
    Malformed = {"scrawl"}
    Paged = {sdm}
    Pointed = {}
    Finds <- MCFinds
    InRange = {"pages"}
    Regimes <- MCOneProcess
    Pinned = c1
    Author = Author
    Missing = Missing
    Partial = Partial
    Broken = Broken
    Down = Down
    None = None
INVARIANTS
    AcknowledgedWasReported
CHECK_DEADLOCK FALSE
