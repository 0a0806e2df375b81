SPECIFICATION Spec
CONSTANTS
    Runs <- MCRuns
    Controls <- MCControls
    How <- MCHow
    Gate <- MCGate
    Probe <- MCProbe
    Own = Own
    Reports <- MCReports
    Blinds <- MCOneBlind
    Regimes <- MCRegimes
    LocalModules <- MCSources
    Configs <- MCConfigs
    RootOf <- MCRootOf
    Settings <- MCSettings
    Memory = 10
    ImportGraphs <- MCImportGraphs
    MaxChanges = 1
    None = None
    NotANumber = NotANumber
    Names <- MCModules
    Lakefiles <- MCLakefiles
    Graphs <- MCGraphs
    Untracked <- MCUntracked
    MaxEdits = 1
    Changing <- MCChanging
    Gone = Gone
    lake = lake
    worker = worker
    lean = lean
    helper = helper
    late = late
    Pids = {lake, worker, lean, helper, late}
    Root = lake
    Stubborn = {lean, lake}
    Denied = {helper}
    HasPsutil = TRUE
    Free = Free
    MaxLabels = 3
    Rejected = Rejected
INVARIANTS
    PassIsEarned
    CheckoutInv
    PlanInv
    WalkInv
    GreenIsNotVacuous
    CleanupInv
    StoredInv
CHECK_DEADLOCK FALSE
