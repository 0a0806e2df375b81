SPECIFICATION FairSpec
CONSTANTS
    Table <- MCTable
    Group <- MCGroup
    Slow = {"wasm_fuzzer"}
    Tools <- MCTools
    DependsOn <- MCDependsOn
    AllowSkip = {"test_spike1_wasm"}
    Options <- MCOptions
    Cpus = 4
    NoShard = NoShard
INVARIANTS
    OnePlace
    StartsAfterDependencies
    RowsInv
    SuccessIsEarned
PROPERTY Terminates
