SPECIFICATION Spec
CONSTANTS
    Launchers = {l1, l2}
    Raws = {h1}
    Order <- MCOrder
    Tool = "gate"
    Umbrella <- MCUmbrella
    BatchSize = 1
    PoolSize = 2
    Budgets <- MCBudgets
    None = None
SYMMETRY MCSymmetry
INVARIANTS
    CapabilityInv
    PassIsGrounded
    NoFalseRefusal
