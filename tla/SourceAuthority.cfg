SPECIFICATION Spec
CONSTANTS
    root = root
    leaf = leaf
    packaged = packaged
    shouted = shouted
    Paths = {root, leaf, packaged, shouted}
    Texts = {"v1", "cr", "empty"}
    LoneCr = "cr"
    Empty = "empty"
    Infra = {packaged}
    Odd = {shouted}
    Roots = {root}
    DirOf <- MCDirOf
    Regimes <- MCRegimes
    None = None
INVARIANTS
    PassInv
    NoFalseRefusal
CHECK_DEADLOCK FALSE
