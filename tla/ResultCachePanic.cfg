SPECIFICATION Spec
CONSTANTS
    Key = {a, b, c}
    Tag = {t, u}
    Capacity = 2
    TTLs = {1, 2}
    MaxOrder = 5
SYMMETRY Symmetry
CHECK_DEADLOCK FALSE
INVARIANT EvictionReturns
