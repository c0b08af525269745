SPECIFICATION CacheSpec
CONSTANTS
    Process = {p1}
    Slot = {1, 2}
    Key = {k1, k2}
    Tag = {t, u}
INVARIANT ReachableByTag
PROPERTY CallsEnd
