SPECIFICATION CachesSpec
CONSTANTS
    Part = {"results", "decisions"}
    Key = {a, b, c, d}
    Tag = {t, u}
    Capacity = 2
    TTLs = {1, 2}
    MaxOrder = 6
    Query = {q1, q2, q3, q4}
    Satisfiable = {q1, q2}
    Caller = {c1, c2}
    MaxEntries = 2
    FrontEnd = "verify"
SYMMETRY Symmetry
INVARIANTS TagIndexExact HoldsMostRecent OnlyCompletedCached
CHECK_DEADLOCK FALSE
