SPECIFICATION NodeSpec
CONSTANTS
    Part = {"assign", "driver", "ring"}
    Members = 5
    MaxLoad = 12
    MaxStarts = 3
    n1 = n1
    n2 = n2
    n3 = n3
    k1 = k1
    k2 = k2
    k3 = k3
    Node = {n1, n2, n3}
    Key = {k1, k2, k3}
    VNodesPerNode = 2
    Hash <- MCHash
    SuspectAfter = 1
    DownAfter = 2
INVARIANT RingMatchesNodes
PROPERTIES AssignsLeastLoaded LastStopHaltsAll MigrationExact  DeadLeaveRing
CHECK_DEADLOCK FALSE
