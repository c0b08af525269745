SPECIFICATION Spec
CONSTANTS
    Part = {"shards", "policies", "solvers"}
    Shard = {s1, s2}
    Recorder = {g1, g2}
    MaxRequests = 2
    Slow = 1
    Policy = {1, 2}
    Obs <- MCObs
    MaxObs = 5
    SampleScale = 10
    Solver = {v1, v2}
    Duration = {1, 7}
    Constraints <- MCConstraints
    MaxResults = 3
INVARIANTS  PercentileNearSample AlertsExact SamplesWithinCounts
CHECK_DEADLOCK FALSE
