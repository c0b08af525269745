SPECIFICATION Spec
CONSTANTS
    Node = {n1, n2, n3}
    Order <- DeclaredOrder
    Nil = Nil
    HeartbeatTicks = 1
    ElectionTicksMin = 3
    ElectionTicksMax = 5
    QuorumLossTicks = 2
    QuorumAckTicks = 1
    MaxTerm = 3
    MaxFaults = 2
INVARIANTS BoundedLease BoundedFailover
