SPECIFICATION SerialSpec
CONSTANTS
    n1 = n1
    n2 = n2
    n3 = n3
    Node = {n1, n2, n3}
    Nil = Nil
    HeartbeatTicks = 1
    ElectionTicksMin = 1
    ElectionTicksMax = 2
    QuorumLossTicks = 2
    QuorumAckTicks = 1
    MaxTerm = 1
    MaxInbox = 2
    MaxFaults = 1
SYMMETRY NodeSymmetry
INVARIANTS OneLeaderPerTerm NoNilMapWrite OneVotePerTerm LeaderHasMandate
