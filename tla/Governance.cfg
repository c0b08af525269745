SPECIFICATION GovernanceSpec
CONSTANTS
    Part = {"lifecycle", "deployment", "schemas", "audit"}
    Version = {1, 2}
    Actor = {a1, a2, a3}
    Approvers = {a1, a2}
    Required = 2
    Operator = {o1, o2}
    MaxDeploys = 2
    Policy = {p1}
    Deployer = {d1}
    Id = {"a", "b"}
    SchemaVersion <- MCSchemaVersion
    Registrar = {r1}
    MaxSchemas = 3
    Tier = {cel, z3}
    Recorder = {g1, g2}
    maxLen = 2
    MaxTime = 2
    MaxRecords = 4
INVARIANTS NoDeployUnapproved OneRollbackPerDeploy  ChainEndsAtOldest TrailIsSuffix
CHECK_DEADLOCK FALSE
