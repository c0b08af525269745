CONSTANTS
    r1 = r1
    r2 = r2
    r3 = r3
    Region = {r1, r2, r3}
    Fleets <- BothFleets
    Writer <- TwoWriters
    Mode = "sync"
    SkewedClocks = FALSE
    MaxPuts = 2
    MaxDeletes = 1
    MaxHealth = 1
    MaxFailures = 1
SPECIFICATION Spec
PROPERTY Converges
