SPECIFICATION VerificationSpec
CONSTANTS
  Part = {"symbolic", "import", "router", "composed", "sandbox", "registry"}
  GroupBits = 2
  Narrow = 3
  Wide = 5
  MaxVectorItems = 3
  MaxInstructions = 24
  MaxControlDepth = 2
  MaxExplored = 12
  DefaultDepth = 18
  MaxDepth = 20
  Caller = {"c1", "c2"}
  Queries <- MCQueries
  MaxRoutes = 2
  Stages <- MCStages
  MaxStages = 3
  MegaBits = 5
  PageBits = 3
  WordBits = 8
  Megabytes <- MCMegabytes
  Caps = {0, 1, 3}
  MaxWritten = 4
  Call = {"p1", "p2"}
  Rules = {"allow", "deny", "defer", "none", "hang"}
  MaxRules = 2
INVARIANTS PathsPartition OutputsMatch  AverageNeverUnder VerdictIsConjunction TimeoutReported FirstRuleDecides
PROPERTIES RunEnds RegisterReturns
CHECK_DEADLOCK FALSE
