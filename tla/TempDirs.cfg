SPECIFICATION FairSpec
CONSTANTS
  Workers = {"w1", "w2"}
  Artifacts = {"k1", "k2", "k3", "k4", "k5"}
  Homes = {"g1"}
  MaxKills = 2
  MaxTroubles = 1
INVARIANTS
  InUseIsSafe
PROPERTIES
  LeftoversArePurged
