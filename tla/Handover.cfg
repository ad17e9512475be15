SPECIFICATION FairSpec
CONSTANTS
  Ks = {"old", "new"}
  Objects = {"a", "b"}
  Revisions = {"r1", "r2", "r3"}
  Manifests <- MCManifests
  First = "r1"
  Concurrent = 2
  Removable = {"old"}
  MaxMoves = 2
  MaxFaults = 2
INVARIANTS
  LabelIsTracked
PROPERTIES
  ForeignIsSpared
  HandoverCompletes
