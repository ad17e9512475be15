SPECIFICATION FairSpec
CONSTANTS
  Ks = {"infra", "apps", "tests"}
  Graphs <- MCGraphs
  WithExpr <- MCExpr
  AdditiveCELDependencyCheck = TRUE
  Sources = {"repo"}
  SourceRef <- MCSourceRef
  Revisions = {"r1", "r2"}
  First <- MCFirst
  Configs = {"vars", "keys"}
  ConfigRefs <- MCConfigRefs
  Watched = {"vars"}
  Editable = {"apps"}
  Bounds <- MCBounds
INVARIANTS
  
  NoConfigUpdateLost
PROPERTIES
  CycleNeverStarts
  RolloutCompletes
