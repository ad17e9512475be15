SPECIFICATION FairSpec
CONSTANTS
  Dirs = {"d1", "d2", "d3"}
  Files = {"f1", "f2"}
  Top = "d1"
  Formats = {"yaml", "json", "binary"}
  SameMarker <- MCSameMarker
  Trees <- MCTrees
INVARIANTS
  SourcesDecrypted
  DepthBounded
PROPERTIES
  OnlyReferencesChange
  Terminates
CHECK_DEADLOCK FALSE
