SPECIFICATION Spec
CONSTANTS
  Objects = {"a", "b"}
  Protected = {}
  Ignored = {}
  Revisions = {"r1", "r2", "r3"}
  Paths = {"p1"}
  Manifests <- MCManifests
  SourceRefs <- MCOneSource
  Namespace = "apps"
  Specs <- MCPlain
  NoCrossNamespaceRefs = TRUE
  AllowExternalArtifact = FALSE
  CancelHealthCheckOnRequeue = TRUE
  Faults = {"apply"}
  MaxFaults = 1
  MaxGeneration = 1
  MaxRequests = 0
  SourceSteps <- MCThirdRevision
  MaxSourceMoves = 2
INVARIANTS
  ReadyLeavesNoGarbage
CHECK_DEADLOCK FALSE
