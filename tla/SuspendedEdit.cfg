SPECIFICATION Spec
CONSTANTS
  Objects = {"a", "b"}
  Protected = {}
  Ignored = {}
  Revisions = {"r1", "r2"}
  Paths = {"p1", "p2"}
  Manifests <- MCManifests
  SourceRefs <- MCOneSource
  Namespace = "apps"
  Specs <- MCSuspending
  NoCrossNamespaceRefs = TRUE
  AllowExternalArtifact = FALSE
  CancelHealthCheckOnRequeue = TRUE
  Faults = {}
  MaxFaults = 0
  MaxGeneration = 2
  MaxRequests = 0
  SourceSteps <- MCForward
  MaxSourceMoves = 0
INVARIANTS
  ObservedMeansApplied
CHECK_DEADLOCK FALSE
