SPECIFICATION FairSpec
CONSTANTS
  Objects = {"a", "b"}
  Protected = {"b"}
  Ignored = {}
  Revisions = {"r1", "r2"}
  Paths = {"p1"}
  Manifests <- MCManifests
  SourceRefs <- MCOneSource
  Namespace = "apps"
  Specs <- MCLive
  NoCrossNamespaceRefs = TRUE
  AllowExternalArtifact = FALSE
  CancelHealthCheckOnRequeue = TRUE
  Faults = {"patch", "torn", "prune", "health", "crash", "drift", "termination"}
  MaxFaults = 1
  MaxGeneration = 1
  MaxRequests = 1
  SourceSteps <- MCRevert
  MaxSourceMoves = 2
PROPERTIES
  EventuallyCurrent
  DeletionCompletes
  RequestIsHandled
CHECK_DEADLOCK FALSE
