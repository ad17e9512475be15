SPECIFICATION Spec
CONSTANTS
  Objects = {"a", "b", "c"}
  Protected = {}
  Ignored = {"c"}
  Revisions = {"r1", "r2"}
  Paths = {"p1"}
  Manifests <- MCManifests
  SourceRefs <- MCTwoSources
  Namespace = "apps"
  Specs <- MCStalling
  NoCrossNamespaceRefs = TRUE
  AllowExternalArtifact = FALSE
  CancelHealthCheckOnRequeue = TRUE
  Faults = {"api", "dependency", "fetch", "build", "prune", "health", "drift"}
  MaxFaults = 1
  MaxGeneration = 2
  MaxRequests = 0
  SourceSteps <- MCForward
  MaxSourceMoves = 2
INVARIANTS
  NoSilentStop
  QuietIsCurrent
  GarbageIsTracked
CHECK_DEADLOCK FALSE
