SPECIFICATION Spec
CONSTANTS
  Objects = {"a", "b"}
  Protected = {}
  Ignored = {}
  Revisions = {"r1", "r2"}
  Paths = {"p1", "p2"}
  Manifests <- MCManifests
  SourceRefs <- MCOneSource
  Namespace = "apps"
  Specs <- MCFailing
  NoCrossNamespaceRefs = TRUE
  AllowExternalArtifact = FALSE
  CancelHealthCheckOnRequeue = TRUE
  Faults = {"api", "account", "patch", "fetch", "build", "apply", "prune", "health", "crash", "drift"}
  MaxFaults = 2
  MaxGeneration = 2
  MaxRequests = 0
  SourceSteps <- MCForward
  MaxSourceMoves = 1
INVARIANTS
  TypeOK
  ReadyMeansOneBuild
  ObservedMeansApplied
  NoSilentStop
PROPERTIES
  InventoryNeverForgets
  FinalizedMeansCollected
  OwnershipIsKept
CHECK_DEADLOCK FALSE
