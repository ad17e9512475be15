SPECIFICATION Spec
CONSTANTS
  Keys = {"app.yaml", "auth", "blob"}
  Extension <- MCExtension
  SameMarker <- MCSameMarker
  Convertible <- MCConvertible
  Configs <- MCConfigs
  Inputs <- MCInputs
INVARIANTS
  CiphertextNeverApplied
  ResultIsDetermined
CHECK_DEADLOCK FALSE
