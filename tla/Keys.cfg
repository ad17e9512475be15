SPECIFICATION Spec
CONSTANTS
  Addresses = {"v1", "v2"}
  Files = {"f1", "f2", "f3"}
  Keys <- MCKeys
  Configs <- MCConfigs
  MaxEdits = 1
INVARIANTS
  TypeOK
  PrecedenceIsKept
  OneAllowlist
PROPERTIES
  NoLoginAfterToken
CHECK_DEADLOCK FALSE
