SPECIFICATION Spec
CONSTANTS
  None = None
  Callers = {c1, c2}
  MaxVersions = 2
  Files = {f1, f2}
  Bound = {f1}
  Attempts = 2
  MaxGenerations = 3
  Limit = 1
  MaxSize = 3
  Confs <- ConfsDef
  Contents <- ContentsDef
  Decode <- DecodeDef
  MaxReplaced = 1
CHECK_DEADLOCK FALSE
INVARIANTS ReadsAreCurrent OneGeneration ClosedOnce LayerIsWhole
PROPERTY EveryReadEnds
