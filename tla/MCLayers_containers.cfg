SPECIFICATION PartsSpec
CONSTANTS
  None = None
  Snake <- SnakeDef
  Json <- JsonDef
  Broken <- BrokenDef
  Readings <- TakeoverInputs
  Inputs = {}
  Selections <- SelectionsDef
  Unions <- UnionsDef
  Disc = "d"
  Keys <- KeysDef
  Scalars <- ScalarsDef
  Lists <- ListsDef
  MaxLayers = 2
  FilteredIsLast = TRUE
CHECK_DEADLOCK FALSE
INVARIANT ContainersAreJson
