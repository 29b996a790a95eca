SPECIFICATION PartsSpec
CONSTANTS
  None = None
  Snake <- SnakeDef
  Json <- JsonDef
  Broken <- BrokenDef
  Readings <- InputsDef
  Inputs <- HealthyLayers
  Selections <- SelectionsDef
  Unions <- UnionsDef
  Disc = "d"
  Keys <- KeysDef
  Scalars <- ScalarsDef
  Lists <- ListsDef
  MaxLayers = 3
  FilteredIsLast = TRUE
CHECK_DEADLOCK FALSE
INVARIANTS BoundAsDue YamlIsUnfolded DocumentsAreWhole RevisionTells OriginsExplainValues
INVARIANTS MergeIsPathwise ChangesAreRecorded RestUntouched SelectedIsWhole
