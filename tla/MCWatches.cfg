SPECIFICATION Spec
CONSTANTS
  None = None
  MaxRevisions = 2
  Capacity = 1
  MaxChanges = 4
  MaxVersions = 3
  Setters = {s1, s2}
  Watchers = {w1, w2}
  MaxSets = 3
CHECK_DEADLOCK FALSE
INVARIANTS NothingOverlooked NothingLeft QuietIsCurrent
PROPERTIES ImplementsWatcher ReadsLatest StopEnds
