SPECIFICATION Spec
CONSTANTS
  Path <- MCPath
  Field <- MCField
  Revision <- MCRevision
  Verdict <- MCVerdict
  Contents <- MCContents
  Absent = Absent
  Unreadable = Unreadable
  p = p
  q = q
  a = a
  b = b
  bad = bad
  NumSources = 2
  Watched = {1, 2}
  Run = run
  Nobody = nobody
  Callers = {c1}
  Closers = {k1}
  Subscribers = {}
  MaxChanges = 1
  MaxReloads = 1
INVARIANTS OneRebuildAtATime ReloadSeesPriorWrites NoLostInvalidation NothingLeftBehind
PROPERTY QuietAfterShutdown
