SPECIFICATION FairSpec
CONSTANTS
  Path <- MCPath
  Field <- MCField
  Revision <- MCRevision
  Verdict <- MCVerdict
  Contents <- MCHeld
  Absent = Absent
  Unreadable = Unreadable
  p = p
  q = q
  a = a
  b = b
  bad = bad
  NumSources = 1
  Watched = {1}
  Run = run
  Nobody = nobody
  Callers = {c1}
  Closers = {k1}
  Subscribers = {}
  MaxChanges = 2
  MaxReloads = 1
PROPERTIES AcceptedNeverRegresses Converges CallsEnd
