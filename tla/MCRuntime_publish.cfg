SPECIFICATION Spec
CONSTANTS
  Path <- MCPath
  Field <- MCField
  Revision <- MCRevision
  Verdict <- MCVerdict
  Contents <- MCOneSource
  Absent = Absent
  Unreadable = Unreadable
  p = p
  q = q
  a = a
  b = b
  bad = bad
  NumSources = 1
  Watched = {1}
  Run = run
  Nobody = nobody
  Callers = {c1}
  Closers = {}
  Subscribers = {s1, s2}
  MaxChanges = 1
  MaxReloads = 1
SYMMETRY MCSymmetry
INVARIANTS FeedInv SendNeverBlocks SubscriberKnowsCurrent
PROPERTIES ReceivedEventsReplay ImplementsFeed
