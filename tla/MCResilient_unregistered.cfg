SPECIFICATION FairSpec
CONSTANTS
  Runtimes = {r1}
  Watchable = TRUE
  Lo = 1
  Hi = 3
  MaxChanges = 1
  MaxCalls = 0

PROPERTIES RetriedWhileFailing
