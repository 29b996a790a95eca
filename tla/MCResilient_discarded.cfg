SPECIFICATION RegisteringSpec
CONSTANTS
  Runtimes = {r1}
  Watchable = FALSE
  Lo = 1
  Hi = 3
  MaxChanges = 1
  MaxCalls = 1

PROPERTIES RecoveryShown
