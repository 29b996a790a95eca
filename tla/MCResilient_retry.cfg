SPECIFICATION RegisteringSpec
CONSTANTS
  Runtimes = {r1}
  Watchable = TRUE
  Lo = 1
  Hi = 3
  MaxChanges = 2
  MaxCalls = 1
INVARIANTS IInv NoLostWakeup
PROPERTIES StopIsFinal ShownNeverRegresses RetriedWhileFailing RecoveryShownUndisturbed StopEnds
