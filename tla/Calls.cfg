SPECIFICATION InjectionFairSpec
CONSTANTS
  TextLen = 3
  LateText = {}
  NumHw = 1
  SwSites = {1}
  HwSites = {1}
  MmapAt = {0, 1}
CHECK_DEADLOCK FALSE
INVARIANTS InjectionTypeOK CallLeavesNothing OnlySvcRuns MprotFindsItsSvc TextIntactBetweenCalls
PROPERTIES CallsAreInvisible CallsKeepThePromise CallComesBack
