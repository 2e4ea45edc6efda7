SPECIFICATION InjectionSpec
CONSTANTS
  TextLen = 4
  LateText = {}
  NumHw = 0
  SwSites = {}
  HwSites = {}
  MmapAt = {0}
CHECK_DEADLOCK FALSE
INVARIANT SvcAtPrivateMemory
