SPECIFICATION Spec
CONSTANTS
  TextLen = 4
  LateText = {}
  NumHw = 2
  SwSites = {0}
  HwSites = {}
CHECK_DEADLOCK FALSE
INVARIANT NoForeignFault
