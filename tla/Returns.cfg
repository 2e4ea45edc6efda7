SPECIFICATION FairSpec
CONSTANTS
  TextLen = 4
  LateText = {3}
  NumHw = 1
  SwSites = {0, 1, 2}
  HwSites = {1, 2}
CHECK_DEADLOCK FALSE
INVARIANTS RunsOnlyWhileAwaited DamageConfined OriginalKept WaitsCanEnd
PROPERTIES NextReturns ContinueComesBack ExitEndsSession
