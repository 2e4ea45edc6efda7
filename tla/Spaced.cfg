SPECIFICATION Spec
CONSTANTS
  TextLen = 5
  LateText = {}
  NumHw = 2
  SwSites = {0, 2}
  HwSites = {3, 4}
CHECK_DEADLOCK FALSE
INVARIANTS TypeOK TextIntact
PROPERTIES TrapGoesOnlyByItsHit CauseCleared HwSlotsAboveHitSurvive ImplementsOneShot
