SPECIFICATION FairSpec
CONSTANTS
  NumWords = 3
  NumAreas = 2
  AreaOf <- TwoAreas
  Values = {v1, v2}
  MaxHits = 2
  UserAddrs = {2}
CHECK_DEADLOCK FALSE
INVARIANTS TypeOK HitsAreCandidates RestoreCoversAllHits
PROPERTIES ImplementsNarrowing RestoreLacksOnlyItsLast LoopsEnd
