SPECIFICATION Spec
CONSTANTS
  NumWords = 3
  NumAreas = 2
  AreaOf <- TwoAreas
  Values = {v1, v2}
  MaxHits = 2
  UserAddrs = {}
CHECK_DEADLOCK FALSE
PROPERTY RestoreReachesTheProcess
