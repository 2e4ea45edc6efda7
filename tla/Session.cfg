SPECIFICATION FairSpec
CONSTANTS
  TypedWords <- Typed
  PrefixesOf <- TypedPrefixes
  MaxArgs = 3
  MaxParams = 3
CHECK_DEADLOCK FALSE
INVARIANTS TypeOK IssuedAsAsked PromptNeedsProcess SessionNeverStuck
PROPERTIES StartEnds 
