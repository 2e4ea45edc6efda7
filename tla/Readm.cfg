SPECIFICATION Spec
CONSTANTS
  TypedWords <- Typed
  PrefixesOf <- TypedPrefixes
  MaxArgs = 2
  MaxParams = 1
CHECK_DEADLOCK FALSE
INVARIANT ReadmReadsMemory
