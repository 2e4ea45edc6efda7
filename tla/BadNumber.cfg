SPECIFICATION Spec
CONSTANTS
  TypedWords <- Breakpoint
  PrefixesOf <- BreakpointPrefixes
  MaxArgs = 1
  MaxParams = 1
CHECK_DEADLOCK FALSE
PROPERTY MistypedNumbersAreReported
