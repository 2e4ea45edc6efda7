SPECIFICATION FairSpec
CONSTANTS
  Named = {"read", "readahead", "clone", "futex", "execve"}
  PluginNames = {"read", "rea", "template"}
  Begins <- BeginsOf
  Read = "read"
  Skipped = {"futex"}
  Clone = "clone"
  Rewriting = {"execve"}
  Unlisted = "unlisted"
  Outside = "outside"
CHECK_DEADLOCK FALSE
INVARIANTS TypeOK ToggleRight TracerNeverStuck
PROPERTIES ReadShowsItsOwnBuffer ImplementsCallPairs StraceEnds
