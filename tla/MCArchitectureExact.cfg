SPECIFICATION ArchSpec
CONSTANTS
  Word = 1024
  OptionSets <- SomeOptions
  Leftover <- Memory2
INVARIANT WholeCyclesExact
CHECK_DEADLOCK FALSE
