SPECIFICATION ArchSpec
CONSTANTS
  Word = 1024
  OptionSets <- SomeOptions
  Leftover <- Memory2
INVARIANT ClockIsOption
CHECK_DEADLOCK FALSE
