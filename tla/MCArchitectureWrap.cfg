SPECIFICATION ArchSpec
CONSTANTS
  Word = 1024
  OptionSets <- SomeOptions
  Leftover <- Memory2
INVARIANT FreeTransfersAreFree
CHECK_DEADLOCK FALSE
