SPECIFICATION ArchSpec
CONSTANTS
  Word = 1024
  OptionSets <- SomeOptions
  Leftover <- Memory2
INVARIANTS
  SettingsInv
  OverheadMonotone
  CyclesCover
CHECK_DEADLOCK FALSE
