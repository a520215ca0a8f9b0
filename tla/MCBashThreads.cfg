SPECIFICATION FairSpec
CONSTANTS
  Workers = 3
  Jobs = 4
  Unterminated = FALSE
  MaxKills = 1
  Timely = TRUE
  NoFile = NoFile
  Leftover = Leftover
INVARIANTS
  IInv
  SlotExclusive
  DoneMeansFinished
PROPERTIES
  StaleSlotsAvoided
  EveryLineRuns
  ManagerEnds
