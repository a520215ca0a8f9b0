SPECIFICATION FairSpec
CONSTANTS
  Workers = 2
  Jobs = 3
  Unterminated = FALSE
  MaxKills = 0
  Timely = FALSE
  NoFile = NoFile
  Leftover = Leftover
INVARIANT DoneMeansFinished
