SPECIFICATION FairSpec
CONSTANTS
  Workers = 2
  Jobs = 3
  Unterminated = TRUE
  MaxKills = 0
  Timely = TRUE
  NoFile = NoFile
  Leftover = Leftover
PROPERTY EachJobIsExecuted
