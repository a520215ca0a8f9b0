SPECIFICATION FairSpec
CONSTANTS
  Graphs <- MCGraphs
  Ports <- MCPorts
INVARIANTS
  UnionInv
  FoundOnce
  FindsUpwardCones
PROPERTY Terminates
