SPECIFICATION Spec
CONSTANTS
  Graphs <- UpTo4
  Ports <- MCPorts
  NumCuts = {1, 2, 3}
INVARIANTS
  SearchInv
  AssertionsHold
PROPERTY ImplementsSingleCut
