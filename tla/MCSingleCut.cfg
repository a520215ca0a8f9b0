SPECIFICATION Spec
CONSTANTS
  Graphs <- MCGraphs
  Ports <- MCPorts
INVARIANTS
  SearchInv
  FindsAllFeasible
