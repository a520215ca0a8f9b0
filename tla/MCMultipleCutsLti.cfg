SPECIFICATION Spec
CONSTANTS
  Graphs <- UpTo3
  Ports <- MCPorts
  NumCuts = {2}
INVARIANT LtisFresh
