SPECIFICATION Spec
CONSTANTS
  Graphs <- ChainGraphs
  Ports <- ChainPorts
INVARIANT ConvexCuts
