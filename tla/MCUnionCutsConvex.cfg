SPECIFICATION Spec
CONSTANTS
  Graphs <- Detour
  Ports <- WidePorts
INVARIANT ConvexPatterns
