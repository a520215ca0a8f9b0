SPECIFICATION Spec
CONSTANTS
  Graphs <- Zigzag
  Ports <- WidePorts
INVARIANT OnlyUselessRemoved
