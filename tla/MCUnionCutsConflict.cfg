SPECIFICATION Spec
CONSTANTS
  Graphs <- Conflict
  Ports <- WidePorts
INVARIANT NoConflicts
