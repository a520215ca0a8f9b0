SPECIFICATION Spec
CONSTANTS
  b1 = b1
  b2 = b2
  Blocks <- MCBlocks
  Inputs <- MCInputs
INVARIANTS
  IInv
  DisjointInBlock
  FitsArchitecture
  NothingBetterLeftOut
