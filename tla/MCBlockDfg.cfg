SPECIFICATION BuildSpec
CONSTANT Blocks <- SmallBlocks
INVARIANTS
  GraphInv
  BuildsFromBasicBlock
  OutputsAreNeeded
  PatternGraphExact
CHECK_DEADLOCK FALSE
