SPECIFICATION BuildSpec
CONSTANT Blocks <- AsmBlocks
INVARIANT EdgesJoinNodes
CHECK_DEADLOCK FALSE
