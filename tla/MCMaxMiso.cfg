SPECIFICATION FairSpec
CONSTANT Graphs <- MCGraphs
INVARIANTS
  IInv
  NoUnderflow
  Disjoint
  FindsAllMaximal
PROPERTY ImplementsCover
