SPECIFICATION Spec
CONSTANT Inputs <- UpTo4
INVARIANTS
  SweepInv
  DistanceIsLongestPath
  EstimatesBounded
