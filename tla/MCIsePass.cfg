SPECIFICATION Spec
CONSTANTS
  Programs <- MCPrograms
  OptionSets <- MCOptions
  Findings <- MCFindings
  MaxRuns = 2
INVARIANTS
  IInv
  CompletedRunOwnsFiles
  SelectsFromWholeFiles
  ReadsBack
  EstimateBounded
  SelectionPays
CHECK_DEADLOCK FALSE
