SPECIFICATION Spec
CONSTANTS
  Programs <- MCPrograms
  OptionSets <- RandomOptions
  Findings <- MCFindings
  MaxRuns = 1
INVARIANT RandomSelects
CHECK_DEADLOCK FALSE
