CONSTANTS
  LastDate = 4
  Inputs <- MCMergedInput
  Days <- MCDays
  Reference = 1
  GvdStart = 1
  GvdEnd = 3
SPECIFICATION Spec
INVARIANTS
  DistinctionsAreKeys
