CONSTANTS
  N = 9
  Offset <- MCOffset
  Failing = {2, 6}
  Unreadable = {8, 9}
  Degree = 4
  MaxBytes = 6
SPECIFICATION FairSpec
INVARIANTS
  WithinLimits
PROPERTIES
  Termination
  ImplementsOrderedMap
