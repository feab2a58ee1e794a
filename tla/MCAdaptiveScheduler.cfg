CONSTANTS
  N = 7
  Offset <- MCOffset
  Failing = {2}
  Unreadable = {6}
  MaxWorkers = 3
  InitialWorkers = 2
  MaxRetained = 10
  MemoryRatios = {79, 82, 86, 96}
  CpuLoads = {50, 95}
SPECIFICATION FairSpec
INVARIANTS
  Accounting
  WithinLimits
  NoLostWakeup
PROPERTIES
  AdmissionRules
  Termination
  ImplementsOrderedMap
