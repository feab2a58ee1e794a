CONSTANTS
  WorkCount = 7
  WorkerCount = 2
  Failing = {1, 2}
  Unreadable = {4}
  MayCancel = TRUE
  MayFillDisk = TRUE
SPECIFICATION Spec
INVARIANTS
  MergedInOrder
  EverythingReleased
  FailureSurfaces
PROPERTY
  Termination
