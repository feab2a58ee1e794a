CONSTANTS
  Builds = {b1, b2}
  None = none
SYMMETRY Symmetry
SPECIFICATION Spec
INVARIANTS
  BundleComplete
  EndsTidy
  DiagnosticsBelong
  SuccessStands
