SPECIFICATION Spec
CONSTANTS
  Runs = {r1, r2, r3}
  Workers = {w1, w2}
  Nodes = {0, 1, 2, 3}
  Graphs <- MCGraphs
  Contexts <- MCContexts
  None = None
  r1 = r1
  r2 = r2
  r3 = r3
  w1 = w1
  w2 = w2
SYMMETRY MCSymmetry
INVARIANTS
  AnswersAreRouting
  ThreadsAgree
  WholeWhenQuiet
