CONSTANTS
  Vertices = {1, 2, 3, 4}
  Inputs <- Makefiles
  MaxFiles = 1
  MaxFailures = 1
  Workers = {w1, w2}
  MaxDepth = 5
  NULL = NULL
SPECIFICATION Spec
CHECK_DEADLOCK FALSE
INVARIANTS DependenciesFirst AllBuilt
 
