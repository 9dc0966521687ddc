CONSTANTS
  Vertices = {1, 2, 3}
  Graphs <- LeafBeforeCycle
  MaxDepth = 6
  NULL = NULL
SPECIFICATION Spec
CHECK_DEADLOCK FALSE
INVARIANTS CycleRecognised
