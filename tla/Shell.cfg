CONSTANTS
  Lines <- UserLines
  Pids = {1, 2}
  MaxLines = 3
  MaxForks = 3
  hist_check = TRUE
  NULL = NULL
SPECIFICATION Spec
CHECK_DEADLOCK FALSE
INVARIANTS  TableTrue
PROPERTIES ZombiesReaped PromptReturns
