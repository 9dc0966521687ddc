SPECIFICATION WorkersSpec
CONSTANTS
  Crackers = {1, 2, 3}
  TaskLines <- TaskList
  NO_TASK = NO_TASK
  NumThreads = 3
  Passwords <- PasswordList
  count = 2
  ItemsEach = 2
  PipeSize = 1
  MaxLength = 5
  MaxThreads = 4
  BASE = BASE
  RunningTimes = {1, 2, 3}
  Priorities = {1, 2}
  MaxJobs = 3
  MaxTime = 3
  NO_JOB = NO_JOB
CHECK_DEADLOCK FALSE
INVARIANTS RecoveredExact SummaryTrue SidesOfBarrier OutputComplete SameAsReduce TotalsTrue
PROPERTIES PicksBest WorkersEnd
