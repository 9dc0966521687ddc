CONSTANTS
  Threads = {t1, t2, t3}
  Drms = {d1, d2}
  MallocMayFail = TRUE
  NULL = NULL
  SemmThreads = {s1, s2, s3}
  Value = 1
  MaxVal = 2
  BarrierThreads = {b1, b2, b3}
  MaxRounds = 3
  InitMayFail = TRUE
SPECIFICATION LocksSpec
CHECK_DEADLOCK FALSE
INVARIANTS GraphTruth NoDeadlock RefusalJustified SleepJustified NoOvertaking
PROPERTIES CallsReturn
