CONSTANTS
  Clients = {1, 2, 3}
  file = file
  long = long
  Names = {file, long}
  LongNames = {long}
  Scenarios <- Selections
  MaxCrashes = 1
  NULL = NULL
SPECIFICATION Spec
CHECK_DEADLOCK FALSE
INVARIANTS StoreConsistent 
PROPERTIES UploadStored EveryClientEnds
