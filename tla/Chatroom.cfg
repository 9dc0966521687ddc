CONSTANTS
  Clients = {a, b, c}
  MAX_CLIENTS = 2
  Fds = {3, 4, 5}
  Senders = {a, b}
  Leavers = {b}
  Capacity = 1
  NULL = NULL
SPECIFICATION Spec
CHECK_DEADLOCK FALSE
INVARIANTS SlotsTrue 
PROPERTIES ReachesAll SlotReleased
