CONSTANTS
  Producers = {p1, p2}
  Consumers = {c1, c2}
  Data = {a, b}
  MaxSizes = {0, 2}
  Nodes = {n1, n2, n3}
  NULL = NULL
SPECIFICATION FairSpec
INVARIANTS NoLostWakeup ListIntact
PROPERTIES ImplementsFifo PullsContinue
