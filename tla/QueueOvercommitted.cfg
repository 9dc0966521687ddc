CONSTANTS
  Producers = {p1, p2}
  Consumers = {c1}
  Data = {a, b}
  MaxSizes = {1}
  Nodes = {n1, n2, n3, n4}
  NULL = NULL
SPECIFICATION Spec
INVARIANTS SomeoneAwake
