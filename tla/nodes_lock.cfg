SPECIFICATION FairSpec
CONSTANTS
  n1 = n1
  n2 = n2
  p1 = p1
  p2 = p2
  p3 = p3
  Node = {n1, n2}
  Conn = {p1, p2}
  Monitor = Monitor
  None = None
INVARIANTS
  TypeOK
  ListConsistent
PROPERTIES
  LeakFreezes
  Served
  DeadNoticed
CHECK_DEADLOCK FALSE
