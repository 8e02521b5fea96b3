SPECIFICATION FairSpec
CONSTANTS
  c1 = c1
  c2 = c2
  m1 = m1
  root = root
  Callers = {c1, c2}
  Memcgs = {m1}
  Root = root
  Targets = {m1, root}
  None = None
  Ring = 2
  Width = 4
  Windows = {0, 1}
  Priorities = {12}
  DefPriority = 12
  ULong = 8
  MaxJiffies = 0
INVARIANTS TypeOK MemcgsKept NoLostWake PinsExact
PROPERTIES ImplementsQueue PinsReleased InitReturns
CHECK_DEADLOCK FALSE
