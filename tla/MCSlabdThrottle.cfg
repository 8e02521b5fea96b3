SPECIFICATION Spec
CONSTANTS
  c1 = c1
  c2 = c2
  m1 = m1
  root = root
  Callers = {c1, c2}
  Memcgs = {m1}
  Root = root
  Targets = {root}
  None = None
  Ring = 2
  Width = 4
  Windows = {2}
  Priorities = {12}
  DefPriority = 12
  ULong = 8
  MaxJiffies = 4
PROPERTY ClaimsSpaced
CHECK_DEADLOCK FALSE
