SPECIFICATION Spec
CONSTANTS
  p1 = p1
  p2 = p2
  p3 = p3
  t1 = t1
  t2 = t2
  Points = {p1, p2, p3}
  Tasks = {t1, t2}
  None = None
  Half = 3
  Steps = {1, 5}
  MaxFiles = 1
  MaxTotal = 3
INVARIANTS RefsExact TimelineKept PendingSorted
SYMMETRY Sym
PROPERTY ImplementsTimeline
CHECK_DEADLOCK FALSE
