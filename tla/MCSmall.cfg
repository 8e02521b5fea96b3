SPECIFICATION SmallSpec
CONSTANTS
  p1 = p1
  p2 = p2
  r1 = r1
  q1 = q1
  c1 = c1
  c2 = c2
  q2 = q2
  None = None
  Pids = {p1, p2}
  RenderThreads = {r1}
  RecordSize = 3
  ResetGap = 3
  NiceMoreLimit = 1
  JankLimit = 0
  Ids1 = 4
  Ids2 = 1
  MaxId <- Ids
  MaxQueue = 1
  Callers = {c1, c2}
  Writers = {w1}
  NULL = NULL
  BUF_COUNT = 2
  LOGS_PER_BUF = 2
  AsModule = TRUE
  MaxCalls <- CallsOf
  Waiters = {q1, q2}
  TgidOf <- OneProcess
  NoTid = NoTid
  HINT_SLOTS = 1
  Tgids = {0, 1}
  Hints = {7}
  Clamps = {0, 5}
  MaxActive = 3
  Tids = {1, 2, 3}
  Tgid <- TwoOfOne
  Fps = {60, 120}
  Headrooms = {10}
  MaxYields = 1
INVARIANTS OutstandingFresh JankShown LogComplete StartsMatch HintsReturned OnlyAppsPenalized
CHECK_DEADLOCK FALSE
