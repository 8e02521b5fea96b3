SPECIFICATION SsgSpec
CONSTANTS
  r1 = r1
  r2 = r2
  r3 = r3
  w1 = w1
  w2 = w2
  w3 = w3
  w4 = w4
  p1 = p1
  z1 = z1
  z2 = z2
  None = None
  Bios = {r1, w1, w2, w3, w4}
  Dir <- Dirs
  Pos <- Sectors
  Zone <- Zones
  Passthrough = {}
  fifo_expire <- Expire
  max_write_starvation = 2
  t1 = t1
  t2 = t2
  Tasks = {t1, t2}
  Movers = {t1}
  Tgid <- OneTgid
  Groups = {g1, g2}
  NoGroup = NoGroup
  Ops <- OpsOf
  Depths = {2, 3}
  Ratios = {40}
  WordBits = 3
  congestion_threshold = 60
  max_tgroup_io_ratio = 50
  max_async_write_ratio = 40
  MAX_ASYNC_WRITE_RQS = 8
INVARIANTS ListsAgree FifoInOrder ZonesExclusive WritesNotStarved CountsExact LimitHolds
PROPERTY ImplementsIoQueue
SYMMETRY GroupSymmetry
CHECK_DEADLOCK FALSE
