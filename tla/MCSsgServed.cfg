SPECIFICATION FairSpec
CONSTANTS
  r1 = r1
  r2 = r2
  r3 = r3
  w1 = w1
  w2 = w2
  w3 = w3
  w4 = w4
  p1 = p1
  z1 = z1
  z2 = z2
  None = None
  Bios = {r1, r2, r3, w1, p1}
  Dir <- Dirs
  Pos <- Sectors
  Zone <- Zones
  Passthrough = {p1}
  fifo_expire <- Expire
  max_write_starvation = 1
PROPERTY Served
CHECK_DEADLOCK FALSE
