SPECIFICATION Spec
CONSTANTS
  t1 = t1
  t2 = t2
  Tasks = {t1, t2}
  None = None
  NSlots = 2
  Hash <- Collide
  Scale = 2
  Floors = {1, 3}
  UserPolicies = {"normal", "fifo"}
  Settable = {t1}
INVARIANTS NoBoostLeaks Restored
CHECK_DEADLOCK FALSE
