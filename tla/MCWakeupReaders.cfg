SPECIFICATION FairSpec
CONSTANTS
  s1 = s1
  s2 = s2
  d1 = d1
  r1 = r1
  pm = pm
  None = None
  Sources = {s1}
  Devices = {}
  Readers = {r1}
  Suspender = pm
  Modulus = 2
  MaxActivations = 2
  MaxAbort = 1
INVARIANT NoLostWakeup
PROPERTY ReadersReturn
