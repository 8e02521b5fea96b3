SPECIFICATION Spec
CONSTANTS
  s1 = s1
  s2 = s2
  d1 = d1
  r1 = r1
  pm = pm
  None = None
  Sources = {s1, s2}
  Devices = {d1}
  Readers = {}
  Suspender = pm
  Modulus = 3
  MaxActivations = 1
  MaxAbort = 0
INVARIANTS TypeOK InProgressExact WalkersKeepSources AttachedIsLive
PROPERTY NoEventMissed
SYMMETRY Sym
