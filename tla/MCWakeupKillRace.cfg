SPECIFICATION BlockerSpec
CONSTANTS
  s1 = s1
  s2 = s2
  r1 = r1
  pm = pm
  NoSource = NoSource
  Sources = {s1}
  Readers = {}
  Suspender = pm
  Modulus = 2
  CountSize = 3
INVARIANT InProgressExact
