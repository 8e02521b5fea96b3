SPECIFICATION FairSpec
CONSTANTS
  p1 = p1
  p2 = p2
  r1 = r1
  r2 = r2
  Pages = {p1, p2}
  NrPages <- Sizes
  Reclaimers = {r1, r2}
  High = 2
INVARIANTS PagesKept PendingBounded IsolatedMatches
PROPERTIES PagesReturn
CHECK_DEADLOCK FALSE
