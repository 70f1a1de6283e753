CONSTANTS
  parent = parent  left = left  right = right
  Claimants = {u1, u2, u3}
  Roots = {parent, left, right}
  Claims <- Sharing
  Overlaps <- Nested
SPECIFICATION FairSpec
INVARIANTS MutualExclusion ParkedIsBlocked
PROPERTIES WaiterServed
CHECK_DEADLOCK FALSE
