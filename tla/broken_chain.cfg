SPECIFICATION Spec
CONSTANTS
  r1 = r1
  r2 = r2
  parent = parent
  Nobody = Nobody
  Runs = {r1, r2}
  Parents = {parent}
  MaxGenerations = 1
  MaxTombstones = 6
  MaxTroubles = 2
  MaxFaults = 1
INVARIANT ChainVerifies
CHECK_DEADLOCK FALSE
