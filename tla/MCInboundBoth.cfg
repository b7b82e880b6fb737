SPECIFICATION FairSpec
CONSTANTS
  g = g  u = u  s = s  v1 = v1  v2 = v2
  None = None
  Records = {s, u, v1, v2}
  Masters = 2
  Coll <- BothColl
  Unfiltered = {2}
  Apart = {1, 3}
  Ranges = 2
  RangeOf <- BothRange
  MaxAlter = 3
  MaxFaults = 2
INVARIANTS TypeOK NoLostChange ProbeHidesNothing
PROPERTIES EventuallyCaughtUp
