SPECIFICATION Spec
CONSTANTS
  g = g  u = u  s = s  v1 = v1  v2 = v2
  None = None
  Records = {g, s}
  Masters = 2
  Coll <- EditedColl
  Unfiltered = {}
  Apart = {}
  Ranges = 2
  RangeOf <- EditedRange
  MaxAlter = 4
  MaxFaults = 0
INVARIANTS ChangeDuringPassIsSeen
