SPECIFICATION FairSpec
CONSTANTS
  v1 = v1  v2 = v2  tA = tA  tB = tB
  None = None
  Vouchers = {v1}
  Texts = {tA, tB}
  MaxMade = 2
  MaxChanges = 3
  MaxTallyEdits = 1
  MaxFaults = 2
INVARIANTS DeletedStaysDeleted SettledAgree OneCopy
PROPERTIES EventuallyAgree
CHECK_DEADLOCK FALSE
