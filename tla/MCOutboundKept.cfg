SPECIFICATION Spec
CONSTANTS
  v1 = v1  v2 = v2  tA = tA  tB = tB
  None = None
  Vouchers = {v1}
  Texts = {tA, tB}
  MaxMade = 1
  MaxChanges = 2
  MaxTallyEdits = 0
  MaxFaults = 0
INVARIANTS ChangeIsKept
CHECK_DEADLOCK FALSE
