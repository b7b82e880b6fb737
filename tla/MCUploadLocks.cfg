SPECIFICATION FairSpec
CONSTANTS
  u1 = u1  u2 = u2  u3 = u3  m1 = m1  p1 = p1  p2 = p2
  kA = kA  plain = plain  other = other
  None = None
  Uploads = {u1, u2, u3}
  ManualImports = {m1}
  Processes = {p1, p2}
  Proc <- MCLocksProc
  Keys = {}
  Key <- MCLocksKeys
  Sha <- MCLocksSha
  Forced = {}
INVARIANTS OneImportPerProcess OneImportPerCompany
PROPERTIES RequestsEnd
CHECK_DEADLOCK FALSE
