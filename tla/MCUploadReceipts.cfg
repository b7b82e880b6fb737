SPECIFICATION Spec
CONSTANTS
  u1 = u1  u2 = u2  u3 = u3  m1 = m1  p1 = p1  p2 = p2
  kA = kA  plain = plain  other = other
  None = None
  Uploads = {u1, u2, u3}
  ManualImports = {}
  Processes = {p1, p2}
  Proc <- MCProc
  Keys = {kA}
  Key <- MCOneKey
  Sha <- MCSha
  Forced = {u2}
INVARIANTS ReplayMeansImported OneRunPerAttempt ProcessingHasOwner
PROPERTIES KeepsPromise
CHECK_DEADLOCK FALSE
