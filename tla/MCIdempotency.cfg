SPECIFICATION FairSpec
CONSTANTS
  r1 = r1  r2 = r2  r3 = r3  r4 = r4  r5 = r5  r6 = r6
  kA = kA  kB = kB  noKey = noKey  b1 = b1  b2 = b2
  None = None
  Requests = {r1, r2, r3, r4, r5, r6}
  Prints = {kA, kB, noKey}
  KeyedPrints = {kA, kB}
  Bodies = {b1, b2}
  Fp <- MCFp
  Body <- MCBody
  MaxStored = 1
INVARIANTS OneInFlight OncePerKey ReplayIsFaithful
PROPERTIES EveryRequestEnds
CHECK_DEADLOCK FALSE
