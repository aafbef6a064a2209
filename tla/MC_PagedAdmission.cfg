SPECIFICATION Spec
CONSTANTS
  r1 = r1
  r2 = r2
  r3 = r3
  r4 = r4
  r5 = r5
  Requests = {r1, r2, r3, r4, r5}
  Prompt <- Family
  Budget = 4
  MaxBatch = 3
  MaxQueue = 2
  MaxTokens = 3
  CanRelease = TRUE
CHECK_DEADLOCK FALSE
INVARIANTS
  TypeOK
  SharedOnlyPrefix
PROPERTY ColdBeforeRunning
