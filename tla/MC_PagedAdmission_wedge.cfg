SPECIFICATION Spec
CONSTANTS
  r1 = r1
  r2 = r2
  r3 = r3
  r4 = r4
  r5 = r5
  Requests = {r1, r2}
  Prompt <- Growing
  Budget = 3
  MaxBatch = 1
  MaxQueue = 2
  MaxTokens = 2
  CanRelease = FALSE
CHECK_DEADLOCK FALSE
PROPERTY Served
