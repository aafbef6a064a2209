SPECIFICATION Spec
CONSTANTS
  r1 = r1
  r2 = r2
  r3 = r3
  a = a
  b = b
  Setups <- LiveSetups
CHECK_DEADLOCK FALSE
PROPERTY AllAnswered
