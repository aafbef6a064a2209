SPECIFICATION Spec
CONSTANTS
  Sessions = {anon, s1}
  Anonymous = anon
  PoolSets = 3
  Setups <- MCSetups
INVARIANTS
  TypeOK
  WithinCaps
  CountExact
  WalkIsLongest
  LookupIsBest
  AdoptsSharedPrefix
  PinsAccounted
