SPECIFICATION Spec
CONSTANTS
  Sessions = {anon, s1}
  Anonymous = anon
  PoolSets = 3
  Setups <- Shared
INVARIANT NoPinLost
