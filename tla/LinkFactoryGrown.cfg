SPECIFICATION Spec
CONSTANTS
  PoolSize = 2
  MaxLinks = 4
INVARIANT NoAssertFails
CHECK_DEADLOCK FALSE
