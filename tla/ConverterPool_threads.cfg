SPECIFICATION FairSpec
CONSTANTS
  Threads = {t1, t2, t3}
  Caches = {c1, c2, c3}
  Null = Null
  MAX_POOL_SIZE <- PoolLimit
INVARIANT OneUser
INVARIANT DepthIsLength
INVARIANT NothingLeaked
PROPERTY LockReleased
PROPERTY BorrowsAndReturns
