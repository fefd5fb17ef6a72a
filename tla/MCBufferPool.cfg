SPECIFICATION Spec
CONSTANTS
  Threads = {t1, t2, t3}
  BufferCount = 1
  BlockMaxCount = 3
  MaxHeld = 2
  NoThread = NoThread
  Free = Free
  Unmade = Unmade
SYMMETRY ThreadSymmetry
INVARIANT TypeOK
INVARIANT Conserved
INVARIANT CountAgrees
INVARIANT StuckFlagOnlyAtLimit
INVARIANT NoLostWakeup
PROPERTY LendsLikeLendingPool
CHECK_DEADLOCK FALSE
