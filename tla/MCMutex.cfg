SPECIFICATION MutexFairSpec
CONSTANTS
  t1 = t1
  t2 = t2
  t3 = t3
  Threads <- MCThreads
  Closed = Closed
  Nobody = Nobody
  MaxCalls = 4
INVARIANTS MutexTypeOK NumWakersIsLen WokenIsUnparked MutualExclusion NoSleeperOnFreeMutex MutexInv
PROPERTY LockReturns
