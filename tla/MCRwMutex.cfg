SPECIFICATION FairSpec
CONSTANTS
  t1 = t1
  t2 = t2
  t3 = t3
  Threads <- MCThreads
  Closed = Closed
  Nobody = Nobody
  Kinds <- MCKinds
  MaxReader = 4
  MaxOps = 3
INVARIANTS TypeOK NoStrandedSleeper
PROPERTIES  CallReturns
