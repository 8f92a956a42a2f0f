SPECIFICATION LockSpec
CONSTANTS
  t1 = t1
  t2 = t2
  t3 = t3
  t4 = t4
  Threads <- MCThreads
  MaxReader = 2
INVARIANTS LockTypeOK WordAccounted GuardExclusion
PROPERTY ImplementsReadersWriters
