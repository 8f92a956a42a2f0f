SPECIFICATION RcuFairSpec
CONSTANTS
  c1 = c1
  c2 = c2
  o1 = o1
  o2 = o2
  o3 = o3
  Cpus <- MCCpus
  Objects <- MCObjects
  Null = Null
INVARIANTS RcuTypeOK GracePeriodInv NoUseAfterDrop
PROPERTIES ImplementsRcu EventuallyDropped
