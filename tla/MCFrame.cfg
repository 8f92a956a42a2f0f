SPECIFICATION Spec
CONSTANTS
  h1 = h1
  h2 = h2
  h3 = h3
  h4 = h4
  h5 = h5
  Handles <- MCHandles
  RefCountMax = 3
INVARIANTS TypeOK RefCountInv MetaAccess UnwrapSucceeds
PROPERTY NoRevival
CHECK_DEADLOCK FALSE
