CONSTANTS
  Threads = {t1, t2, t3}
  Closed = Closed
  Nobody = Nobody
  w1 = w1
  w2 = w2
  w3 = w3
  Addrs = {w1, w2, w3}
  Words = {w1}
  Pairs <- MCPairs
  Hash <- MCHash
  NumBuckets = 2
  Bits = {1, 2}
  BitSets = {{1}, {2}}
  Sleepers = {t1, t2}
  Timed = {t1}
  Signalled = {t1}
  MaxWord = 1
  MaxCalls = 3
SPECIFICATION FairSpec
INVARIANTS TruthfulResult NoMissedWake
CHECK_DEADLOCK FALSE
PROPERTIES PairsProceed WaitersReturn
