CONSTANTS
  c1 = c1
  c2 = c2
  i1 = i1
  i2 = i2
  fair = fair
  rt = rt
  Tasks = {i1, i2, fair, rt}
  Cpus = {c1, c2}
  NoTask = NoTask
  NoCpu = NoCpu
  Bsp = c1
  Sleepers = {rt}
  Affinity <- MCAffinity
  Policy <- MCPolicy
  IdleTask <- MCIdleTask
SPECIFICATION FairSpec
INVARIANTS SingleResidence NoLostWakeup SwitchProceeds
CHECK_DEADLOCK FALSE
PROPERTIES ImplementsTaskPlaces IdleGivesWay
