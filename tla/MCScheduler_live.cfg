SPECIFICATION FairSpec
CONSTANTS
  k1 = k1
  k2 = k2
  Kpz = {k1, k2}
  Groups = {g1}
  NoGroup = NoGroup
  NoRow = NoRow
  NoWorker = NoWorker
  Periods = {1}
  PeriodCap = 2
  Phase <- MCPhase
  Cfgs <- MCCfgs
  PoolSize = 1
  MaxInflight = 3
  MaxQueue = 3
  SyncPeriod = 1
  TopologyPeriod = 1
  StreakMax = 2
  DropCap = 1
  MaxTime = 1
  MaxEdits = 0
PROPERTIES PendingCompletes ShutdownEnds
