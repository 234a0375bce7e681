SPECIFICATION Spec
CONSTANTS
  k1 = k1
  k2 = k2
  Kpz = {k1, k2}
  Groups = {g1}
  NoGroup = NoGroup
  NoRow = NoRow
  NoWorker = NoWorker
  Periods = {2}
  PeriodCap = 2
  Phase <- MCPhase
  Cfgs <- MCCfgs
  PoolSize = 2
  MaxInflight = 3
  MaxQueue = 2
  SyncPeriod = 1
  TopologyPeriod = 1
  StreakMax = 2
  DropCap = 1
  MaxTime = 2
  MaxEdits = 1
INVARIANTS DrainIsBarrier BusyIffPending OneOwner SnapshotCurrent WithinLimits SyncedMeansCurrent
PROPERTY TicksAccounted
