SPECIFICATION FairSpec
CONSTANTS
  k1 = k1
  r1 = r1
  Kpz = {k1}
  Rules = {r1}
  Owner <- MCOwner
  NoLimit = NoLimit
  Off = Off
  NoRow = NoRow
  NoWorker = NoWorker
  Cfgs <- MCCfgs
  Values = {0, 1, 2}
  AgeMax = 2
  MaxReads = 2
  MaxSent = 2
  MaxEdits = 2
  MaxLosses = 2
  KeepsUp = TRUE
INVARIANT EventsAlternate
PROPERTIES DelayHonoured ConditionArrives
