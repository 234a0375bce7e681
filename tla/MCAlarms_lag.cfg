SPECIFICATION Spec
CONSTANTS
  k1 = k1
  r1 = r1
  Kpz = {k1}
  Rules = {r1}
  Owner <- MCOwner
  NoLimit = NoLimit
  Off = Off
  NoRow = NoRow
  NoWorker = NoWorker
  Cfgs <- MCOneCfg
  Values = {0, 2}
  AgeMax = 2
  MaxReads = 2
  MaxSent = 1
  MaxEdits = 0
  MaxLosses = 0
  KeepsUp = FALSE
INVARIANT EventsAlternate
