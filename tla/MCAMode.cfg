SPECIFICATION FairSpec
CONSTANTS
  k1 = k1
  r1 = r1
  r2 = r2
  NoValue = NoValue
  NoWorker = NoWorker
  Width <- MCWidth
  Kpz = {k1}
  Regs = {r1, r2}
  Plan <- MCPlan
  Vals <- MCVals
  Archived = {r1}
  PerChunk = 1
  MaxSent = 1
  MaxEdits = 2
  Duplicates = FALSE
INVARIANTS ValueOfItsRegister LastArchived
PROPERTY ArchiveCatchesUp
