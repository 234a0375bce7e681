SPECIFICATION MCSpec
CONSTANTS
  Programs = {"server", "table", "window", "web"}
  Regs <- MCRegs
  MaxWanted = 5
  TopAddress = 5
  MaxWords = 3
  DeviceWords = 3
  PacketReads = 2
  MaxFailed = 2
  Trees <- MCTrees
  Broken <- MCTexts
  Names <- MCNames
  NumberOf <- MCNumbers
  Unknown <- MCUnknown
  Limits = {5, 9, 40}
  AnswerWords <- MCWords
  WordSize = 16
  HiLo = FALSE
  RvOf <- MCRvOf
  ArchiveValue = 3
  k1 = k1
  k2 = k2
  k3 = k3
  Kpz = {k1, k2, k3}
  Kinds = {"A", "S"}
  NoJob = NoJob
  NoCall = NoCall
  MaxSeq = 4
  CacheKpz = {k1, k2}
  GroupsOf <- MCGroupsOf
  Versions = {1, 2}
  Texts = {"t1", "t2", "off"}
  Bindings = {"own", "fallback"}
  MaxRowEdits = 2
INVARIANTS ReadingsAreRight ScriptsRunAsWritten IndexesAgree
PROPERTIES EveryRunEnds ImplementsSpawnQueue
CHECK_DEADLOCK FALSE
