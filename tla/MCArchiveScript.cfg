SPECIFICATION FairSpec
CONSTANTS
  m1 = m1
  m2 = m2
  a1 = a1
  a2 = a2
  Modems = {m1}
  Base = m1
  Records = 3
  MaxMinute = 4
  MaxByHand = 1
  Groups <- MCGroups
  Sources = {"index", "other"}
  StaleAge = 1
  NoResponses = 1
  IndexIs400 = TRUE
  MaxQueue = 2
  MaxFaults = 1
INVARIANTS EachRecordOnce ConfirmedOnly
PROPERTY RecordsArrive
