SPECIFICATION FairSpec
CONSTANTS
  k1 = k1
  k2 = k2
  Kpz = {k1, k2}
  Endpoint <- MCEndpoint
  Modem <- MCModem
  Swaps <- MCSwaps
  Headers <- MCHeaders
  PidMod = 2
  DsrMod = 10
  ClockId <- MCClockId
  MaxCalls = 3
  MaxDups = 1
INVARIANTS AnswersItsRequest EntryStays
PROPERTY RequestReturns
