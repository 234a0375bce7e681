SPECIFICATION FairSpec
CONSTANTS
  k1 = k1
  k2 = k2
  r1 = r1
  a1 = a1
  Keys = {k1, k2}
  Rules = {r1}
  Arx = {a1}
  Shapes <- MCShapes
  MaxInflight = 1
  MaxDeltas = 4
INVARIANTS NoGapsNoRepeats FinishStoresAll RestartFindsAll
PROPERTY CallsReturn
