\* As MC_ClawEngine.cfg, with one value two payload cells long.
CONSTANTS
  k1 = k1
  k2 = k2
  v1 = v1
  v2 = v2
  vLarge = vLarge
  c1 = c1
  c2 = c2
  Keys <- MCKeys
  Vals <- MCValsLarge
  NoVal = NoVal
  ValCells <- MCValCells
  Clients <- MCClients
  WalRotationSize = 6
  MaxOps = 3
  MaxRestarts = 1
  MaxFaults = 1
SYMMETRY MCSymmetryLarge
SPECIFICATION Spec
PROPERTIES AckedWritesSurviveRecovery
