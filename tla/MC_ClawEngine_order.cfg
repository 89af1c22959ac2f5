\* Two clients and no crash: the order in which puts reach the index.
CONSTANTS
  k1 = k1
  k2 = k2
  v1 = v1
  v2 = v2
  vLarge = vLarge
  c1 = c1
  c2 = c2
  Keys <- MCKeys
  Vals <- MCVals
  NoVal = NoVal
  ValCells <- MCValCells
  Clients <- MCClients
  WalRotationSize = 6
  MaxOps = 3
  MaxRestarts = 0
  MaxFaults = 1
SYMMETRY MCSymmetry
SPECIFICATION Spec
INVARIANTS GetsAgreeWithWalOrder
