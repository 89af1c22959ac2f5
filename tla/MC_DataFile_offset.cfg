\* As MC_DataFile.cfg, with one I/O failure at any write_all, sync or rotation
\* sync: the returned offset of a later record goes stale.
CONSTANTS
  k1 = k1
  k2 = k2
  v1 = v1
  vLarge = vLarge
  Keys <- MCKeys
  Vals <- MCVals
  NoVal = NoVal
  ValCells <- MCValCells
  MaxFileSize = 6
  MaxWrites = 3
  MaxFaults = 1
  MaxCrashes = 1
  MaxCorrupt = 1
SYMMETRY MCSymmetry
SPECIFICATION Spec
\* Every run ends once MaxWrites writes are done: the writer then stays idle.
CHECK_DEADLOCK FALSE
INVARIANTS OffsetRoundTrip
