CONSTANTS
  vSmall = vSmall
  vLarge = vLarge
  Keys = {k1}
  Vals <- MCVals
  NoVal = NoVal
  ValCells <- MCValCells
  MaxRecs = 3
  MaxTorn = 1
SPECIFICATION Spec
INVARIANTS TypeOK RecoveryLosesOnlyAfterOverrun
\* A file is finished once MaxRecs records and MaxTorn partial ones are in it.
CHECK_DEADLOCK FALSE
