\* compact_directory on a closed store (the writer is down while it runs):
\* three writes of two keys and two one-cell values (a record is 3 cells,
\* a tombstone 2), rotation past 6 cells, two compact_directory calls
\* compacting at a dead ratio of 1/2, one compactor I/O failure, two writer stops (crash
\* or stop_trickle).
CONSTANTS
  k1 = k1
  k2 = k2
  v1 = v1
  v2 = v2
  Keys <- MCKeys
  Vals <- MCVals
  NoVal = NoVal
  ValCells <- MCValCells
  Concurrent = TRUE
  MaxFileSize = 6
  ThresholdNum = 1
  ThresholdDen = 2
  MaxWrites = 3
  MaxCompactions = 2
  MaxFaults = 1
  MaxStops = 2
SYMMETRY MCSymmetry
SPECIFICATION Spec
\* Every actor is bounded: writes, compact_directory calls and crashes.
CHECK_DEADLOCK FALSE
INVARIANTS LiveKeysKept
