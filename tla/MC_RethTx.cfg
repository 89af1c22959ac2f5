\* One write transaction handle, used for two transactions in turn; three
\* keys, one value; a 5-cell WAL file rotates on the second put.  Five
\* engine writes or cursor calls, one crash, one failed commit fsync.
\* The bounds end every behaviour, so a final state is not a deadlock.
CONSTANTS
  v1 = v1
  t1 = t1
  Keys <- MCKeys
  Vals <- MCVals
  NoVal = NoVal
  ValCells <- MCValCells
  Txs <- MCTx
  WalRotationSize = 5
  MaxTx = 2
  MaxOps = 5
  MaxCrashes = 1
  MaxFaults = 1
SPECIFICATION Spec
CHECK_DEADLOCK FALSE
INVARIANTS TypeOK CommittedTxDurable ForwardWalkComplete ReverseWalkComplete
