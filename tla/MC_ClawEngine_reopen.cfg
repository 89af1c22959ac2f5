\* One client, one key, one operation and no I/O failure: a put, then a close
\* or a crash, a reopen and start_trickle, with the worker's steps weakly
\* fair (FairSpec) as in MC_ClawEngine_recovery.cfg.
CONSTANTS
  k1 = k1
  k2 = k2
  v1 = v1
  v2 = v2
  vLarge = vLarge
  c1 = c1
  c2 = c2
  Keys <- MCKey
  Vals <- MCVals
  NoVal = NoVal
  ValCells <- MCValCells
  Clients <- MCClient
  WalRotationSize = 6
  MaxOps = 1
  MaxRestarts = 1
  MaxFaults = 0
SPECIFICATION FairSpec
PROPERTIES MutationReachesDataFile
