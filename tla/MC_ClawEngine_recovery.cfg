\* One client thread against the trickle worker, three operations on one key
\* (the third rotates the WAL), one crash or close, one I/O failure at any WAL
\* write, sync or rotation or at a data-file write.  The worker's steps and a
\* client's steps after its WAL append are weakly fair (FairSpec).  One key
\* is enough: the index, the dirty set, the WAL replay and the data-file
\* mirror treat keys independently, and every property here is per key.
CONSTANTS
  k1 = k1
  k2 = k2
  v1 = v1
  v2 = v2
  vLarge = vLarge
  c1 = c1
  c2 = c2
  Keys <- MCKey
  Vals <- MCVals
  NoVal = NoVal
  ValCells <- MCValCells
  Clients <- MCClient
  WalRotationSize = 6
  MaxOps = 3
  MaxRestarts = 1
  MaxFaults = 1
SPECIFICATION FairSpec
INVARIANTS TypeOK MirrorCoversMutations
PROPERTIES AckedWritesSurviveRecovery ImplementsDurableKV DirtyValueReachesDataFile
