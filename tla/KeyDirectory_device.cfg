CONSTANTS
  t1 = t1
  t2 = t2
  c1 = c1
  c2 = c2
  Tab <- MCTab
  Claimer <- MCClaimer
  Batch = 2
  LowWater = 1
  MaxStored = 2
  History = 2
  MaxRotations = 3
  MaxUploads = 1
  MaxLost = 1
SPECIFICATION FairSpec
CHECK_DEADLOCK FALSE
INVARIANT OneTimePreKeysUsedOnce
INVARIANT OneTimePreKeysHeld
INVARIANT SignedPreKeyHeld
PROPERTY PoolKeptUp
