CONSTANTS
  a = a
  b = b
  Device <- MCDevice
  IdentityKey <- MCIdentityKey
  FirstSignedPreKey <- MCSignedPreKey
  OneTimePreKeys <- MCOneTimePreKeys
  FirstFreshKey <- MCFirstFreshKey
  Initiators <- MCDevice
  Redelivery = TRUE
  MayCrash = TRUE
  MaxSent <- MCThreeAndTwo
  MaxRotations = 0
  MaxKey = 99
  MaxSkip = 2
  MaxSkippedKeys = 1
  History = 3
SPECIFICATION Spec
CHECK_DEADLOCK FALSE
INVARIANT TypeOK
INVARIANT OpenedOnce
INVARIANT ForwardSecrecy
INVARIANT MessageKeysUnique
