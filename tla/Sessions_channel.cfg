CONSTANTS
  a = a
  b = b
  Device <- MCDevice
  IdentityKey <- MCIdentityKey
  FirstSignedPreKey <- MCSignedPreKey
  OneTimePreKeys <- MCOneTimePreKeys
  FirstFreshKey <- MCFirstFreshKey
  Initiators <- MCInitiators
  Redelivery = FALSE
  MayCrash = FALSE
  MaxSent <- MCTwoEach
  MaxRotations = 1
  MaxKey = 99
  MaxSkip = 1
  MaxSkippedKeys = 1
  History = 2
SPECIFICATION FairSpec
CHECK_DEADLOCK FALSE
INVARIANT UnreadReadable
INVARIANT FieldsUntilReply
PROPERTY ChannelImplemented
