CONSTANTS
  alice = alice
  bob = bob
  carol = carol
  a = a
  b = b
  c = c
  c2 = c2
  Device <- MCDevice
  Account <- MCAccount
  AccountOf <- MCAccountOf
  Founders <- MCAccount
  Membership = FALSE
  MayRotate = FALSE
  MayLose = FALSE
  MaxChains = 2
  MaxMade <- MCTwoEach
  MaxSenderKeySkip = 1
  MaxSkippedSenderKeys = 1
SPECIFICATION FairSpec
CHECK_DEADLOCK FALSE
PROPERTY GroupChannel
