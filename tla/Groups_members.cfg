CONSTANTS
  alice = alice
  bob = bob
  carol = carol
  a = a
  b = b
  c = c
  c2 = c2
  Device <- MCPair
  Account <- MCTwoAccounts
  AccountOf <- MCPairOf
  Founders <- MCTwoAccounts
  Membership = TRUE
  MayRotate = TRUE
  MayLose = TRUE
  MaxChains = 2
  MaxMade <- MCOneTalks
  MaxSenderKeySkip = 2
  MaxSkippedSenderKeys = 1
SPECIFICATION Spec
CHECK_DEADLOCK FALSE
INVARIANT TypeOK
INVARIANT GroupKeysUnique
INVARIANT GroupForwardSecrecy
INVARIANT OnlyTheAudienceReads
