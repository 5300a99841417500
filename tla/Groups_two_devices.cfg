CONSTANTS
  alice = alice
  bob = bob
  carol = carol
  a = a
  b = b
  c = c
  c2 = c2
  Device <- MCTwoPhones
  Account <- MCTwoAccounts
  AccountOf <- MCTwoPhonesOf
  Founders <- MCTwoAccounts
  Membership = FALSE
  MayRotate = FALSE
  MayLose = FALSE
  MaxChains = 2
  MaxMade <- MCTwoEach
  MaxSenderKeySkip = 2
  MaxSkippedSenderKeys = 2
SPECIFICATION Spec
CHECK_DEADLOCK FALSE
INVARIANT LaterMessagesDecrypt
