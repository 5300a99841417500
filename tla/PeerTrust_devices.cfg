SPECIFICATION FairSpec
CONSTANTS
    k1 = k1
    k2 = k2
    Devices <- MCDevices
    Keys <- MCKeys
    NoKey = none
    MaxSeen = 3
    MaxClicks = 2
    MaxAtOnce = 2
CHECK_DEADLOCK FALSE
INVARIANT TrustWasAsked
INVARIANT VerifiedWasAsked
PROPERTY ChangeShown
