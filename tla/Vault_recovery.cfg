SPECIFICATION FairSpec
CONSTANTS
    t1 = t1
    t2 = t2
    anna = anna
    ben = ben
    p1 = p1
    p2 = p2
    Tabs <- MCTabs
    Accounts <- MCAccounts
    Phrases <- MCOnePhrase
    Old = old
    Nobody = nobody
    Former = anna
    MaxMade = 5
    MaxTrouble = 1
INVARIANT OpenTabsShare
INVARIANT RegisteredIsHeld
INVARIANT OneAccountPerIdentity
PROPERTY GetsIn
