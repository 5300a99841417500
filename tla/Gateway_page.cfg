SPECIFICATION FairSpec
CONSTANTS
    p1 = p1
    Pages <- MCPages
    Sockets <- MCSockets
    Tickets <- MCTickets
    MaxTrouble = 1
INVARIANT TokenlessIsOffline
INVARIANT OneSocketPerPage
INVARIANT PresenceWhenApart
PROPERTY ComesBack
