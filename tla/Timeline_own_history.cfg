SPECIFICATION Spec
CONSTANTS
    anna = anna
    ben = ben
    Users <- MCUsers
    Devices <- MCDevices
    Owner <- MCOwner
    Limit = 2
    Skew <- MCSkew
    RoomBudget = 3
    DirectBudget = 4
    TextEffort = 2
    ReactionEffort = 1
    RoomTrouble = 1
    DirectTrouble = 2
CHECK_DEADLOCK FALSE
INVARIANT OwnHistoryCovered
