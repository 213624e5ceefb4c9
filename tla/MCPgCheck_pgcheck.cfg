SPECIFICATION FairSpec
CONSTANTS
    Second = 2
    DefaultTimeout = 10
    MaxTimeout = 60
    MinClampTimeout = 1
    Budget = 8
    UserTimeouts = {0, 1, 5}
    CloseTimeout = 4
INVARIANTS
    TypeOK
    LostOnlyToClose
    CodeNamesTheCause
PROPERTY
    Ends
