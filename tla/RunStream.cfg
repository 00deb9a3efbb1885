SPECIFICATION Spec
CONSTANTS
    Items <- MCItems
    Finals <- MCFinals
    Closing <- MCClosing
    MaxHydrations = 1
    MaxStreams = 2
    MaxTries = 1
    MaxFaults = 2
INVARIANTS
    TypeOK
    ShownOnce
    OneListener
    NeverDeaf
    NothingElseLost
PROPERTIES
    PollerEnds
    Delivered
CHECK_DEADLOCK FALSE
