SPECIFICATION Spec
CONSTANTS
    Endings <- AllEndings
    MaxJobs = 2
    MaxChatless = 1
    MaxLate = 1
INVARIANTS
    TypeOK
    MessagesBecomeItems
PROPERTIES
    ClosesTheJob
    AnnouncesAsPromised
CHECK_DEADLOCK FALSE
