SPECIFICATION Spec
CONSTANTS
    Programs <- MCPrograms
    Casefold <- MCCasefold
    Rules <- MCRules
    Role = "client"
    Offsets <- MCOffsets
    MaxAge = 1
    ClockSkew = 2
    MaxClock = 3
    MaxSnapshots = 2
    MaxReceived = 2
    MaxChanges = 1
INVARIANTS
    BlockerIsSeen
    DriveWasReady
PROPERTIES
    NoFalseAlarm
CHECK_DEADLOCK FALSE
