CONSTANTS
    Lengths = {1, 3}
    EventLimit = 2
    ByteLimit = 2
    MaxBytes = 4
    MaxHistory = 3
    MaxRecoveries = 1
    MaxCrashes = 1
SPECIFICATION StreamsFairSpec
CHECK_DEADLOCK FALSE
INVARIANTS
    CharactersWhole
PROPERTIES
    EndsComplete
    FollowersEnd
