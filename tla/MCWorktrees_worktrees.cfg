CONSTANTS
    MaxCrashes = 2
    MaxRefusals = 2
    MaxMeddling = 3
SPECIFICATION WorktreesFairSpec
 
PROPERTIES
    WorkKept
    Materializes
