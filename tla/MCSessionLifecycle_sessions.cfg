SPECIFICATION FairSpec
CONSTANTS
  s1 = s1
  s2 = s2
  Sessions = {s1}
  NoSession = NoSession
  MaxLaunchAttempts = 3
  MaxOutput = 3
  MaxCrashes = 3
  MaxStoreFaults = 2
CHECK_DEADLOCK FALSE
INVARIANTS
    LaunchedOnce
    EndedMeansGone
    OutputBeforeExit
PROPERTIES
    EndRecorded
