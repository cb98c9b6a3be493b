CONSTANTS
    o1 = o1
    o2 = o2
    x = x
    y = y
    Operations = {o1, o2}
    Arguments = {x, y}
    Whoami = Whoami
    NoCall = NoCall
    MaxRetries = 1
    MaxGenerations = 2
    MaxFaults = 2
SPECIFICATION FairSpec
CHECK_DEADLOCK FALSE
INVARIANTS
    AnswersTrue
    UncertainKept
PROPERTIES
    AppliedOnce
    Resolves
