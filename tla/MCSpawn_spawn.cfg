CONSTANTS
    o1 = o1
    o2 = o2
    t1 = t1
    t2 = t2
    a1 = a1
    a2 = a2
    worker = worker
    writer = writer
    Operations = {o1, o2}
    Tasks = {t1, t2}
    Agents = {a1, a2}
    Lead = lead
    LeadRole = coordinator
    Roles = {worker, writer}
    ProjectRoles = {writer}
    RoleLimit <- Limits
    MaxConcurrent = 2
    MaxAgentsPerRun = 2
    MaxPerMinute = 1
    MaxLaunchAttempts = 2
    MaxCrashes = 1
    NoAgent = NoAgent
    NoOperation = NoOperation
    NoTask = NoTask
    NoRole = NoRole
SPECIFICATION Spec
SYMMETRY Symmetry
INVARIANTS
    CeilingsHold
    SpawnedOnce
    OneWriter
    SettledOnEvidence
CHECK_DEADLOCK FALSE
