SPECIFICATION FairSpec
CONSTANTS
  a1 = a1
  a2 = a2
  Assignments = {a1, a2}
  Operations = {o1, o2}
  Operator = Operator
  Clash <- OperatorClash
  Tangled = {a1}
  MaxEdits = 1
  MaxFaults = 1
  NoTask = NoTask
  NoAssignment = NoAssignment
  NoOperation = NoOperation
CHECK_DEADLOCK FALSE
INVARIANTS
    PublishedOnce
PROPERTIES
    OperatorKept
    LedgerSteps
    IntentApplied
