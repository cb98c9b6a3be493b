SPECIFICATION Spec
CONSTANTS
  Tasks = {t1}
  Assignments = {a1, a2}
  IntegrateOps = {o1, o2}
  MaxCommit = 1
  FaultyWorktrees = {a1}
  RoleKinds = {"worktree"}
  NoTask = NoTask
  NoAssignment = NoAssignment
SYMMETRY Symmetry
CHECK_DEADLOCK FALSE
INVARIANTS
    SubmissionConsistent
    RecoveryHandedOn
    PublishedIsRecorded
    ClosureEvidence
PROPERTIES
    AcceptedWorkFixed
    RetiredSourceFenced
