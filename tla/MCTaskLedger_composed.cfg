SPECIFICATION Spec
CONSTANTS
  Tasks = {t1, t2}
  Assignments = {a1, a2}
  IntegrateOps = {o1}
  MaxCommit = 1
  FaultyWorktrees = {}
  RoleKinds = {"project", "worktree"}
  NoTask = NoTask
  NoAssignment = NoAssignment
SYMMETRY Symmetry
CHECK_DEADLOCK FALSE
INVARIANTS
    DependenciesAccepted
PROPERTIES
    ImplementsLifecycle
