SPECIFICATION Spec
CONSTANTS
  a = a
  b = b
  r1 = r1
  r2 = r2
  s1 = s1
  s2 = s2
  o1 = o1
  Projects = {a, b}
  Runs = {r1, r2}
  Supervisors = {s1, s2}
  RecoverOps = {o1}
  NoProject = NoProject
  NoRun = NoRun
  NoOp = NoOp
  NoFile = NoFile
  Dead = Dead
CHECK_DEADLOCK FALSE
SYMMETRY Symmetry
INVARIANTS
    IInv
PROPERTIES
    OwnershipMoves
