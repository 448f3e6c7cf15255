SPECIFICATION Spec
CONSTANTS
  Tasks = {t1, t2}
  Secrets = {s1}
  Configs = {c1, c2}
  Deps <- AllDeps
  Missing = {c2}
  NoTask = NoTask
  MaxEvents = 2
INVARIANTS
  TypeOK
  DependenciesKept
  WorkUntilQuiet
  Agree
PROPERTIES
  StatesForward
SYMMETRY TaskSymmetry
CHECK_DEADLOCK FALSE
