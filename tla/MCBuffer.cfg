SPECIFICATION Spec
CONSTANTS
  NoTask = NoTask
  Task = {t1, t2, t3}
  NBuf = 2
  Block = {1, 2, 3}
  Versions = 1
SYMMETRY Symmetry
VIEW Control
INVARIANTS OneCopy HeldStable LockWakes FullWakes
