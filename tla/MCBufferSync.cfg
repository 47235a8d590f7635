SPECIFICATION Spec
CONSTANTS
  NoTask = NoTask
  Task = {t1, t2}
  NBuf = 1
  Block = {1, 2}
  Versions = 2
INVARIANTS InSync
