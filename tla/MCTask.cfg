SPECIFICATION Spec
CONSTANTS
  TaskNum = 5
  Lists <- KernelLists
  MaxJiffies = 3
  WaitArgs <- PidArgs
  SleepTicks = {1, 2}
  UserPriority = 1
  HasEnum = TRUE
INVARIANTS TypeOK NoAssert Linked NotLost ParentAlive Ancestry WaitAwake LatenessBound
PROPERTIES ReapOnlyDied ImplementsLifecycle NeverEarly
