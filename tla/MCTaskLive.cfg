SPECIFICATION FairSpec
CONSTANTS
  TaskNum = 4
  Lists <- KernelLists
  MaxJiffies = 0
  WaitArgs <- PidArgs
  SleepTicks = {}
  UserPriority = 2
  HasEnum = FALSE
PROPERTIES ReadyRuns WaitReturns
