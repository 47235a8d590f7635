SPECIFICATION FairSpec
CONSTANTS
  TaskNum = 6
  Lists <- KernelLists
  MaxJiffies = 5
  NReq = 3
  Sectors = {1, 2}
  Timeout = 1
INVARIANTS NoAssert OneSender NoStall TimersReaped
PROPERTIES SentReturns PortUsed
