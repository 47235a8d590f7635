SPECIFICATION FairSpec
CONSTANTS
  TaskNum = 4
  Lists <- KeyboardLists
  MaxJiffies = 0
  Counts = {0, 1, 2}
  KeyBufSize = 4
  MaxTyped = 5
INVARIANTS MutualExclusion NoLostKey PopSafe
PROPERTIES ImplementsStream KeysDelivered
