SPECIFICATION Spec
CONSTANTS
  Procs = 3
  StackPage = {1, 2}
  Frames = 9
  Reserved = 1
  Mapped = 2
  Value = {"a", "b"}
  SharedStores = FALSE
  KPages = 19
  Class <- Classes
  PerPage <- BlocksPerPage
  DescPerPage = 3
VIEW UpToNumbers
INVARIANTS RefCounts WritableIsPrivate HeapSafe PagesOwned
PROPERTIES ImplementsAddressSpace
