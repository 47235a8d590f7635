SPECIFICATION Spec
CONSTANTS
  Procs = 3
  StackPage = {1, 2}
  Frames = 9
  Reserved = 1
  Mapped = 2
  Value = {"a", "b"}
  SharedStores = TRUE
  KPages = 19
  Class <- Classes
  PerPage <- BlocksPerPage
  DescPerPage = 3
VIEW UpToNumbers
PROPERTIES ImplementsAddressSpace
