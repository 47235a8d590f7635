SPECIFICATION Spec
CONSTANTS
  Proc = {p1, p2}
  Fds = 1
  Inodes = 4
  FirstZone = 2
  Zones = 5
  TableSize = 3
  Direct = 1
  PerBlock = 4
  LinkMod = 4
  Words <- MCWords
  MaxLost = 1
  Paths <- FlatPaths
  DirPaths <- MCDirPaths
  Flags <- PlainFlags
  Lens = {4}
VIEW View
INVARIANT LinksExact
