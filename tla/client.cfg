SPECIFICATION FairSpec
CONSTANTS
  a = a
  b = b
  root = root
  docs = docs
  File = {a, b}
  Size <- Sizes
  ChunkSize = 2
  Folder = {root, docs}
  Root = root
  Job = {1, 2, 3}
  MaxCommands = 3
  Crossing = 2
  None = None
INVARIANTS
  TypeOK
  StoredInOrder
  MergesWhole
  MissingOnlyTwice
PROPERTIES
  Retrieved
CHECK_DEADLOCK FALSE
