SPECIFICATION FairSpec
CONSTANTS
  n1 = n1
  n2 = n2
  c1 = c1
  Node = {n1, n2}
  Chunk = {c1}
  Job = {1, 2}
  Client = Client
  Controller = Controller
  None = None
  Word = 8
  Limit <- RepairLimit
  Total = 5
  Overlap = FALSE
  Prompt = TRUE

INVARIANTS
  ServedWhole
PROPERTIES
  FilesStay
  Replicates
  Repaired
  ReadAnswered
CHECK_DEADLOCK FALSE
