SPECIFICATION Spec
CONSTANTS
  n1 = n1
  n2 = n2
  c1 = c1
  Node = {n1, n2}
  Chunk = {c1}
  Job = {1, 2}
  Client = Client
  Controller = Controller
  None = None
  Word = 8
  Limit <- UploadLimit
  Total = 3
  Overlap = TRUE
  Prompt = TRUE
SYMMETRY Permute

INVARIANTS
  TypeOK
  FilesAgree
  DeleteReaches
  CountsChunks
PROPERTY
  ImplementsChunkStore
CHECK_DEADLOCK FALSE
