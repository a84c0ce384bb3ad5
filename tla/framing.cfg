SPECIFICATION FairSpec
CONSTANTS
  PrefixLength = 3
  Radix = 2
  Sizes <- MCSizes
  DataSizes <- MCDataSizes
INVARIANTS
  TypeOK
  Framed
  CopiedWhole
PROPERTIES
  ReceiveEnds
CHECK_DEADLOCK FALSE
