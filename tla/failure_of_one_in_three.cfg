SPECIFICATION Spec
CONSTANTS
  f1 = f1
  n1 = n1
  n2 = n2
  n3 = n3
  h1 = h1
  h2 = h2
  g1 = g1
  g2 = g2
  short = short
  long = long
  None = None
  Name = {f1}
  NumBits = 3
  NumHashes = 2
  Word = 4
  Sum1 <- Sums
  Sum2 <- Strides
  Node = {n1, n2, n3}
  Conn = {h1}
  Repairer = {g1}
  Info = {short}
  Total <- Totals
  LineLength <- Lengths
  MaxOrders = 1
  MaxReplicas = 3
  Kinds = {"write"}
  Overlap = FALSE
INVARIANTS
  FailureSurvives
