CONSTANTS
  a = a
  b = b
  Node = {a, b}
  Peer <- MCPeer
  LossCap = 1
  CwCap = 1
  CodewordCost = 1
  InitRate = 1
  MinRate = 1
  Inc = 1
  Dec = 1
  Budget <- MCBudget
  MaxWindow = 1
SPECIFICATION LossFairSpec
INVARIANTS
  LossTypeOK
  LossConserved
PROPERTIES
  LossesHeard
