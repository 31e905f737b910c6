CONSTANTS
  Bits <- CollidingBits
  Tx <- CollidingTx
  SaltedHash <- CollidingHash
  h0 = h0
  h1 = h1
  h2 = h2
  Hashes = {h0, h1, h2}
  Cw = {c1, c2, c3}
  Memory = 3
SPECIFICATION FairSpec
INVARIANTS
  IInv
  PeelingComplete
  NoPanic
PROPERTIES
  ReportsNews
  CallsReturn
