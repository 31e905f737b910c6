CONSTANTS
  Bits <- CollidingBits
  Tx <- CollidingTx
  SaltedHash <- CollidingHash
  h0 = h0
  h1 = h1
  h2 = h2
  Hashes = {h0, h1, h2}
  Cw = {c1}
  Memory = 2
SPECIFICATION Spec
INVARIANTS
  LatestRemembered
