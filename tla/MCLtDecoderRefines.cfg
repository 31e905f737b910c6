CONSTANTS
  Bits <- MCBits
  Tx <- MCTx
  SaltedHash <- MCHash
  h0 = h0
  h1 = h1
  h2 = h2
  h3 = h3
  Hashes = {h0, h1, h2, h3}
  Cw = {c1, c2, c3}
  Memory = 3
SPECIFICATION HFairSpec
INVARIANTS
  StubsAreUnknown
  Sound
PROPERTIES
  ImplementsPeeling
  ImplementsProgress
