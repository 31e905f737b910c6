CONSTANTS
  Bits <- MCBits
  Tx <- MCTx
  SaltedHash <- MCHash
  h0 = h0
  h1 = h1
  h2 = h2
  h3 = h3
  h4 = h4
  Hashes = {h0, h1, h2, h3, h4}
  WindowSizes = {0, 2, 4}
SPECIFICATION EncodersSpec
INVARIANT EverySetDrawn
