CONSTANTS
  Dec = {d, e}
  Cw = {c1, c2, c3}
  Stub = {s1, s2, s3}
  Hashes = {h1, h2}
  Memory = 1
SPECIFICATION Spec
SYMMETRY Symmetry
INVARIANTS
  PoolSafe
  Disjoint
  Recycled
  PeelingComplete
  NoPanic
