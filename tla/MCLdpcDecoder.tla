--------------------------- MODULE MCLdpcDecoder ---------------------------
(* An instance of LdpcDecoder for TLC.                                      *)
EXTENDS LdpcDecoder, TLC

Symmetry == Permutations(Dec) \cup Permutations(Cw) \cup Permutations(Stub) \cup Permutations(Hashes)
=============================================================================
