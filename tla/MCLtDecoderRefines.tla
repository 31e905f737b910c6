------------------------- MODULE MCLtDecoderRefines -------------------------
(* An instance of LtDecoderRefines for TLC: three transactions, one of them *)
(* the XOR of the two others.                                               *)
EXTENDS LtDecoderRefines, TLC

CONSTANTS h0, h1, h2, h3

MCBits == {1, 2}
MCTx == {{1}, {2}, {1, 2}}
MCHash == ({} :> h0) @@ ({1} :> h1) @@ ({2} :> h2) @@ ({1, 2} :> h3)

ASSUME Remembers
=============================================================================
