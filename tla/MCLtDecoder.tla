---------------------------- MODULE MCLtDecoder ----------------------------
(* An instance of LtDecoder for TLC in which two transactions collide: a    *)
(* codeword over one of them can be peeled with the other, and then shows   *)
(* {1, 2}, whose hash is that of neither, or the third transaction with the *)
(* hash of a fourth.                                                        *)
EXTENDS LtDecoder, TLC

CONSTANTS h0, h1, h2

CollidingBits == {1, 2}
CollidingTx == {{1}, {2}, {1, 2}}
CollidingHash ==
  [d \in SUBSET CollidingBits |->
     IF d = {} THEN h0 ELSE IF d = {1, 2} THEN h2 ELSE h1]
=============================================================================
