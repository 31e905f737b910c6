---------------------------- MODULE MCLtEncoder ----------------------------
(* An instance of the encoders for TLC: five transactions of which two      *)
(* share a salted hash, so that a window holds up to four.                  *)
EXTENDS LdpcEncoder, TLC

CONSTANTS h0, h1, h2, h3, h4

MCBits == 1..4
MCTx == {{1}, {2}, {3}, {4}, {1, 2}}
MCHash ==
  [d \in SUBSET MCBits |->
     CASE d = {1} -> h1
       [] d \in {{2}, {1, 2}} -> h2
       [] d = {3} -> h3
       [] d = {4} -> h4
       [] OTHER -> h0]
=============================================================================
