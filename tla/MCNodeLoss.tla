----------------------------- MODULE MCNodeLoss -----------------------------
(* An instance of NodeLoss for TLC: a loses codewords, b does not.          *)
EXTENDS NodeLoss, TLC

CONSTANTS a, b

MCPeer == (a :> b) @@ (b :> a)
MCBudget == (a :> 2) @@ (b :> 0)
=============================================================================
